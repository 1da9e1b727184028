---------------------------- MODULE EngineProofs ----------------------------
(***************************************************************************)
(* Theorems about Engine, for any rows, archive set, limits and bounds.    *)
(*                                                                         *)
(* First what the queue operations and the slots return, and the types;    *)
(* then the worker table, the rows and their records agree; then, with     *)
(* that, the permit, the queue and the archive set.                        *)
(*                                                                         *)
(* WorkersMatchRows is not inductive by itself.  A row may only be removed *)
(* once its worker has left, which the wait before it must have seen to    *)
(* (WaitCovers), and a task may only move a row that its worker still owns *)
(* (WorkerShape).  CrashLosesNothing rides along: which status a crash     *)
(* makes of an active row depends on the job of its worker.                *)
(*                                                                         *)
(* The last part shows that Engine implements Lifecycle.  Each step is a   *)
(* step of Lifecycle or none, given those invariants and LifeInv: what is  *)
(* in memory is in the database, and what a command waits for is there.    *)
(***************************************************************************)
EXTENDS Engine, TLAPS, FiniteSetTheorems, SequenceTheorems

-----------------------------------------------------------------------------
(* What the queue operations return, for queues of any length. *)

(* The members of a finite set of positions have the ranks 1 to its size,  *)
(* each rank once: rank is injective, and as many ranks as members remain. *)
LEMMA RankIsBijective ==
  ASSUME NEW K \in SUBSET Nat, IsFiniteSet(K)
  PROVE  /\ \A p \in K : Rank(K, p) \in 1..Cardinality(K)
         /\ \A p, m \in K : Rank(K, p) = Rank(K, m) => p = m
         /\ \A n \in 1..Cardinality(K) : \E p \in K : Rank(K, p) = n
<1> DEFINE Upto(p) == {m \in K : m <= p}
           rank == [p \in K |-> Rank(K, p)]
           ranks == {rank[p] : p \in K}
<1>1. \A p \in K : /\ IsFiniteSet(Upto(p))
                   /\ Rank(K, p) = Cardinality(Upto(p))
                   /\ Cardinality(Upto(p)) \in 1..Cardinality(K)
  <2> SUFFICES ASSUME NEW p \in K
               PROVE  /\ IsFiniteSet(Upto(p))
                      /\ Rank(K, p) = Cardinality(Upto(p))
                      /\ Cardinality(Upto(p)) \in 1..Cardinality(K)
    OBVIOUS
  <2>1. Upto(p) \in SUBSET K
    OBVIOUS
  <2>2. IsFiniteSet(Upto(p)) /\ Cardinality(Upto(p)) <= Cardinality(K)
    BY <2>1, FS_Subset
  <2>3. Upto(p) # {}
    <3>1. p <= p
      OBVIOUS
    <3> QED BY <3>1
  <2>4. Cardinality(Upto(p)) # 0
    BY <2>2, <2>3, FS_EmptySet
  <2>5. Cardinality(Upto(p)) \in Nat /\ Cardinality(K) \in Nat
    BY <2>2, FS_CardinalityType
  <2> QED BY <2>2, <2>4, <2>5 DEF Rank
<1>2. \A p, m \in K : m < p => Cardinality(Upto(m)) < Cardinality(Upto(p))
  <2> SUFFICES ASSUME NEW p \in K, NEW m \in K, m < p
               PROVE  Cardinality(Upto(m)) < Cardinality(Upto(p))
    OBVIOUS
  <2>1. Upto(m) \in SUBSET Upto(p)
    <3>1. \A k \in K : k <= m => k <= p
      OBVIOUS
    <3> QED BY <3>1
  <2>2. p \in Upto(p) /\ p \notin Upto(m)
    OBVIOUS
  <2>3. Upto(p) # Upto(m)
    BY <2>2
  <2>4. /\ Cardinality(Upto(m)) <= Cardinality(Upto(p))
        /\ Cardinality(Upto(m)) # Cardinality(Upto(p))
    BY <1>1, <2>1, <2>3, FS_Subset
  <2> HIDE DEF Upto
  <2>5. Cardinality(Upto(m)) \in Nat /\ Cardinality(Upto(p)) \in Nat
    BY <1>1, FS_CardinalityType
  <2> QED BY <2>4, <2>5
<1>3. \A p, m \in K : Rank(K, p) = Rank(K, m) => p = m
  <2> SUFFICES ASSUME NEW p \in K, NEW m \in K, p # m
               PROVE  Cardinality(Upto(p)) # Cardinality(Upto(m))
    BY <1>1
  <2> HIDE DEF Upto
  <2>1. Cardinality(Upto(p)) \in Nat /\ Cardinality(Upto(m)) \in Nat
    BY <1>1, FS_CardinalityType
  <2>2. p < m \/ m < p
    OBVIOUS
  <2> QED BY <1>2, <2>1, <2>2
<1>4. ranks \in SUBSET (1..Cardinality(K))
  BY <1>1
<1>5. rank \in Bijection(K, ranks)
  <2>1. rank \in [K -> ranks]
    OBVIOUS
  <2>2. IsInjective(rank)
    BY <1>3 DEF IsInjective
  <2> QED BY <2>1, <2>2 DEF Bijection, Injection, Surjection
<1>6. Cardinality(ranks) = Cardinality(K)
  BY <1>5, FS_Bijection DEF ExistsBijection
<1>7. Cardinality(K) \in Nat
  BY FS_CardinalityType
<1>8. IsFiniteSet(1..Cardinality(K)) /\ Cardinality(1..Cardinality(K)) = Cardinality(K)
  BY <1>7, FS_Interval
<1>9. ranks = 1..Cardinality(K)
  <2> HIDE DEF ranks
  <2> QED BY <1>4, <1>6, <1>8, FS_Subset
<1>10. \A n \in 1..Cardinality(K) : \E p \in K : Rank(K, p) = n
  BY <1>9
<1> QED BY <1>1, <1>3, <1>10

(* Retaining S keeps a queue's entries in S and no others. *)
LEMMA RetainProperties ==
  ASSUME NEW T, NEW q \in Seq(T), NEW S
  PROVE  /\ Retain(q, S) \in Seq(T \cap S)
         /\ Retain(q, S) \in Seq(T)
         /\ Entries(Retain(q, S)) = Entries(q) \cap S
<1> DEFINE kept == {p \in DOMAIN q : q[p] \in S}
           at(n) == CHOOSE p \in kept : Rank(kept, p) = n
<1>1. kept \in SUBSET Nat /\ IsFiniteSet(kept)
  <2>1. Len(q) \in Nat /\ DOMAIN q = 1..Len(q)
    BY LenProperties
  <2>2. kept \in SUBSET (1..Len(q))
    BY <2>1
  <2>3. IsFiniteSet(1..Len(q))
    BY <2>1, FS_Interval
  <2> QED BY <2>1, <2>2, <2>3, FS_Subset
<1>2. Cardinality(kept) \in Nat
  BY <1>1, FS_CardinalityType
<1>3. \A n \in 1..Cardinality(kept) : at(n) \in kept /\ Rank(kept, at(n)) = n
  <2> HIDE DEF kept
  <2> QED BY <1>1, RankIsBijective
<1>4. \A p \in kept : /\ Rank(kept, p) \in 1..Cardinality(kept)
                      /\ at(Rank(kept, p)) = p
  <2> HIDE DEF kept
  <2>1. \A p \in kept : Rank(kept, p) \in 1..Cardinality(kept)
    BY <1>1, RankIsBijective
  <2> QED BY <1>1, <1>3, <2>1, RankIsBijective
<1>5. Retain(q, S) = [n \in 1..Cardinality(kept) |-> q[at(n)]]
  BY DEF Retain
<1>6. \A p \in kept : q[p] \in T \cap S
  <2>1. \A p \in 1..Len(q) : q[p] \in T
    BY ElementOfSeq
  <2> QED BY <2>1, LenProperties
<1>7. Retain(q, S) \in [1..Cardinality(kept) -> T \cap S]
  <2> HIDE DEF kept, at
  <2> QED BY <1>3, <1>5, <1>6
<1>8. Retain(q, S) \in Seq(T \cap S)
  <2> HIDE DEF kept
  <2>1. Retain(q, S) \in UNION {[1..n -> T \cap S] : n \in Nat}
    BY <1>2, <1>7
  <2> QED BY <2>1, SeqDef
<1>9. Retain(q, S) \in Seq(T)
  BY <1>8, SeqMonotonic
<1>10. Entries(Retain(q, S)) = {q[p] : p \in kept}
  <2>1. \A p \in kept : \E n \in 1..Cardinality(kept) : Retain(q, S)[n] = q[p]
    <3> HIDE DEF kept, at
    <3> QED BY <1>4, <1>5
  <2>2. \A n \in 1..Cardinality(kept) : \E p \in kept : Retain(q, S)[n] = q[p]
    <3> HIDE DEF kept, at
    <3> QED BY <1>3, <1>5
  <2>3. DOMAIN Retain(q, S) = 1..Cardinality(kept)
    BY <1>5
  <2> HIDE DEF kept
  <2> QED BY <2>1, <2>2, <2>3 DEF Entries
<1>11. {q[p] : p \in kept} = Entries(q) \cap S
  BY DEF Entries
<1> QED BY <1>8, <1>9, <1>10, <1>11

(* Pushing one queue behind another. *)
LEMMA ConcatEntries ==
  ASSUME NEW T, NEW q \in Seq(T), NEW r \in Seq(T)
  PROVE  q \o r \in Seq(T) /\ Entries(q \o r) = Entries(q) \cup Entries(r)
<1>1. /\ q \o r \in Seq(T)
      /\ Len(q \o r) = Len(q) + Len(r)
      /\ \A n \in 1..(Len(q) + Len(r)) :
           (q \o r)[n] = IF n <= Len(q) THEN q[n] ELSE r[n - Len(q)]
  BY ConcatProperties
<1>2. /\ DOMAIN q = 1..Len(q) /\ DOMAIN r = 1..Len(r)
      /\ DOMAIN (q \o r) = 1..(Len(q) + Len(r))
      /\ Len(q) \in Nat /\ Len(r) \in Nat
  BY <1>1, LenProperties
<1>3. Entries(q \o r) \subseteq Entries(q) \cup Entries(r)
  <2> SUFFICES ASSUME NEW n \in 1..(Len(q) + Len(r))
               PROVE  (q \o r)[n] \in Entries(q) \cup Entries(r)
    BY <1>2 DEF Entries
  <2>1. CASE n <= Len(q)
    BY <1>1, <1>2, <2>1 DEF Entries
  <2>2. CASE n > Len(q)
    <3>1. n - Len(q) \in 1..Len(r) /\ ~(n <= Len(q))
      BY <1>2, <2>2
    <3> QED BY <1>1, <1>2, <3>1 DEF Entries
  <2> QED BY <1>2, <2>1, <2>2
<1>4. Entries(q) \subseteq Entries(q \o r)
  <2> SUFFICES ASSUME NEW n \in 1..Len(q)
               PROVE  q[n] \in Entries(q \o r)
    BY <1>2 DEF Entries
  <2>1. n \in 1..(Len(q) + Len(r)) /\ n <= Len(q)
    BY <1>2
  <2> QED BY <1>1, <1>2, <2>1 DEF Entries
<1>5. Entries(r) \subseteq Entries(q \o r)
  <2> SUFFICES ASSUME NEW n \in 1..Len(r)
               PROVE  r[n] \in Entries(q \o r)
    BY <1>2 DEF Entries
  <2>1. /\ n + Len(q) \in 1..(Len(q) + Len(r))
        /\ ~(n + Len(q) <= Len(q))
        /\ n + Len(q) - Len(q) = n
    BY <1>2
  <2> QED BY <1>1, <1>2, <2>1 DEF Entries
<1> QED BY <1>1, <1>3, <1>4, <1>5

(* Pushing one row behind a queue. *)
LEMMA AppendEntries ==
  ASSUME NEW T, NEW q \in Seq(T), NEW i \in T
  PROVE  Append(q, i) \in Seq(T) /\ Entries(Append(q, i)) = Entries(q) \cup {i}
<1>1. Append(q, i) = q \o <<i>> /\ <<i>> \in Seq(T) /\ Append(q, i) \in Seq(T)
  BY AppendIsConcat, AppendProperties
<1>2. Entries(<<i>>) = {i}
  BY DEF Entries
<1>3. Entries(q \o <<i>>) = Entries(q) \cup Entries(<<i>>)
  BY <1>1, ConcatEntries
<1> QED BY <1>1, <1>2, <1>3

(* Dropping the entry at n loses that row at most. *)
LEMMA DropAtEntries ==
  ASSUME NEW T, NEW q \in Seq(T), NEW n \in DOMAIN q
  PROVE  /\ DropAt(q, n) \in Seq(T)
         /\ Entries(DropAt(q, n)) \subseteq Entries(q)
         /\ Entries(q) \subseteq Entries(DropAt(q, n)) \cup {q[n]}
<1> DEFINE front == SubSeq(q, 1, n - 1)
           back == SubSeq(q, n + 1, Len(q))
<1>1. Len(q) \in Nat /\ DOMAIN q = 1..Len(q) /\ n \in 1..Len(q)
  BY LenProperties
<1>2. \A m \in 1..Len(q) : q[m] \in T
  BY ElementOfSeq
<1>3. /\ front \in Seq(T)
      /\ Len(front) = n - 1
      /\ \A m \in 1..(n - 1) : front[m] = q[m]
  <2>1. \A m \in 1..(n - 1) : q[m] \in T
    BY <1>1, <1>2
  <2>2. /\ front \in Seq(T)
        /\ Len(front) = IF 1 <= n - 1 THEN (n - 1) - 1 + 1 ELSE 0
        /\ \A m \in 1..((n - 1) - 1 + 1) : front[m] = q[1 + m - 1]
    BY <1>1, <2>1, SubSeqProperties
  <2> HIDE DEF front
  <2> QED BY <1>1, <2>2
<1>4. /\ back \in Seq(T)
      /\ Len(back) = Len(q) - n
      /\ \A m \in 1..(Len(q) - n) : back[m] = q[n + m]
  <2>1. \A m \in (n + 1)..Len(q) : q[m] \in T
    BY <1>1, <1>2
  <2>2. /\ back \in Seq(T)
        /\ Len(back) = IF n + 1 <= Len(q) THEN Len(q) - (n + 1) + 1 ELSE 0
        /\ \A m \in 1..(Len(q) - (n + 1) + 1) : back[m] = q[n + 1 + m - 1]
    BY <1>1, <2>1, SubSeqProperties
  <2> HIDE DEF back
  <2>3. Len(back) = Len(q) - n
    BY <1>1, <2>2
  <2>4. \A m \in 1..(Len(q) - n) : /\ m \in 1..(Len(q) - (n + 1) + 1)
                                   /\ n + 1 + m - 1 = n + m
    BY <1>1
  <2> QED BY <2>2, <2>3, <2>4
<1> HIDE DEF front, back
<1>5. DropAt(q, n) \in Seq(T) /\ Entries(DropAt(q, n)) = Entries(front) \cup Entries(back)
  BY <1>3, <1>4, ConcatEntries DEF DropAt, front, back
<1>6. DOMAIN front = 1..(n - 1) /\ DOMAIN back = 1..(Len(q) - n)
  BY <1>3, <1>4, LenProperties
<1>7. Entries(front) \subseteq Entries(q)
  BY <1>1, <1>3, <1>6 DEF Entries
<1>8. Entries(back) \subseteq Entries(q)
  <2> SUFFICES ASSUME NEW m \in 1..(Len(q) - n)
               PROVE  back[m] \in Entries(q)
    BY <1>6 DEF Entries
  <2>1. n + m \in 1..Len(q)
    BY <1>1
  <2> QED BY <1>1, <1>4, <2>1 DEF Entries
<1>9. Entries(q) \subseteq Entries(front) \cup Entries(back) \cup {q[n]}
  <2> SUFFICES ASSUME NEW m \in 1..Len(q), m # n
               PROVE  q[m] \in Entries(front) \cup Entries(back)
    BY <1>1 DEF Entries
  <2>1. CASE m < n
    <3>1. m \in 1..(n - 1)
      BY <1>1, <2>1
    <3> QED BY <1>3, <1>6, <3>1 DEF Entries
  <2>2. CASE m > n
    <3>1. m - n \in 1..(Len(q) - n) /\ n + (m - n) = m
      BY <1>1, <2>2
    <3> QED BY <1>4, <1>6, <3>1 DEF Entries
  <2> QED BY <1>1, <2>1, <2>2
<1> QED BY <1>5, <1>7, <1>8, <1>9

(* An ordering of a finite set holds all of it. *)
LEMMA OrderingEntries ==
  ASSUME NEW T, NEW S \in SUBSET T, IsFiniteSet(S), NEW q \in Orderings(S)
  PROVE  q \in Seq(T) /\ Entries(q) = S
<1> DEFINE N == Cardinality(S)
<1>1. N \in Nat /\ IsFiniteSet(1..N) /\ Cardinality(1..N) = N
  <2>1. N \in Nat
    BY FS_CardinalityType
  <2> QED BY <2>1, FS_Interval
<1>2. q \in [1..N -> S] /\ q \in Injection(1..N, S)
  BY DEF Orderings, Injection, IsInjective
<1>3. q \in Surjection(1..N, S)
  BY <1>1, <1>2, FS_Injection
<1>4. Entries(q) = S
  BY <1>2, <1>3 DEF Entries, Surjection
<1>5. q \in Seq(S)
  BY <1>1, <1>2, SeqDef
<1> QED BY <1>4, <1>5, SeqMonotonic

-----------------------------------------------------------------------------
(* The types of the values that actions build. *)

LEMMA PutType ==
  ASSUME NEW S, NEW T, NEW f \in [S -> T], NEW I, NEW v \in T
  PROVE  Put(f, I, v) \in [S -> T]
BY DEF Put

LEMMA WorkerTypes ==
  ASSUME worker \in [WorkerIds -> Worker]
  PROVE  /\ NoWorker \in Worker
         /\ \A job \in {"download", "extract"} : Spawned(job) \in Worker
         /\ \A W : Cancelled(W) \in [WorkerIds -> Worker]
<1>1. NoWorker \in Worker
  BY DEF NoWorker, Worker, Phases, Results, Active
<1>2. \A job \in {"download", "extract"} : Spawned(job) \in Worker
  BY DEF Spawned, NoWorker, Worker, Phases, Results, Active
<1>3. \A W : Cancelled(W) \in [WorkerIds -> Worker]
  <2>1. \A w \in WorkerIds : [worker[w] EXCEPT !.cancelled = TRUE] \in Worker
    BY DEF Worker
  <2> QED BY <2>1 DEF Cancelled
<1> QED BY <1>1, <1>2, <1>3

LEMMA WorkerFields ==
  ASSUME NEW r \in Worker
  PROVE  /\ \A p \in Active : [r EXCEPT !.phase = p, !.report = p] \in Worker
         /\ [r EXCEPT !.report = "none"] \in Worker
         /\ [r EXCEPT !.slot = FALSE] \in Worker
         /\ \A x \in Results :
              [r EXCEPT !.phase = "returned", !.result = x, !.slot = FALSE] \in Worker
         /\ [r EXCEPT !.phase = "exited"] \in Worker
BY DEF Worker, Phases

LEMMA ExitStatusType ==
  ASSUME NEW job, NEW current \in Statuses, NEW result,
         NEW cancelled \in BOOLEAN, NEW shutdown \in BOOLEAN
  PROVE  /\ ExitStatus(job, current, result, cancelled, shutdown) \in Statuses
         /\ ExitStatus(job, current, result, cancelled, shutdown) \notin Active
<1>1. /\ CancelledStatus(job, current, shutdown) \in Statuses
      /\ CancelledStatus(job, current, shutdown) \notin Active
  BY DEF CancelledStatus, Statuses, Active, Terminal
<1>2. /\ FailedStatus(job, result) \in Statuses
      /\ FailedStatus(job, result) \notin Active
  BY DEF FailedStatus, Statuses, Active, Terminal
<1>3. "Completed" \in Statuses /\ "Completed" \notin Active
  BY DEF Statuses, Active, Terminal
<1> QED BY <1>1, <1>2, <1>3 DEF ExitStatus

-----------------------------------------------------------------------------
(* Parts of the steps that several actions share. *)

LEMMA PartsType == Parts \in Seq(Rows) /\ PartSet \subseteq Rows
<1>1. Parts \in Seq(Rows)
  BY EngineAssumption, SeqMonotonic DEF Rows
<1>2. \A n \in DOMAIN Parts : Parts[n] \in Rows
  BY <1>1, ElementOfSeq, LenProperties
<1> QED BY <1>1, <1>2 DEF PartSet, Entries

LEMMA CommitType ==
  ASSUME TypeOK, NEW I, NEW s \in Statuses, Commit(I, s)
  PROVE  status' \in [Rows -> Statuses] /\ durable' \in [Rows -> Statuses]
BY PutType DEF TypeOK, Commit

LEMMA InterruptType ==
  ASSUME TypeOK, NEW I, Interrupt(I)
  PROVE  queue' \in Seq(Rows) /\ worker' \in [WorkerIds -> Worker]
BY RetainProperties, WorkerTypes DEF TypeOK, Interrupt

LEMMA EnqueueType ==
  ASSUME TypeOK, NEW q \in Seq(Rows), Enqueue(q)
  PROVE  queue' \in Seq(Rows)
BY ConcatProperties DEF TypeOK, Enqueue

(* The rows a command pushes are its targets. *)
LEMMA InOrderProperties ==
  ASSUME NEW id \in WorkerIds, NEW from
  PROVE  LET I == Targets(id, from) IN
         /\ I \subseteq Rows
         /\ InOrder(id, I) \in Seq(Rows)
         /\ I # {} => Entries(InOrder(id, I)) = I
<1>1. CASE id = Pkg
  <2>1. Targets(id, from) \subseteq PartSet
    BY <1>1 DEF Targets
  <2>2. /\ Retain(Parts, Targets(id, from)) \in Seq(Rows)
        /\ Entries(Retain(Parts, Targets(id, from))) = PartSet \cap Targets(id, from)
    BY PartsType, RetainProperties DEF PartSet
  <2> QED BY <1>1, <2>1, <2>2, PartsType DEF InOrder
<1>2. CASE id # Pkg
  <2>1. id \in Rows /\ Targets(id, from) \subseteq {id}
    BY <1>2 DEF Targets, WorkerIds
  <2>2. <<id>> \in Seq(Rows) /\ Entries(<<id>>) = {id}
    BY <2>1 DEF Entries
  <2> QED BY <1>2, <2>1, <2>2 DEF InOrder
<1> QED BY <1>1, <1>2

-----------------------------------------------------------------------------
(* Type correctness.                                                       *)

LEMMA TypeInit == Init => TypeOK
<1> SUFFICES ASSUME Init PROVE TypeOK
  OBVIOUS
<1>1. NoWorker \in Worker
  BY DEF NoWorker, Worker, Phases, Results, Active
<1>2. <<>> \in Seq(Rows) /\ <<>> \in Seq(WorkerIds)
  BY EmptySeq
<1>3. limit \in 1..MaxConcurrent /\ faults \in 0..MaxFaults /\ restarts \in 0..MaxRestarts
  BY EngineAssumption DEF Init
<1>4. status \in [Rows -> Statuses] /\ durable \in [Rows -> Statuses] /\ prior \in Statuses
  BY DEF Init, Statuses
<1> QED BY <1>1, <1>2, <1>3, <1>4 DEF Init, TypeOK, PackageStates, LoopStates, WorkerIds

(* The commands keep the types. *)
LEMMA TypeCommand == TypeOK /\ Command => TypeOK'
<1> SUFFICES ASSUME TypeOK, Command PROVE TypeOK'
  OBVIOUS
<1> USE DEF TypeOK, Receive, RowCommand, rowVars, pkgVars, waitVars, boundVars
<1>1. ASSUME NEW q \in Seq(Rows), Insert(q), UNCHANGED <<permit, boundVars>>,
             pkg' \in PackageStates, durablePkg' \in PackageStates
      PROVE  TypeOK'
  <2>1. "Queued" \in Statuses /\ "scan" \in LoopStates
    BY DEF Statuses, LoopStates
  <2>2. status' \in [Rows -> Statuses] /\ durable' \in [Rows -> Statuses]
    BY <1>1, <2>1, CommitType DEF Insert
  <2>3. queue' \in Seq(Rows)
    BY <1>1, EnqueueType DEF Insert
  <2>4. created' \in Seq(Rows)
    BY <1>1, ConcatProperties DEF Insert
  <2> QED BY <1>1, <2>1, <2>2, <2>3, <2>4 DEF Insert
<1>2. ASSUME NEW i \in Rows, Add(i) PROVE TypeOK'
  <2>1. <<i>> \in Seq(Rows)
    OBVIOUS
  <2> QED BY <1>1, <1>2, <2>1 DEF Add
<1>3. ASSUME AddArchiveSet PROVE TypeOK'
  BY <1>1, <1>3, PartsType DEF AddArchiveSet, PackageStates
<1>4. ASSUME NEW I, NEW s \in Statuses, Commit(I, s), Interrupt(I),
             loop' = "scan", UNCHANGED <<permit, boundVars, created, pkgVars, limit, waitVars>>
      PROVE  TypeOK'
  BY <1>4, CommitType, InterruptType DEF LoopStates
<1>5. ASSUME NEW id \in WorkerIds, Pause(id) PROVE TypeOK'
  BY <1>4, <1>5 DEF Pause, Statuses
<1>6. ASSUME NEW id \in WorkerIds, NEW from, Requeue(id, from),
             loop' = "scan", UNCHANGED <<permit, boundVars, created, pkgVars, limit, waitVars>>
      PROVE  TypeOK'
  <2>1. status' \in [Rows -> Statuses] /\ durable' \in [Rows -> Statuses]
    BY <1>6, CommitType DEF Requeue, Statuses
  <2>2. queue' \in Seq(Rows)
    BY <1>6, EnqueueType, InOrderProperties DEF Requeue
  <2> QED BY <1>6, <2>1, <2>2 DEF Requeue, LoopStates
<1>7. ASSUME NEW id \in WorkerIds, Resume(id) PROVE TypeOK'
  BY <1>6, <1>7 DEF Resume
<1>8. ASSUME NEW id \in WorkerIds, Retry(id) PROVE TypeOK'
  BY <1>6, <1>8 DEF Retry
<1>9. ASSUME NEW id \in WorkerIds, Cancel(id) PROVE TypeOK'
  BY <1>4, <1>9 DEF Cancel, Statuses, Terminal
<1>10. ASSUME NEW id \in WorkerIds, CancelExtraction(id) PROVE TypeOK'
  BY <1>10, WorkerTypes DEF CancelExtraction, LoopStates
<1>11. ASSUME NEW id \in WorkerIds, Remove(id) PROVE TypeOK'
  <2>1. Append(Parts, Pkg) \in Seq(WorkerIds)
    <3>1. Parts \in Seq(WorkerIds) /\ Pkg \in WorkerIds
      BY PartsType, SeqMonotonic DEF WorkerIds
    <3> QED BY <3>1, AppendProperties
  <2>2. <<id>> \in Seq(WorkerIds)
    OBVIOUS
  <2> QED BY <1>11, <2>1, <2>2 DEF Remove, LoopStates
<1>12. ASSUME NEW i \in Rows, StopSeeding(i) PROVE TypeOK'
  BY <1>4, <1>12 DEF StopSeeding, Statuses, Terminal
<1>13. ASSUME NEW i \in Rows, RetryExtract(i) PROVE TypeOK'
  <2>1. status' \in [Rows -> Statuses] /\ durable' \in [Rows -> Statuses]
    BY <1>13, CommitType DEF RetryExtract, Statuses, Active
  <2>2. worker' \in [WorkerIds -> Worker]
    BY <1>13, WorkerTypes DEF RetryExtract
  <2> QED BY <1>13, <2>1, <2>2 DEF RetryExtract, LoopStates
<1>14. ASSUME NEW i \in Torrent, ForceRecheck(i) PROVE TypeOK'
  <2>1. status' \in [Rows -> Statuses] /\ durable' \in [Rows -> Statuses]
    BY <1>14, CommitType DEF ForceRecheck, Statuses
  <2>2. worker' \in [WorkerIds -> Worker]
    BY <1>14, WorkerTypes DEF ForceRecheck
  <2>3. i \in WorkerIds /\ i \in Rows /\ <<i>> \in Seq(WorkerIds)
    BY DEF WorkerIds, Rows
  <2> QED BY <1>14, <2>1, <2>2, <2>3 DEF ForceRecheck, LoopStates
<1>15. ASSUME PauseAll PROVE TypeOK'
  BY <1>4, <1>15 DEF PauseAll, Statuses
<1>16. ASSUME ResumeAll PROVE TypeOK'
  <2> DEFINE I == {i \in Rows : status[i] = "Paused"}
  <2>1. status' \in [Rows -> Statuses] /\ durable' \in [Rows -> Statuses]
    BY <1>16, CommitType DEF ResumeAll, Statuses
  <2>2. IsFiniteSet(I) /\ I \in SUBSET Rows
    BY EngineAssumption, FS_Subset
  <2>3. \A q \in Orderings(I) : q \in Seq(Rows)
    BY <2>2, OrderingEntries
  <2>4. queue' \in Seq(Rows)
    BY <1>16, <2>3, EnqueueType DEF ResumeAll
  <2> QED BY <1>16, <2>1, <2>4 DEF ResumeAll, LoopStates
<1>17. ASSUME NEW n \in 1..MaxConcurrent, SetConfig(n) PROVE TypeOK'
  BY <1>17 DEF SetConfig, LoopStates
<1>18. ASSUME RetryPackageExtract PROVE TypeOK'
  BY <1>18, WorkerTypes
     DEF RetryPackageExtract, SetPackage, PackageStates, LoopStates, WorkerIds
<1>19. ASSUME Shutdown PROVE TypeOK'
  BY <1>19, WorkerTypes DEF Shutdown, LoopStates
<1> HIDE DEF TypeOK, Receive, RowCommand, rowVars, pkgVars, waitVars, boundVars
<1> QED BY <1>2, <1>3, <1>5, <1>7, <1>8, <1>9, <1>10, <1>11, <1>12, <1>13,
           <1>14, <1>15, <1>16, <1>17, <1>18, <1>19 DEF Command

(* The steps of the loop keep the types. *)
LEMMA TypeLoop == TypeOK /\ Loop => TypeOK'
<1> SUFFICES ASSUME TypeOK, Loop PROVE TypeOK'
  OBVIOUS
<1> USE DEF TypeOK, rowVars, pkgVars, waitVars, boundVars
<1>1. ASSUME Fault PROVE faults' \in 0..MaxFaults
  BY <1>1, EngineAssumption DEF Fault
<1>2. ASSUME EndWait
      PROVE  /\ loop' \in LoopStates /\ target' \in WorkerIds
             /\ stops' \in Seq(WorkerIds) /\ prior' \in Statuses
             /\ loop' # "recheck"
  BY <1>2, EmptySeq DEF EndWait, LoopStates, Statuses, WorkerIds
<1>3. ASSUME Start PROVE TypeOK'
  <2>1. Pruned \in Seq(Rows)
    BY RetainProperties DEF Pruned
  <2>2. PICK n \in DOMAIN Pruned :
          LET i == Pruned[n] IN
          /\ queue' = DropAt(Pruned, n)
          /\ \/ /\ Commit({i}, "Starting")
                /\ worker' = [worker EXCEPT ![i] = Spawned("download")]
                /\ UNCHANGED faults
             \/ /\ Fault
                /\ status' = Put(status, {i}, "Error")
                /\ durable' \in {durable, Put(durable, {i}, "Error")}
                /\ UNCHANGED worker
    BY <1>3 DEF Start
  <2>3. Pruned[n] \in Rows
    BY <2>1, ElementOfSeq, LenProperties
  <2>4. queue' \in Seq(Rows)
    BY <2>1, <2>2, DropAtEntries
  <2>5. CASE /\ Commit({Pruned[n]}, "Starting")
             /\ worker' = [worker EXCEPT ![Pruned[n]] = Spawned("download")]
             /\ UNCHANGED faults
    <3>1. status' \in [Rows -> Statuses] /\ durable' \in [Rows -> Statuses]
      BY <2>5, CommitType DEF Statuses, Active
    <3>2. worker' \in [WorkerIds -> Worker]
      BY <2>5, WorkerTypes
    <3> QED BY <1>3, <2>4, <2>5, <3>1, <3>2 DEF Start
  <2>6. CASE /\ Fault
             /\ status' = Put(status, {Pruned[n]}, "Error")
             /\ durable' \in {durable, Put(durable, {Pruned[n]}, "Error")}
             /\ UNCHANGED worker
    <3>1. /\ Put(status, {Pruned[n]}, "Error") \in [Rows -> Statuses]
          /\ Put(durable, {Pruned[n]}, "Error") \in [Rows -> Statuses]
      BY PutType DEF Statuses
    <3>2. status' \in [Rows -> Statuses] /\ durable' \in [Rows -> Statuses]
      BY <2>6, <3>1
    <3> QED BY <1>1, <1>3, <2>4, <2>6, <3>2 DEF Start
  <2> QED BY <2>2, <2>5, <2>6
<1>4. ASSUME ScanDone PROVE TypeOK'
  <2>1. Pruned \in Seq(Rows)
    BY RetainProperties DEF Pruned
  <2> QED BY <1>4, <2>1 DEF ScanDone, LoopStates
<1>5. ASSUME Wake PROVE TypeOK'
  BY <1>5 DEF Wake, LoopStates
<1>6. ASSUME NEW w, Leaves(w)
      PROVE  /\ UNCHANGED <<created, queue, permit, limit, waitVars, restarts>>
             /\ loop' \in LoopStates /\ (loop' = "recheck" => loop = "recheck")
  BY <1>6 DEF Leaves, LoopStates
<1>7. ASSUME NEW i \in Rows
      PROVE  ExitStatus(worker[i].job, status[i], worker[i].result,
                        worker[i].cancelled, loop = "stop") \in Statuses
  <2>1. status[i] \in Statuses /\ worker[i].cancelled \in BOOLEAN
    BY DEF Worker, WorkerIds
  <2>2. (loop = "stop") \in BOOLEAN
    OBVIOUS
  <2> QED BY <2>1, <2>2, ExitStatusType
<1>8. ASSUME NEW i \in Rows, Finish(i) PROVE TypeOK'
  <2> DEFINE exit == ExitStatus(worker[i].job, status[i], worker[i].result,
                                worker[i].cancelled, loop = "stop")
  <2>1. worker' \in [WorkerIds -> Worker]
    BY <1>8, WorkerTypes DEF Finish
  <2>2. exit \in Statuses /\ "Error" \in Statuses
    BY <1>7 DEF Statuses
  <2>3. /\ status' \in [Rows -> Statuses] /\ durable' \in [Rows -> Statuses]
        /\ faults' \in 0..MaxFaults
    <3>1. CASE Commit({i}, exit) /\ UNCHANGED faults
      BY <2>2, <3>1, CommitType
    <3>2. CASE WriteFails(i, exit)
      BY <1>1, <2>2, <3>2, PutType DEF WriteFails
    <3> QED BY <1>8, <3>1, <3>2 DEF Finish
  <2>4. Leaves(i) /\ UNCHANGED pkgVars
    BY <1>8 DEF Finish
  <2> QED BY <1>6, <2>1, <2>3, <2>4
<1>9. ASSUME NEW i \in Rows, FinishParts(i) PROVE TypeOK'
  <2>1. status' \in [Rows -> Statuses] /\ durable' \in [Rows -> Statuses]
    BY <1>9, CommitType DEF FinishParts, Statuses, Terminal
  <2>2. /\ worker' \in [WorkerIds -> Worker] /\ faults' \in 0..MaxFaults
        /\ pkg' \in PackageStates /\ durablePkg' \in PackageStates
    BY <1>1, <1>9, WorkerTypes DEF FinishParts, SetPackage, PackageStates, WorkerIds
  <2>3. Leaves(i)
    BY <1>9 DEF FinishParts
  <2> QED BY <1>6, <2>1, <2>2, <2>3
<1>10. ASSUME FinishPackage PROVE TypeOK'
  <2>1. worker' \in [WorkerIds -> Worker]
    BY <1>10, WorkerTypes DEF FinishPackage
  <2>2. /\ faults' \in 0..MaxFaults
        /\ pkg' \in PackageStates /\ durablePkg' \in PackageStates
    BY <1>1, <1>10 DEF FinishPackage, SetPackage, PackageStates
  <2>3. Leaves(Pkg) /\ UNCHANGED <<status, durable>>
    BY <1>10 DEF FinishPackage
  <2> QED BY <1>6, <2>1, <2>2, <2>3
<1>11. ASSUME StopWorker PROVE TypeOK'
  <2>1. Tail(stops) \in Seq(WorkerIds)
    BY <1>11, HeadTailProperties DEF StopWorker
  <2> QED BY <1>11, <2>1, WorkerTypes DEF StopWorker
<1>12. ASSUME StopTimeout PROVE TypeOK'
  <2>1. queue' \in Seq(Rows)
    BY <1>12, AppendProperties DEF StopTimeout, QueueAfterTimeout
  <2> QED BY <1>2, <1>12, <2>1 DEF StopTimeout
<1>13. ASSUME RemoveRows PROVE TypeOK'
  <2> DEFINE I == IF target = Pkg THEN PartSet ELSE {target}
  <2>1. CASE /\ Commit(I, "Gone")
             /\ created' = Retain(created, Rows \ I)
             /\ IF target = Pkg THEN SetPackage("Gone") ELSE UNCHANGED pkgVars
             /\ queue' = Retain(queue, Rows \ I)
    <3>1. status' \in [Rows -> Statuses] /\ durable' \in [Rows -> Statuses]
      BY <2>1, CommitType DEF Statuses
    <3>2. created' \in Seq(Rows) /\ queue' \in Seq(Rows)
      BY <2>1, RetainProperties
    <3>3. pkg' \in PackageStates /\ durablePkg' \in PackageStates
      BY <2>1 DEF SetPackage, PackageStates
    <3> QED BY <1>2, <1>13, <3>1, <3>2, <3>3 DEF RemoveRows
  <2>2. CASE UNCHANGED <<rowVars, pkgVars, queue>>
    BY <1>2, <1>13, <2>2 DEF RemoveRows
  <2> QED BY <1>13, <2>1, <2>2 DEF RemoveRows
<1>14. ASSUME Recheck PROVE TypeOK'
  <2>1. queue' \in Seq(Rows)
    BY <1>14, AppendProperties DEF Recheck
  <2>2. status' \in [Rows -> Statuses] /\ durable' \in [Rows -> Statuses]
    BY <1>14, CommitType DEF Recheck, Statuses
  <2>3. faults' \in 0..MaxFaults
    BY <1>1, <1>14 DEF Recheck
  <2> QED BY <1>2, <1>14, <2>1, <2>2, <2>3 DEF Recheck
<1>15. ASSUME Stopped PROVE TypeOK'
  BY <1>15, WorkerTypes DEF Stopped, LoopStates
<1> HIDE DEF TypeOK, rowVars, pkgVars, waitVars, boundVars
<1> QED BY <1>3, <1>4, <1>5, <1>8, <1>9, <1>10, <1>11, <1>12, <1>13, <1>14, <1>15
        DEF Loop

(* The steps of the worker tasks keep the types. *)
LEMMA TypeTask == TypeOK /\ Task => TypeOK'
<1> SUFFICES ASSUME TypeOK, Task PROVE TypeOK'
  OBVIOUS
<1> USE DEF TypeOK, rowVars, pkgVars, waitVars, boundVars
<1>1. Active \subseteq Statuses /\ Rows \subseteq WorkerIds
  BY DEF Statuses, WorkerIds
<1>2. ASSUME NEW i \in Rows, NEW p \in Active, Report(i, p) PROVE TypeOK'
  <2>1. [worker[i] EXCEPT !.phase = p, !.report = p] \in Worker
    BY <1>1, WorkerFields
  <2>2. worker' \in [WorkerIds -> Worker]
    BY <1>2, <2>1 DEF Report
  <2> QED BY <1>2, <2>2 DEF Report
<1>3. ASSUME NEW i \in Rows, Track(i) PROVE TypeOK'
  <2>1. worker[i].report \in Active
    BY <1>3 DEF Track, Worker, WorkerIds
  <2>2. [worker[i] EXCEPT !.report = "none"] \in Worker
    BY <1>1, WorkerFields
  <2>3. worker' \in [WorkerIds -> Worker]
    BY <1>3, <2>2 DEF Track
  <2>4. status' \in [Rows -> Statuses]
    BY <1>1, <1>3, <2>1, PutType DEF Track
  <2> QED BY <1>3, <2>3, <2>4 DEF Track
<1>4. ASSUME NEW i \in Rows, DropSlot(i) PROVE TypeOK'
  <2>1. [worker[i] EXCEPT !.slot = FALSE] \in Worker
    BY <1>1, WorkerFields
  <2>2. worker' \in [WorkerIds -> Worker]
    BY <1>4, <2>1 DEF DropSlot
  <2>3. permit' \in BOOLEAN
    BY <1>4 DEF DropSlot, Freed
  <2> QED BY <1>4, <2>2, <2>3 DEF DropSlot
<1>5. ASSUME NEW w \in WorkerIds, NEW result \in Results \ {"none"}, Return(w, result)
      PROVE  TypeOK'
  <2>1. [worker[w] EXCEPT !.phase = "returned", !.result = result, !.slot = FALSE]
          \in Worker
    BY WorkerFields
  <2>2. worker' \in [WorkerIds -> Worker]
    BY <1>5, <2>1 DEF Return
  <2>3. permit' \in BOOLEAN
    BY <1>5 DEF Return, Freed
  <2> QED BY <1>5, <2>2, <2>3 DEF Return
<1>6. ASSUME NEW w \in WorkerIds, SendExit(w) PROVE TypeOK'
  <2>1. [worker[w] EXCEPT !.phase = "exited"] \in Worker
    BY WorkerFields
  <2>2. worker' \in [WorkerIds -> Worker]
    BY <1>6, <2>1 DEF SendExit
  <2> QED BY <1>6, <2>2 DEF SendExit
<1> HIDE DEF TypeOK, rowVars, pkgVars, waitVars, boundVars
<1> QED BY <1>2, <1>3, <1>4, <1>5, <1>6 DEF Task

(* What start-up makes of a status is a status nobody works for. *)
LEMMA RestoredStatusType ==
  ASSUME NEW s \in Statuses
  PROVE  RestoredStatus(s) \in Statuses /\ RestoredStatus(s) \notin Active
BY DEF RestoredStatus, Requeued, Statuses, Active, Terminal

LEMMA TypeRestart == TypeOK /\ Restart => TypeOK'
<1> SUFFICES ASSUME TypeOK, Restart PROVE TypeOK'
  OBVIOUS
<1> USE DEF TypeOK
<1>1. status' \in [Rows -> Statuses]
  BY RestoredStatusType DEF Restart
<1>2. durable' \in [Rows -> Statuses]
  BY PutType DEF Restart, Statuses
<1>3. queue' \in Seq(Rows) /\ created' \in Seq(Rows)
  BY RetainProperties DEF Restart
<1>4. pkg' \in PackageStates /\ durablePkg' \in PackageStates
  BY DEF Restart, SetPackage, RestoredPackage, PackageStates
<1>5. worker' \in [WorkerIds -> Worker]
  BY WorkerTypes DEF Restart
<1>6. restarts' \in 0..MaxRestarts
  BY EngineAssumption DEF Restart
<1>7. /\ loop' \in LoopStates /\ target' \in WorkerIds /\ loop' # "recheck"
      /\ stops' \in Seq(WorkerIds) /\ prior' \in Statuses
  BY EmptySeq DEF Restart, EndWait, LoopStates, Statuses, WorkerIds
<1> QED BY <1>1, <1>2, <1>3, <1>4, <1>5, <1>6, <1>7 DEF Restart

LEMMA TypeNext == TypeOK /\ [Next]_vars => TypeOK'
<1>1. TypeOK /\ UNCHANGED vars => TypeOK'
  BY DEF TypeOK, vars, rowVars, pkgVars, waitVars, boundVars
<1> QED BY <1>1, TypeCommand, TypeLoop, TypeTask, TypeRestart DEF Next

(* Every variable keeps its type, whatever the rows, sets and limits are. *)
THEOREM TypeCorrect == Spec => []TypeOK
BY TypeInit, TypeNext, PTL DEF Spec

-----------------------------------------------------------------------------
(* The worker table, the rows and their records agree. *)

(* Every entry of the worker table is whole: an empty one is NoWorker, only *)
(* rows download, and only a download has a report on its way.             *)
WorkerShape ==
  \A w \in WorkerIds :
    /\ Idle(w) => worker[w] = NoWorker
    /\ worker[w].job = "download" => w \in Rows
    /\ worker[w].report # "none" => worker[w].job = "download"

(* The workers that the waiting command must not meet any more. *)
Watched == IF target = Pkg THEN PartSet \cup {Pkg} ELSE {target}

(* They have left the table or are still to be stopped; the worker that     *)
(* extracts the set is stopped last, for a part may start it meanwhile.     *)
WaitCovers ==
  loop \in {"remove", "recheck"} =>
    /\ \A w \in Watched : Idle(w) \/ w \in Entries(stops)
    /\ target = Pkg /\ stops # <<>> => stops[Len(stops)] = Pkg
    /\ loop = "remove" => target \notin PartSet

Agreement == WorkerShape /\ WorkersMatchRows /\ CrashLosesNothing

IInv == TypeOK /\ Agreement /\ WaitCovers

-----------------------------------------------------------------------------
LEMMA PutApply ==
  ASSUME NEW f, NEW I, NEW v
  PROVE  \A x \in DOMAIN f : Put(f, I, v)[x] = IF x \in I THEN v ELSE f[x]
BY DEF Put

LEMMA Identities ==
  /\ Pkg \in WorkerIds /\ Pkg \notin Rows /\ Rows \subseteq WorkerIds
  /\ PartSet \subseteq Rows
BY EngineAssumption, PartsType DEF WorkerIds

(* A crash changes no settled status. *)
LEMMA RestoredSettled ==
  ASSUME NEW s \in Statuses, s \notin Active
  PROVE  RestoredStatus(s) = s
BY DEF RestoredStatus, Requeued, Statuses, Active, Terminal

(* Cancelling workers changes nothing else about them. *)
LEMMA CancelledProperties ==
  ASSUME TypeOK, NEW W, NEW w \in WorkerIds
  PROVE  /\ Cancelled(W)[w].job = worker[w].job
         /\ Cancelled(W)[w].report = worker[w].report
         /\ worker[w].cancelled => Cancelled(W)[w].cancelled
         /\ w \in W /\ ~Idle(w) => Cancelled(W)[w].cancelled
         /\ w \notin W \/ Idle(w) => Cancelled(W)[w] = worker[w]
BY DEF Cancelled, TypeOK, Worker, Idle

-----------------------------------------------------------------------------
(* How the kinds of steps keep Agreement.                                  *)

(* Nothing the agreement is about changes. *)
LEMMA AgreementUnchanged ==
  ASSUME TypeOK, Agreement, UNCHANGED <<status, durable, worker>>,
         loop' # "off" => loop # "off",
         pkg' = "Extracting" <=> pkg = "Extracting",
         faults > 0 => faults' > 0
  PROVE  Agreement'
BY DEF Agreement, WorkerShape, WorkersMatchRows, CrashLosesNothing, Running, Idle

(* Workers are cancelled, and rows may get a status that outlasts them. *)
LEMMA AgreementCancel ==
  ASSUME TypeOK, Agreement, Running, NEW I, NEW W, NEW s,
         s \in {"Queued", "Paused", "Cancelled", "Completed"},
         I \subseteq Rows, I \subseteq W,
         Commit(I, s), worker' = Cancelled(W), UNCHANGED <<pkg, faults>>
  PROVE  Agreement'
<1>1. s \in Statuses /\ s \notin Active /\ RestoredStatus(s) = s
  BY RestoredSettled DEF Statuses, Active, Terminal
<1>2. WorkerShape'
  BY CancelledProperties DEF Agreement, WorkerShape, Idle
<1>3. WorkersMatchRows'
  BY <1>1, CancelledProperties, PutApply, Identities
     DEF Agreement, WorkersMatchRows, Commit, Idle, TypeOK, Running, Terminal
<1>4. CrashLosesNothing'
  BY <1>1, CancelledProperties, PutApply, Identities
     DEF Agreement, CrashLosesNothing, Commit, Idle, TypeOK, Running
<1> QED BY <1>2, <1>3, <1>4 DEF Agreement

(* Workers are cancelled and rows keep their status. *)
LEMMA AgreementStop ==
  ASSUME TypeOK, Agreement, NEW W,
         worker' = Cancelled(W), UNCHANGED <<status, durable, pkg, faults>>,
         loop' # "off" => loop # "off"
  PROVE  Agreement'
<1>1. WorkerShape'
  BY CancelledProperties DEF Agreement, WorkerShape, Idle
<1>2. WorkersMatchRows'
  BY CancelledProperties, Identities DEF Agreement, WorkersMatchRows, Idle, Running
<1>3. CrashLosesNothing'
  BY CancelledProperties, Identities DEF Agreement, CrashLosesNothing, Running
<1> QED BY <1>1, <1>2, <1>3 DEF Agreement

(* Rows whose worker is gone or cancelled are queued. *)
LEMMA AgreementQueue ==
  ASSUME TypeOK, Agreement, Running, NEW I,
         I \subseteq Rows, \A i \in I : status[i] \in {"New", "Paused", "Error"},
         Commit(I, "Queued"), UNCHANGED <<worker, faults>>,
         pkg' = "Extracting" <=> pkg = "Extracting"
  PROVE  Agreement'
<1>1. RestoredStatus("Queued") = "Queued" /\ "Queued" \notin Active
  BY RestoredSettled DEF Statuses, Active, Terminal
<1>2. WorkerShape'
  BY DEF Agreement, WorkerShape, Idle
<1>3. /\ \A i \in I : status'[i] = "Queued"
      /\ \A i \in Rows \ I : status'[i] = status[i]
      /\ worker' = worker
  BY PutApply DEF Commit, TypeOK
<1>4. WorkersMatchRows'
  <2>1. pkg' = "Extracting" <=> worker'[Pkg].job # "none"
    BY <1>3 DEF Agreement, WorkersMatchRows, Idle
  <2>2. ASSUME NEW i \in I
        PROVE  worker'[i].job # "none" => worker'[i].cancelled
    BY <1>3, SMTT(30) DEF Agreement, WorkersMatchRows, Idle, Active, Terminal
  <2>3. ASSUME NEW i \in Rows \ I
        PROVE  /\ status'[i] \in Active => worker'[i].job # "none"
               /\ worker'[i].job # "none" =>
                    \/ status'[i] \in Active
                    \/ /\ worker'[i].cancelled
                       /\ status'[i] \in {"Queued", "Paused"} \cup Terminal
    BY <1>3, SMTT(30) DEF Agreement, WorkersMatchRows, Idle
  <2> QED BY <1>1, <1>3, <2>1, <2>2, <2>3, SMTT(30) DEF WorkersMatchRows, Idle
<1>5. CrashLosesNothing'
  BY <1>1, PutApply DEF Agreement, CrashLosesNothing, Commit, TypeOK
<1> QED BY <1>2, <1>4, <1>5 DEF Agreement

(* A worker leaves the table: its row gets a settled status, recorded      *)
(* unless a write failed.                                                  *)
LEMMA AgreementLeave ==
  ASSUME TypeOK, Agreement, Running, NEW i \in Rows,
         NEW s \in Statuses, s \notin Active,
         \/ Commit({i}, s) /\ UNCHANGED faults
         \/ s = "Error" /\ Fault /\ status' = Put(status, {i}, s) /\ UNCHANGED durable,
         worker' = [worker EXCEPT ![i] = NoWorker], UNCHANGED pkg
  PROVE  Agreement'
<1>1. RestoredStatus(s) = s
  BY RestoredSettled
<1>2. /\ NoWorker.job = "none" /\ NoWorker.report = "none"
      /\ worker'[i] = NoWorker
      /\ \A w \in WorkerIds \ {i} : worker'[w] = worker[w]
  BY Identities DEF NoWorker, TypeOK
<1>3. WorkerShape'
  BY <1>2 DEF Agreement, WorkerShape, Idle
<1>4. /\ status'[i] = s /\ \A j \in Rows \ {i} : status'[j] = status[j]
      /\ durable'[i] = s \/ (s = "Error" /\ faults' > 0)
      /\ \A j \in Rows \ {i} : durable'[j] = durable[j]
      /\ faults > 0 => faults' > 0
  BY PutApply DEF Commit, Fault, TypeOK
<1>5. WorkersMatchRows'
  BY <1>2, <1>4, Identities DEF Agreement, WorkersMatchRows, Idle, Running
<1>6. CrashLosesNothing'
  BY <1>1, <1>2, <1>4, Identities DEF Agreement, CrashLosesNothing, Running
<1> QED BY <1>3, <1>5, <1>6 DEF Agreement

(* A worker starts for row i, which had none. *)
LEMMA AgreementSpawn ==
  ASSUME TypeOK, Agreement, Running, NEW i \in Rows, NEW job, NEW s,
         \/ job = "download" /\ s = "Starting"
         \/ job = "extract" /\ s = "Extracting",
         Idle(i), Commit({i}, s),
         worker' = [worker EXCEPT ![i] = Spawned(job)], UNCHANGED <<pkg, faults>>
  PROVE  Agreement'
<1>1. /\ Spawned(job).job = job /\ Spawned(job).report = "none" /\ job # "none"
      /\ worker'[i] = Spawned(job)
      /\ \A w \in WorkerIds \ {i} : worker'[w] = worker[w]
  BY Identities DEF Spawned, NoWorker, TypeOK
<1>2. WorkerShape'
  BY <1>1 DEF Agreement, WorkerShape, Idle
<1>3. /\ status'[i] = s /\ durable'[i] = s
      /\ \A j \in Rows \ {i} : status'[j] = status[j] /\ durable'[j] = durable[j]
  BY PutApply DEF Commit, TypeOK
<1>4. s \in Active
      /\ RestoredStatus(s) = IF job = "extract" THEN "ExtractError" ELSE "Queued"
  BY DEF Active, RestoredStatus, Requeued
<1>5. WorkersMatchRows'
  BY <1>1, <1>3, <1>4, Identities DEF Agreement, WorkersMatchRows, Idle, Running
<1>6. CrashLosesNothing'
  BY <1>1, <1>3, <1>4, Identities DEF Agreement, CrashLosesNothing, Running
<1> QED BY <1>2, <1>5, <1>6 DEF Agreement

(* The extraction of the archive set starts. *)
LEMMA AgreementExtract ==
  ASSUME TypeOK, Agreement, Running, Idle(Pkg), pkg' = "Extracting",
         worker' = [worker EXCEPT ![Pkg] = Spawned("extract")],
         UNCHANGED <<status, durable, faults>>
  PROVE  Agreement'
<1>1. /\ Spawned("extract").job = "extract" /\ Spawned("extract").report = "none"
      /\ worker'[Pkg] = Spawned("extract")
      /\ \A w \in WorkerIds \ {Pkg} : worker'[w] = worker[w]
  BY Identities DEF Spawned, NoWorker, TypeOK
<1>2. WorkerShape'
  BY <1>1 DEF Agreement, WorkerShape, Idle
<1>3. WorkersMatchRows'
  BY <1>1, Identities DEF Agreement, WorkersMatchRows, Idle, Running
<1>4. CrashLosesNothing'
  BY <1>1, Identities DEF Agreement, CrashLosesNothing, Running
<1> QED BY <1>2, <1>3, <1>4 DEF Agreement

(* A worker's task changes its own entry, keeping job and cancellation, and *)
(* moves the row of a download between active statuses at most.            *)
LEMMA AgreementTask ==
  ASSUME TypeOK, Agreement, NEW w \in WorkerIds, NEW r \in Worker,
         ~Idle(w), r.job = worker[w].job, r.cancelled = worker[w].cancelled,
         r.report # "none" => r.job = "download",
         worker' = [worker EXCEPT ![w] = r],
         UNCHANGED <<durable, pkg, loop, faults>>,
         \/ UNCHANGED status
         \/ /\ w \in Rows /\ worker[w].job = "download"
            /\ \E p \in Active :
                 status' = IF status[w] \in Active THEN Put(status, {w}, p) ELSE status
  PROVE  Agreement'
<1>1. worker'[w] = r /\ \A v \in WorkerIds \ {w} : worker'[v] = worker[v]
  BY DEF TypeOK
<1>2. WorkerShape'
  BY <1>1 DEF Agreement, WorkerShape, Idle
<1>3. \A i \in Rows :
        \/ status'[i] = status[i]
        \/ /\ i = w /\ worker[w].job = "download"
           /\ status[i] \in Active /\ status'[i] \in Active
  BY PutApply DEF TypeOK
<1>4. WorkersMatchRows'
  BY <1>1, <1>3, Identities DEF Agreement, WorkersMatchRows, Idle, Running
<1>5. \A i \in Rows : worker'[i].job = worker[i].job
  BY <1>1, Identities
<1>6. \A i \in Rows :
        \/ status'[i] = status[i]
        \/ /\ status[i] \in Active /\ status'[i] \in Active
           /\ worker[i].job # "extract"
  BY <1>3
<1>7. CrashLosesNothing'
  <2> SUFFICES ASSUME Running, NEW i \in Rows
               PROVE  \/ faults > 0 /\ status'[i] = "Error"
                      \/ RestoredStatus(durable[i]) =
                           IF status'[i] \notin Active THEN status'[i]
                           ELSE IF worker'[i].job = "extract" THEN "ExtractError" ELSE "Queued"
    BY DEF CrashLosesNothing, Running
  <2>1. CASE status'[i] = status[i]
    BY <1>5, <2>1 DEF Agreement, CrashLosesNothing
  <2>2. CASE /\ status[i] \in Active /\ status'[i] \in Active
             /\ worker[i].job # "extract"
    <3>1. status[i] # "Error"
      BY <2>2 DEF Active
    <3> QED BY <1>5, <2>2, <3>1 DEF Agreement, CrashLosesNothing
  <2> QED BY <1>6, <2>1, <2>2
<1> QED BY <1>2, <1>4, <1>7 DEF Agreement

-----------------------------------------------------------------------------
(* Agreement, action by action.                                            *)

LEMMA AgreementInit == Init => Agreement
<1> SUFFICES ASSUME Init PROVE Agreement
  OBVIOUS
<1>1. \A w \in WorkerIds : worker[w] = NoWorker
  BY DEF Init
<1>2. NoWorker.job = "none" /\ NoWorker.report = "none" /\ Pkg \in WorkerIds
  BY Identities DEF NoWorker
<1>3. \A i \in Rows : status[i] = "New" /\ durable[i] = "New" /\ i \in WorkerIds
  BY Identities DEF Init
<1>4. RestoredStatus("New") = "New" /\ "New" \notin Active
  BY RestoredSettled DEF Statuses, Active, Terminal
<1> QED BY <1>1, <1>2, <1>3, <1>4
        DEF Agreement, WorkerShape, WorkersMatchRows, CrashLosesNothing, Idle, Init

LEMMA AgreementCommand == IInv /\ Command => Agreement'
<1> SUFFICES ASSUME IInv, Command PROVE Agreement'
  OBVIOUS
<1>1. TypeOK /\ Agreement
  BY DEF IInv
<1>2. \A command : Receive(command) =>
        Running /\ UNCHANGED faults
  BY DEF Receive, Running, boundVars
<1>3. \A id \in WorkerIds : \A from : Targets(id, from) \subseteq Rows
  BY InOrderProperties
<1>4. ASSUME NEW i \in Rows, Add(i) PROVE Agreement'
  <2>1. Entries(<<i>>) = {i}
    BY DEF Entries
  <2> QED BY <1>1, <1>2, <1>4, <2>1, AgreementQueue DEF Add, Insert, pkgVars
<1>5. ASSUME AddArchiveSet PROVE Agreement'
  BY <1>1, <1>2, <1>5, AgreementQueue, Identities
     DEF AddArchiveSet, Insert, PartSet
<1>6. ASSUME NEW id \in WorkerIds, Pause(id) PROVE Agreement'
  BY <1>1, <1>2, <1>3, <1>6, AgreementCancel DEF Pause, RowCommand, Interrupt, pkgVars
<1>7. ASSUME NEW id \in WorkerIds, Resume(id) PROVE Agreement'
  <2>1. \A i \in Targets(id, {"Paused", "Error"}) : status[i] \in {"Paused", "Error"}
    BY DEF Targets
  <2> QED BY <1>1, <1>2, <1>3, <1>7, <2>1, AgreementQueue
          DEF Resume, Requeue, RowCommand, pkgVars
<1>8. ASSUME NEW id \in WorkerIds, Retry(id) PROVE Agreement'
  <2>1. \A i \in Targets(id, {"Error"}) : status[i] = "Error"
    BY DEF Targets
  <2> QED BY <1>1, <1>2, <1>3, <1>8, <2>1, AgreementQueue
          DEF Retry, Requeue, RowCommand, pkgVars
<1>9. ASSUME NEW id \in WorkerIds, Cancel(id) PROVE Agreement'
  BY <1>1, <1>2, <1>3, <1>9, AgreementCancel DEF Cancel, RowCommand, Interrupt, pkgVars
<1>10. ASSUME NEW id \in WorkerIds, CancelExtraction(id) PROVE Agreement'
  BY <1>1, <1>2, <1>10, AgreementStop DEF CancelExtraction, RowCommand, Running, pkgVars
<1>11. ASSUME NEW id \in WorkerIds, Remove(id) PROVE Agreement'
  BY <1>1, <1>2, <1>11, AgreementUnchanged DEF Remove, rowVars, pkgVars, Running
<1>12. ASSUME NEW i \in Rows, StopSeeding(i) PROVE Agreement'
  BY <1>1, <1>2, <1>12, AgreementCancel DEF StopSeeding, RowCommand, Interrupt, pkgVars
<1>13. ASSUME NEW i \in Rows, RetryExtract(i) PROVE Agreement'
  <2>1. Idle(i)
    BY <1>1, <1>2, <1>13
       DEF RetryExtract, RowCommand, Agreement, WorkersMatchRows, Active, Terminal
  <2> QED BY <1>1, <1>2, <1>13, <2>1, AgreementSpawn DEF RetryExtract, RowCommand, pkgVars
<1>14. ASSUME NEW i \in Torrent, ForceRecheck(i) PROVE Agreement'
  <2>1. {i} \subseteq Rows
    BY DEF Rows
  <2> QED BY <1>1, <1>2, <1>14, <2>1, AgreementCancel DEF ForceRecheck, pkgVars
<1>15. ASSUME PauseAll PROVE Agreement'
  BY <1>1, <1>2, <1>15, AgreementCancel DEF PauseAll, RowCommand, Interrupt, pkgVars
<1>16. ASSUME ResumeAll PROVE Agreement'
  BY <1>1, <1>2, <1>16, AgreementQueue DEF ResumeAll, RowCommand, pkgVars
<1>17. ASSUME NEW n \in 1..MaxConcurrent, SetConfig(n) PROVE Agreement'
  BY <1>1, <1>2, <1>17, AgreementUnchanged DEF SetConfig, rowVars, pkgVars, Running
<1>18. ASSUME RetryPackageExtract PROVE Agreement'
  BY <1>1, <1>2, <1>18, AgreementExtract
     DEF RetryPackageExtract, PackageReady, SetPackage, rowVars
<1>19. ASSUME Shutdown PROVE Agreement'
  BY <1>1, <1>2, <1>19, AgreementStop DEF Shutdown, rowVars, pkgVars, Running
<1> QED BY <1>4, <1>5, <1>6, <1>7, <1>8, <1>9, <1>10, <1>11, <1>12, <1>13,
           <1>14, <1>15, <1>16, <1>17, <1>18, <1>19, Command DEF Command

(* What the tasks change of a worker leaves its job and cancellation alone. *)
LEMMA TaskFields ==
  ASSUME NEW r \in Worker
  PROVE  /\ \A p \in Active :
              LET new == [r EXCEPT !.phase = p, !.report = p]
              IN  new.job = r.job /\ new.cancelled = r.cancelled /\ new.slot = r.slot
         /\ LET new == [r EXCEPT !.report = "none"]
            IN  new.job = r.job /\ new.cancelled = r.cancelled /\ new.slot = r.slot
                                  /\ new.report = "none"
         /\ LET new == [r EXCEPT !.slot = FALSE]
            IN  /\ new.job = r.job /\ new.cancelled = r.cancelled
                /\ new.report = r.report /\ ~new.slot
         /\ \A x \in Results :
              LET new == [r EXCEPT !.phase = "returned", !.result = x, !.slot = FALSE]
              IN  /\ new.job = r.job /\ new.cancelled = r.cancelled
                  /\ new.report = r.report /\ ~new.slot
         /\ LET new == [r EXCEPT !.phase = "exited"]
            IN  /\ new.job = r.job /\ new.cancelled = r.cancelled
                /\ new.report = r.report /\ new.slot = r.slot
BY DEF Worker

LEMMA AgreementTasks == IInv /\ Task => Agreement'
<1> SUFFICES ASSUME IInv, Task PROVE Agreement'
  OBVIOUS
<1>1. TypeOK /\ Agreement /\ WorkerShape /\ worker \in [WorkerIds -> Worker]
  BY DEF IInv, Agreement, TypeOK
<1>2. /\ NoWorker.phase = "none" /\ NoWorker.report = "none" /\ NoWorker.slot = FALSE
      /\ \A w \in WorkerIds : worker[w].phase # "none" => ~Idle(w)
  BY <1>1 DEF NoWorker, WorkerShape
<1>3. ASSUME NEW i \in Rows, NEW p \in Active, Report(i, p) PROVE Agreement'
  <2> DEFINE r == [worker[i] EXCEPT !.phase = p, !.report = p]
  <2>1. /\ r \in Worker /\ r.job = worker[i].job /\ r.cancelled = worker[i].cancelled
        /\ worker[i].job = "download" /\ i \in WorkerIds /\ ~Idle(i)
    <3>1. worker[i] \in Worker /\ i \in WorkerIds
      BY <1>1, Identities
    <3> QED BY <1>3, <3>1, WorkerFields, TaskFields DEF Report, Idle
  <2> HIDE DEF r
  <2> QED BY <1>1, <1>3, <2>1, AgreementTask
          DEF Report, rowVars, pkgVars, boundVars, r
<1>4. ASSUME NEW i \in Rows, Track(i) PROVE Agreement'
  <2> DEFINE r == [worker[i] EXCEPT !.report = "none"]
  <2>1. /\ r \in Worker /\ r.job = worker[i].job /\ r.cancelled = worker[i].cancelled
        /\ r.report = "none" /\ i \in WorkerIds
    <3>1. worker[i] \in Worker /\ i \in WorkerIds
      BY <1>1, Identities
    <3> QED BY <3>1, WorkerFields, TaskFields
  <2>2. worker[i].report \in Active /\ worker[i].job = "download" /\ ~Idle(i)
    BY <1>1, <1>4, <2>1 DEF Track, WorkerShape, Worker, Idle
  <2> HIDE DEF r
  <2> QED BY <1>1, <1>4, <2>1, <2>2, AgreementTask DEF Track, pkgVars, boundVars, r
<1>5. ASSUME NEW i \in Rows, DropSlot(i) PROVE Agreement'
  <2> DEFINE r == [worker[i] EXCEPT !.slot = FALSE]
  <2>1. /\ r \in Worker /\ r.job = worker[i].job /\ r.cancelled = worker[i].cancelled
        /\ r.report = worker[i].report /\ i \in WorkerIds /\ ~Idle(i)
    <3>1. worker[i] \in Worker /\ i \in WorkerIds
      BY <1>1, Identities
    <3> QED BY <1>2, <1>5, <3>1, WorkerFields, TaskFields DEF DropSlot
  <2> HIDE DEF r
  <2> QED BY <1>1, <1>5, <2>1, AgreementTask
          DEF DropSlot, WorkerShape, rowVars, pkgVars, boundVars, r
<1>6. ASSUME NEW w \in WorkerIds, NEW result \in Results \ {"none"}, Return(w, result)
      PROVE  Agreement'
  <2> DEFINE r == [worker[w] EXCEPT !.phase = "returned", !.result = result, !.slot = FALSE]
  <2>1. /\ r \in Worker /\ r.job = worker[w].job /\ r.cancelled = worker[w].cancelled
        /\ r.report = worker[w].report /\ ~Idle(w)
    <3>1. worker[w] \in Worker
      BY <1>1
    <3>2. result \in Results /\ worker[w].phase # "none"
      BY <1>6 DEF Return, Working, Active
    <3> QED BY <1>2, <3>1, <3>2, WorkerFields, TaskFields
  <2> HIDE DEF r
  <2> QED BY <1>1, <1>6, <2>1, AgreementTask
          DEF Return, WorkerShape, rowVars, pkgVars, boundVars, r
<1>7. ASSUME NEW w \in WorkerIds, SendExit(w) PROVE Agreement'
  <2> DEFINE r == [worker[w] EXCEPT !.phase = "exited"]
  <2>1. /\ r \in Worker /\ r.job = worker[w].job /\ r.cancelled = worker[w].cancelled
        /\ r.report = worker[w].report /\ ~Idle(w)
    <3>1. worker[w] \in Worker
      BY <1>1
    <3> QED BY <1>2, <1>7, <3>1, WorkerFields, TaskFields DEF SendExit
  <2> HIDE DEF r
  <2> QED BY <1>1, <1>7, <2>1, AgreementTask
          DEF SendExit, WorkerShape, rowVars, pkgVars, boundVars, r
<1> QED BY <1>3, <1>4, <1>5, <1>6, <1>7, Task DEF Task

LEMMA ExitStatusSettled ==
  ASSUME TypeOK, NEW i \in Rows
  PROVE  LET exit == ExitStatus(worker[i].job, status[i], worker[i].result,
                                worker[i].cancelled, loop = "stop")
         IN  exit \in Statuses /\ exit \notin Active
<1>1. status[i] \in Statuses /\ worker[i].cancelled \in BOOLEAN
  BY Identities DEF TypeOK, Worker
<1>2. (loop = "stop") \in BOOLEAN
  OBVIOUS
<1> QED BY <1>1, <1>2, ExitStatusType

LEMMA AgreementLoop == IInv /\ Loop => Agreement'
<1> SUFFICES ASSUME IInv, Loop PROVE Agreement'
  OBVIOUS
<1>1. TypeOK /\ Agreement /\ WaitCovers
  BY DEF IInv
<1>2. \A w : Leaves(w) => Running
  BY DEF Leaves, Receiving, AwaitsExit, Stopping, Running
<1>3. ASSUME Start PROVE Agreement'
  <2>1. PICK n \in DOMAIN Pruned :
          /\ Idle(Pruned[n])
          /\ \/ /\ Commit({Pruned[n]}, "Starting")
                /\ worker' = [worker EXCEPT ![Pruned[n]] = Spawned("download")]
                /\ UNCHANGED faults
             \/ /\ Fault
                /\ status' = Put(status, {Pruned[n]}, "Error")
                /\ durable' \in {durable, Put(durable, {Pruned[n]}, "Error")}
                /\ UNCHANGED worker
    BY <1>3 DEF Start, First
  <2>2. Pruned[n] \in Rows
    <3>1. Pruned \in Seq(Rows)
      BY <1>1, RetainProperties DEF Pruned, TypeOK
    <3> QED BY <3>1, ElementOfSeq, LenProperties
  <2>3. Running /\ UNCHANGED pkg
    BY <1>3 DEF Start, Scanning, Running, pkgVars
  <2> DEFINE i == Pruned[n]
  <2> HIDE DEF i
  <2>4. CASE /\ Commit({i}, "Starting")
             /\ worker' = [worker EXCEPT ![i] = Spawned("download")]
             /\ UNCHANGED faults
    BY <1>1, <2>1, <2>2, <2>3, <2>4, AgreementSpawn DEF i
  <2>5. CASE /\ Fault
             /\ status' = Put(status, {i}, "Error")
             /\ durable' \in {durable, Put(durable, {i}, "Error")}
             /\ UNCHANGED worker
    <3>1. /\ status'[i] = "Error" /\ \A j \in Rows \ {i} : status'[j] = status[j]
          /\ \A j \in Rows \ {i} : durable'[j] = durable[j]
          /\ faults' > 0 /\ "Error" \notin Active
      BY <1>1, <2>2, <2>5, PutApply, EngineAssumption DEF Fault, TypeOK, Active, i
    <3>2. Idle(i)
      BY <2>1 DEF i
    <3>3. WorkerShape'
      BY <1>1, <2>5 DEF Agreement, WorkerShape, Idle
    <3>4. WorkersMatchRows'
      BY <1>1, <2>3, <2>5, <3>1, <3>2 DEF Agreement, WorkersMatchRows, Idle
    <3>5. CrashLosesNothing'
      BY <1>1, <2>3, <2>5, <3>1 DEF Agreement, CrashLosesNothing
    <3> QED BY <3>3, <3>4, <3>5 DEF Agreement
  <2> QED BY <2>1, <2>4, <2>5 DEF i
<1>4. ASSUME ScanDone PROVE Agreement'
  BY <1>1, <1>4, AgreementUnchanged
     DEF ScanDone, Scanning, rowVars, pkgVars, boundVars
<1>5. ASSUME Wake PROVE Agreement'
  BY <1>1, <1>5, AgreementUnchanged DEF Wake, rowVars, pkgVars, boundVars
<1>6. ASSUME NEW i \in Rows, Finish(i) PROVE Agreement'
  <2> DEFINE exit == ExitStatus(worker[i].job, status[i], worker[i].result,
                                worker[i].cancelled, loop = "stop")
  <2>1. exit \in Statuses /\ exit \notin Active
    BY <1>1, ExitStatusSettled
  <2>2. "Error" \in Statuses /\ "Error" \notin Active
    BY DEF Statuses, Active
  <2> HIDE DEF exit
  <2>3. /\ Running /\ UNCHANGED pkg /\ worker' = [worker EXCEPT ![i] = NoWorker]
        /\ \/ Commit({i}, exit) /\ UNCHANGED faults
           \/ Fault /\ status' = Put(status, {i}, "Error") /\ UNCHANGED durable
    BY <1>2, <1>6 DEF Finish, WriteFails, pkgVars, exit
  <2>4. CASE Commit({i}, exit) /\ UNCHANGED faults
    BY <1>1, <2>1, <2>3, <2>4, AgreementLeave
  <2>5. CASE Fault /\ status' = Put(status, {i}, "Error") /\ UNCHANGED durable
    BY <1>1, <2>2, <2>3, <2>5, AgreementLeave
  <2> QED BY <2>3, <2>4, <2>5
<1>7. ASSUME NEW i \in Rows, FinishParts(i) PROVE Agreement'
  <2> DEFINE left == [worker EXCEPT ![i] = NoWorker]
  <2>1. /\ RestoredStatus("Completed") = "Completed" /\ "Completed" \notin Active
        /\ NoWorker.job = "none" /\ NoWorker.report = "none"
    BY RestoredSettled DEF Statuses, Active, Terminal, NoWorker
  <2>2. /\ left[i] = NoWorker /\ \A w \in WorkerIds \ {i} : left[w] = worker[w]
        /\ left \in [WorkerIds -> Worker] /\ i # Pkg
    BY <1>1, Identities, WorkerTypes DEF TypeOK
  <2>3. Running /\ Idle(Pkg) /\ pkg # "Extracting"
    BY <1>2, <1>7 DEF FinishParts, PartsDone, PackageReady
  <2>4. /\ status'[i] = "Completed" /\ durable'[i] = "Completed"
        /\ \A j \in Rows \ {i} : status'[j] = status[j] /\ durable'[j] = durable[j]
    BY <1>1, <1>7, PutApply DEF FinishParts, Commit, TypeOK
  <2>5. CASE pkg' = "Extracting" /\ UNCHANGED faults
             /\ worker' = [left EXCEPT ![Pkg] = Spawned("extract")]
    <3>1. /\ Spawned("extract").job = "extract" /\ Spawned("extract").report = "none"
          /\ worker'[Pkg] = Spawned("extract") /\ worker'[i] = NoWorker
          /\ \A w \in WorkerIds \ {i, Pkg} : worker'[w] = worker[w]
      BY <2>2, <2>5, Identities DEF Spawned, NoWorker
    <3>2. WorkerShape'
      BY <1>1, <2>1, <3>1 DEF Agreement, WorkerShape, Idle
    <3>3. WorkersMatchRows'
      BY <1>1, <2>1, <2>3, <2>4, <2>5, <3>1, Identities DEF Agreement, WorkersMatchRows, Idle
    <3>4. CrashLosesNothing'
      BY <1>1, <2>1, <2>3, <2>4, <2>5, <3>1, Identities DEF Agreement, CrashLosesNothing
    <3> QED BY <3>2, <3>3, <3>4 DEF Agreement
  <2>6. CASE Fault /\ worker' = left /\ UNCHANGED pkg
    <3>1. faults > 0 => faults' > 0
      BY <1>1, <2>6 DEF Fault, TypeOK
    <3>2. WorkerShape'
      BY <1>1, <2>1, <2>2, <2>6 DEF Agreement, WorkerShape, Idle
    <3>3. WorkersMatchRows'
      BY <1>1, <2>1, <2>2, <2>3, <2>4, <2>6, Identities DEF Agreement, WorkersMatchRows, Idle
    <3>4. CrashLosesNothing'
      BY <1>1, <2>1, <2>2, <2>3, <2>4, <2>6, <3>1, Identities
         DEF Agreement, CrashLosesNothing
    <3> QED BY <3>2, <3>3, <3>4 DEF Agreement
  <2>7. worker' = [worker EXCEPT ![i] = NoWorker, ![Pkg] = Spawned("extract")]
          => worker' = [left EXCEPT ![Pkg] = Spawned("extract")]
    OBVIOUS
  <2> QED BY <1>7, <2>5, <2>6, <2>7 DEF FinishParts, SetPackage, pkgVars
<1>8. ASSUME FinishPackage PROVE Agreement'
  <2>1. /\ NoWorker.job = "none" /\ NoWorker.report = "none" /\ worker'[Pkg] = NoWorker
        /\ \A w \in WorkerIds \ {Pkg} : worker'[w] = worker[w]
    BY <1>1, <1>8, Identities DEF FinishPackage, TypeOK, NoWorker
  <2>2. Running /\ pkg' # "Extracting" /\ UNCHANGED <<status, durable>>
    BY <1>2, <1>8 DEF FinishPackage, SetPackage
  <2>3. faults > 0 => faults' > 0
    BY <1>1, <1>8 DEF FinishPackage, Fault, TypeOK
  <2>4. WorkerShape'
    BY <1>1, <2>1 DEF Agreement, WorkerShape, Idle
  <2>5. WorkersMatchRows'
    BY <1>1, <2>1, <2>2, Identities DEF Agreement, WorkersMatchRows, Idle
  <2>6. CrashLosesNothing'
    BY <1>1, <2>1, <2>2, <2>3, Identities DEF Agreement, CrashLosesNothing
  <2> QED BY <2>4, <2>5, <2>6 DEF Agreement
<1>9. ASSUME StopWorker PROVE Agreement'
  <2>1. CASE UNCHANGED worker
    BY <1>1, <1>9, <2>1, AgreementUnchanged DEF StopWorker, rowVars, pkgVars, boundVars
  <2>2. CASE worker' = Cancelled({Head(stops)})
    BY <1>1, <1>9, <2>2, AgreementStop DEF StopWorker, rowVars, pkgVars, boundVars
  <2> QED BY <1>9, <2>1, <2>2 DEF StopWorker
<1>10. ASSUME StopTimeout PROVE Agreement'
  BY <1>1, <1>10, AgreementUnchanged
     DEF StopTimeout, AwaitsExit, Stopping, EndWait, rowVars, pkgVars, boundVars
<1>11. ASSUME RemoveRows PROVE Agreement'
  <2> DEFINE I == IF target = Pkg THEN PartSet ELSE {target}
  <2>1. Running /\ UNCHANGED <<worker, faults>> /\ loop' # "off"
    BY <1>11 DEF RemoveRows, Stopping, Running, EndWait, boundVars
  <2>2. CASE UNCHANGED <<rowVars, pkgVars, queue>>
    BY <1>1, <2>1, <2>2, AgreementUnchanged DEF rowVars, pkgVars, Running
  <2>3. CASE /\ Commit(I, "Gone")
             /\ IF target = Pkg THEN SetPackage("Gone") ELSE UNCHANGED pkgVars
    <3>1. \A w \in Watched : Idle(w)
      <4>1. loop = "remove" /\ stops = <<>>
        BY <1>11 DEF RemoveRows
      <4>2. Entries(<<>>) = {}
        BY DEF Entries
      <4> QED BY <1>1, <4>1, <4>2 DEF WaitCovers
    <3>2. RestoredStatus("Gone") = "Gone" /\ "Gone" \notin Active
      BY RestoredSettled DEF Statuses, Active, Terminal
    <3>3. \A i \in Rows : /\ status'[i] = IF i \in I THEN "Gone" ELSE status[i]
                          /\ durable'[i] = IF i \in I THEN "Gone" ELSE durable[i]
      BY <1>1, <2>3, PutApply DEF Commit, TypeOK
    <3>4. \A i \in I : Idle(i)
      BY <3>1 DEF Watched
    <3>5. pkg' = "Extracting" <=> pkg = "Extracting"
      BY <1>1, <2>1, <2>3, <3>1
         DEF Watched, SetPackage, pkgVars, Agreement, WorkersMatchRows
    <3>6. WorkerShape'
      BY <1>1, <2>1 DEF Agreement, WorkerShape, Idle
    <3> HIDE DEF I
    <3>7. WorkersMatchRows'
      BY <1>1, <2>1, <3>2, <3>3, <3>4, <3>5 DEF Agreement, WorkersMatchRows, Idle
    <3>8. CrashLosesNothing'
      BY <1>1, <2>1, <3>2, <3>3 DEF Agreement, CrashLosesNothing
    <3> QED BY <3>6, <3>7, <3>8 DEF Agreement
  <2> QED BY <1>11, <2>2, <2>3 DEF RemoveRows
<1>12. ASSUME Recheck PROVE Agreement'
  <2>1. Running /\ UNCHANGED <<worker, pkg>> /\ target \in Rows
    BY <1>1, <1>12 DEF Recheck, Stopping, Running, pkgVars, TypeOK
  <2>2. CASE UNCHANGED <<status, durable>>
    <3>1. faults > 0 => faults' > 0
      BY <1>1, <1>12 DEF Recheck, Fault, TypeOK
    <3> QED BY <1>1, <2>1, <2>2, <3>1, AgreementUnchanged DEF Running
  <2>3. CASE Commit({target}, "Error") /\ UNCHANGED faults
    <3>1. Idle(target)
      <4>1. loop = "recheck" /\ stops = <<>>
        BY <1>12 DEF Recheck
      <4>2. Entries(<<>>) = {} /\ target \in Watched
        BY <2>1, Identities DEF Entries, Watched
      <4> QED BY <1>1, <4>1, <4>2 DEF WaitCovers
    <3>2. RestoredStatus("Error") = "Error" /\ "Error" \notin Active
      BY RestoredSettled DEF Statuses, Active, Terminal
    <3>3. /\ status'[target] = "Error" /\ durable'[target] = "Error"
          /\ \A i \in Rows \ {target} : status'[i] = status[i] /\ durable'[i] = durable[i]
      BY <1>1, <2>1, <2>3, PutApply DEF Commit, TypeOK
    <3>4. WorkerShape'
      BY <1>1, <2>1 DEF Agreement, WorkerShape, Idle
    <3>5. WorkersMatchRows'
      BY <1>1, <2>1, <3>1, <3>2, <3>3 DEF Agreement, WorkersMatchRows, Idle
    <3>6. CrashLosesNothing'
      BY <1>1, <2>1, <2>3, <3>2, <3>3 DEF Agreement, CrashLosesNothing
    <3> QED BY <3>4, <3>5, <3>6 DEF Agreement
  <2> QED BY <1>12, <2>2, <2>3 DEF Recheck
<1>13. ASSUME Stopped PROVE Agreement'
  <2>1. NoWorker.job = "none" /\ NoWorker.report = "none"
    BY DEF NoWorker
  <2>2. \A w \in WorkerIds : worker'[w] = NoWorker
    BY <1>13 DEF Stopped
  <2>3. ~Running'
    BY <1>13 DEF Stopped, Running
  <2> QED BY <2>1, <2>2, <2>3
          DEF Agreement, WorkerShape, WorkersMatchRows, CrashLosesNothing, Idle
<1> QED BY <1>3, <1>4, <1>5, <1>6, <1>7, <1>8, <1>9, <1>10, <1>11, <1>12, <1>13, Loop
        DEF Loop

LEMMA AgreementRestart == IInv /\ Restart => Agreement'
<1> SUFFICES ASSUME IInv, Restart PROVE Agreement'
  OBVIOUS
<1>1. durable \in [Rows -> Statuses]
  BY DEF IInv, TypeOK
<1>2. NoWorker.job = "none" /\ NoWorker.report = "none"
  BY DEF NoWorker
<1>3. \A w \in WorkerIds : worker'[w] = NoWorker
  BY DEF Restart
<1>4. \A i \in Rows : /\ status'[i] = RestoredStatus(durable[i])
                      /\ status'[i] \notin Active
  BY <1>1, RestoredStatusType DEF Restart
<1>5. \A i \in Rows : RestoredStatus(durable'[i]) = RestoredStatus(durable[i])
  <2> SUFFICES ASSUME NEW i \in Rows
               PROVE  RestoredStatus(durable'[i]) = RestoredStatus(durable[i])
    OBVIOUS
  <2>1. durable'[i] = IF durable[i] = "Extracting" THEN "ExtractError" ELSE durable[i]
    BY <1>1 DEF Restart, Put
  <2> QED BY <1>1, <2>1 DEF RestoredStatus, Requeued
<1>6. pkg' # "Extracting"
  BY DEF Restart, SetPackage, RestoredPackage
<1> QED BY <1>2, <1>3, <1>4, <1>5, <1>6, Identities
        DEF Agreement, WorkerShape, WorkersMatchRows, CrashLosesNothing, Idle

-----------------------------------------------------------------------------
(* The wait of a remove or a recheck.                                      *)

(* Tasks come and go without touching the table itself or the wait. *)
Kept(w) ==
  /\ worker'[w].job = worker[w].job
  /\ worker'[w].cancelled = worker[w].cancelled
  /\ worker'[w].slot => worker[w].slot

LEMMA TaskKeeps ==
  ASSUME TypeOK, Task
  PROVE  /\ \A w \in WorkerIds : Kept(w)
         /\ UNCHANGED <<durable, queue, loop, target, stops, faults, restarts>>
<1>1. worker \in [WorkerIds -> Worker] /\ Rows \subseteq WorkerIds
  BY Identities DEF TypeOK
<1>2. ASSUME NEW v \in WorkerIds, NEW r,
             r.job = worker[v].job, r.cancelled = worker[v].cancelled,
             r.slot => worker[v].slot, worker' = [worker EXCEPT ![v] = r]
      PROVE  \A w \in WorkerIds : Kept(w)
  BY <1>1, <1>2 DEF Kept
<1>3. \A w \in WorkerIds : worker[w] \in Worker
  BY <1>1
<1>4. ASSUME NEW i \in Rows, NEW p \in Active, Report(i, p)
      PROVE  \A w \in WorkerIds : Kept(w)
  <2> DEFINE r == [worker[i] EXCEPT !.phase = p, !.report = p]
  <2>1. /\ r.job = worker[i].job /\ r.cancelled = worker[i].cancelled
        /\ r.slot => worker[i].slot
        /\ i \in WorkerIds
    BY <1>1, <1>3, TaskFields
  <2>2. worker' = [worker EXCEPT ![i] = r]
    BY <1>4 DEF Report
  <2> HIDE DEF r
  <2> QED BY <1>2, <2>1, <2>2
<1>5. ASSUME NEW i \in Rows, Track(i)
      PROVE  \A w \in WorkerIds : Kept(w)
  <2> DEFINE r == [worker[i] EXCEPT !.report = "none"]
  <2>1. /\ r.job = worker[i].job /\ r.cancelled = worker[i].cancelled
        /\ r.slot => worker[i].slot
        /\ i \in WorkerIds
    BY <1>1, <1>3, TaskFields
  <2>2. worker' = [worker EXCEPT ![i] = r]
    BY <1>5 DEF Track
  <2> HIDE DEF r
  <2> QED BY <1>2, <2>1, <2>2
<1>6. ASSUME NEW i \in Rows, DropSlot(i)
      PROVE  \A w \in WorkerIds : Kept(w)
  <2> DEFINE r == [worker[i] EXCEPT !.slot = FALSE]
  <2>1. /\ r.job = worker[i].job /\ r.cancelled = worker[i].cancelled
        /\ r.slot => worker[i].slot
        /\ i \in WorkerIds
    BY <1>1, <1>3, TaskFields
  <2>2. worker' = [worker EXCEPT ![i] = r]
    BY <1>6 DEF DropSlot
  <2> HIDE DEF r
  <2> QED BY <1>2, <2>1, <2>2
<1>7. ASSUME NEW v \in WorkerIds, NEW x \in Results \ {"none"}, Return(v, x)
      PROVE  \A w \in WorkerIds : Kept(w)
  <2> DEFINE r == [worker[v] EXCEPT !.phase = "returned", !.result = x, !.slot = FALSE]
  <2>1. /\ r.job = worker[v].job /\ r.cancelled = worker[v].cancelled
        /\ r.slot => worker[v].slot
    BY <1>1, <1>3, TaskFields
  <2>2. worker' = [worker EXCEPT ![v] = r]
    BY <1>7 DEF Return
  <2> HIDE DEF r
  <2> QED BY <1>2, <2>1, <2>2
<1>8. ASSUME NEW v \in WorkerIds, SendExit(v)
      PROVE  \A w \in WorkerIds : Kept(w)
  <2> DEFINE r == [worker[v] EXCEPT !.phase = "exited"]
  <2>1. /\ r.job = worker[v].job /\ r.cancelled = worker[v].cancelled
        /\ r.slot => worker[v].slot
    BY <1>1, <1>3, TaskFields
  <2>2. worker' = [worker EXCEPT ![v] = r]
    BY <1>8 DEF SendExit
  <2> HIDE DEF r
  <2> QED BY <1>2, <2>1, <2>2
<1>9. UNCHANGED <<durable, queue, loop, target, stops, faults, restarts>>
  BY Task DEF Task, Report, Track, DropSlot, Return, SendExit, rowVars, waitVars, boundVars
<1> QED BY <1>4, <1>5, <1>6, <1>7, <1>8, <1>9, Task DEF Task

LEMMA WaitCommand == IInv /\ Command => WaitCovers'
<1> SUFFICES ASSUME IInv, Command, loop' \in {"remove", "recheck"} PROVE WaitCovers'
  BY DEF WaitCovers
<1>1. ASSUME NEW id \in WorkerIds, Remove(id) PROVE WaitCovers'
  <2>1. CASE id = Pkg
    <3>1. /\ Entries(Append(Parts, Pkg)) = PartSet \cup {Pkg}
          /\ Append(Parts, Pkg)[Len(Append(Parts, Pkg))] = Pkg
      <4>1. Parts \in Seq(WorkerIds) /\ Pkg \in WorkerIds
        BY PartsType, Identities, SeqMonotonic
      <4> QED BY <4>1, AppendEntries, AppendProperties DEF PartSet
    <3> QED BY <1>1, <2>1, <3>1, Identities DEF Remove, WaitCovers, Watched
  <2>2. CASE id # Pkg
    <3>1. Entries(<<id>>) = {id}
      BY DEF Entries
    <3> QED BY <1>1, <2>2, <3>1 DEF Remove, WaitCovers, Watched
  <2> QED BY <2>1, <2>2
<1>2. ASSUME NEW i \in Torrent, ForceRecheck(i) PROVE WaitCovers'
  <2>1. Entries(<<i>>) = {i} /\ i # Pkg
    BY Identities DEF Entries, Rows
  <2> QED BY <1>2, <2>1 DEF ForceRecheck, WaitCovers, Watched
<1> QED BY <1>1, <1>2, Command
        DEF Command, Add, AddArchiveSet, Insert, Pause, Resume, Retry, Cancel,
            CancelExtraction, StopSeeding, RetryExtract, PauseAll, ResumeAll,
            SetConfig, RetryPackageExtract, Shutdown, RowCommand

LEMMA WaitLoop == IInv /\ Loop => WaitCovers'
<1> SUFFICES ASSUME IInv, Loop, loop' \in {"remove", "recheck"} PROVE WaitCovers'
  BY DEF WaitCovers
<1>1. TypeOK /\ WaitCovers
  BY DEF IInv
<1>2. ASSUME NEW i \in Rows, Finish(i) PROVE WaitCovers'
  <2>1. \A w \in WorkerIds : Idle(w) => worker'[w].job = "none"
    BY <1>1, <1>2 DEF Finish, TypeOK, Idle, NoWorker
  <2>2. loop' = loop /\ UNCHANGED waitVars
    BY <1>2 DEF Finish, Leaves
  <2>3. Watched \subseteq WorkerIds
    BY <1>1, Identities DEF Watched, TypeOK
  <2> QED BY <1>1, <2>1, <2>2, <2>3 DEF WaitCovers, Watched, waitVars, Idle
<1>3. ASSUME NEW i \in Rows, FinishParts(i) PROVE WaitCovers'
  <2>1. \A w \in WorkerIds \ {Pkg} : Idle(w) => worker'[w].job = "none"
    <3>1. DOMAIN worker = WorkerIds /\ NoWorker.job = "none"
      BY <1>1 DEF TypeOK, NoWorker
    <3>2. \/ worker' = [worker EXCEPT ![i] = NoWorker, ![Pkg] = Spawned("extract")]
          \/ worker' = [worker EXCEPT ![i] = NoWorker]
      BY <1>3 DEF FinishParts
    <3>3. \A w \in WorkerIds \ {Pkg} : worker'[w] = worker[w] \/ worker'[w] = NoWorker
      BY <3>1, <3>2
    <3> QED BY <3>1, <3>3 DEF Idle
  <2>2. loop' = loop /\ UNCHANGED waitVars /\ stops # <<>>
    BY <1>3 DEF FinishParts, Leaves, Receiving, AwaitsExit
  <2>3. Watched \subseteq WorkerIds
    BY <1>1, Identities DEF Watched, TypeOK
  <2>4. Pkg \in Watched => Pkg \in Entries(stops)
    <3>1. Pkg \in Watched => target = Pkg
      BY DEF Watched
    <3>2. Len(stops) \in DOMAIN stops
      BY <1>1, <2>2, EmptySeq, LenProperties DEF TypeOK
    <3> QED BY <1>1, <2>2, <3>1, <3>2 DEF WaitCovers, Entries
  <2> QED BY <1>1, <2>1, <2>2, <2>3, <2>4 DEF WaitCovers, Watched, waitVars, Idle
<1>4. ASSUME FinishPackage PROVE WaitCovers'
  <2>1. \A w \in WorkerIds : Idle(w) => worker'[w].job = "none"
    BY <1>1, <1>4 DEF FinishPackage, TypeOK, Idle, NoWorker
  <2>2. loop' = loop /\ UNCHANGED waitVars
    BY <1>4 DEF FinishPackage, Leaves
  <2>3. Watched \subseteq WorkerIds
    BY <1>1, Identities DEF Watched, TypeOK
  <2> QED BY <1>1, <2>1, <2>2, <2>3 DEF WaitCovers, Watched, waitVars, Idle
<1>5. ASSUME StopWorker PROVE WaitCovers'
  <2>1. stops \in Seq(WorkerIds) /\ stops # <<>>
    BY <1>1, <1>5 DEF TypeOK, StopWorker
  <2>2. Watched \subseteq WorkerIds
    BY <1>1, Identities DEF Watched, TypeOK
  <2>3. CASE Idle(Head(stops)) /\ stops' = Tail(stops) /\ UNCHANGED worker
    <3>1. /\ Entries(stops) \subseteq {Head(stops)} \cup Entries(Tail(stops))
          /\ Tail(stops) # <<>> =>
               Tail(stops)[Len(Tail(stops))] = stops[Len(stops)]
      <4>1. /\ Tail(stops) \in Seq(WorkerIds) /\ Len(Tail(stops)) = Len(stops) - 1
            /\ \A n \in 1..Len(Tail(stops)) : Tail(stops)[n] = stops[n + 1]
            /\ Len(stops) \in Nat \ {0} /\ Head(stops) = stops[1]
        BY <2>1, HeadTailProperties, EmptySeq
      <4>2. DOMAIN stops = 1..Len(stops) /\ DOMAIN Tail(stops) = 1..Len(Tail(stops))
        BY <2>1, <4>1, LenProperties
      <4>3. \A n \in 1..Len(stops) : stops[n] \in {Head(stops)} \cup Entries(Tail(stops))
        <5> SUFFICES ASSUME NEW n \in 1..Len(stops), n # 1
                     PROVE  stops[n] \in Entries(Tail(stops))
          BY <4>1
        <5>1. n - 1 \in 1..Len(Tail(stops)) /\ (n - 1) + 1 = n
          BY <4>1
        <5>2. Tail(stops)[n - 1] = stops[n]
          BY <4>1, <5>1
        <5> QED BY <4>2, <5>1, <5>2 DEF Entries
      <4>4. Tail(stops) # <<>> => Tail(stops)[Len(Tail(stops))] = stops[Len(stops)]
        <5> SUFFICES ASSUME Tail(stops) # <<>>
                     PROVE  Tail(stops)[Len(Tail(stops))] = stops[Len(stops)]
          OBVIOUS
        <5>1. Len(Tail(stops)) \in Nat \ {0}
          BY <4>1, EmptySeq
        <5>2. Len(Tail(stops)) \in 1..Len(Tail(stops)) /\ Len(Tail(stops)) + 1 = Len(stops)
          BY <4>1, <5>1
        <5> QED BY <4>1, <5>2
      <4> QED BY <4>2, <4>3, <4>4 DEF Entries
    <3>2. loop' = loop /\ target' = target
      BY <1>5 DEF StopWorker
    <3> QED BY <1>1, <2>1, <2>2, <2>3, <3>1, <3>2 DEF WaitCovers, Watched, Idle
  <2>4. CASE worker' = Cancelled({Head(stops)}) /\ UNCHANGED stops
    <3>1. \A w \in WorkerIds : Idle(w) => worker'[w].job = "none"
      BY <1>1, <2>4, CancelledProperties DEF Idle
    <3>2. loop' = loop /\ target' = target
      BY <1>5 DEF StopWorker
    <3> QED BY <1>1, <2>2, <2>4, <3>1, <3>2 DEF WaitCovers, Watched, Idle
  <2> QED BY <1>5, <2>3, <2>4 DEF StopWorker
<1> QED BY <1>2, <1>3, <1>4, <1>5, Loop
        DEF Loop, Start, ScanDone, Scanning, Wake, StopTimeout, RemoveRows, Recheck,
            EndWait, Stopped

LEMMA WaitTask == IInv /\ Task => WaitCovers'
<1> SUFFICES ASSUME IInv, Task PROVE WaitCovers'
  OBVIOUS
<1>1. TypeOK /\ WaitCovers /\ Watched \subseteq WorkerIds
  BY Identities DEF IInv, Watched, TypeOK
<1> QED BY <1>1, TaskKeeps DEF WaitCovers, Watched, Idle, Kept

-----------------------------------------------------------------------------
(* The theorems.                                                           *)

LEMMA Invariance == Spec => []IInv
<1>1. Init => IInv
  BY TypeInit, AgreementInit DEF IInv, WaitCovers, Init
<1>2. IInv /\ [Next]_vars => IInv'
  <2> SUFFICES ASSUME IInv, [Next]_vars PROVE IInv'
    OBVIOUS
  <2>1. TypeOK'
    BY TypeNext DEF IInv
  <2>2. CASE Command
    BY <2>1, <2>2, AgreementCommand, WaitCommand DEF IInv
  <2>3. CASE Loop
    BY <2>1, <2>3, AgreementLoop, WaitLoop DEF IInv
  <2>4. CASE Task
    BY <2>1, <2>4, AgreementTasks, WaitTask DEF IInv
  <2>5. CASE Restart
    BY <2>1, <2>5, AgreementRestart DEF IInv, Restart, EndWait, WaitCovers
  <2>6. CASE UNCHANGED vars
    BY <2>1, <2>6
       DEF IInv, vars, rowVars, pkgVars, waitVars, boundVars, Agreement, WorkerShape,
           WorkersMatchRows, CrashLosesNothing, WaitCovers, Watched, Idle, Running
  <2> QED BY <2>2, <2>3, <2>4, <2>5, <2>6 DEF Next
<1> QED BY <1>1, <1>2, PTL DEF Spec

(* An active row always has a worker and a worker always has a row that is *)
(* active or whose new status outlasts it: exits are never lost, and no    *)
(* command spawns a worker over another.                                   *)
THEOREM WorkersAndRowsAgree == Spec => []WorkersMatchRows
BY Invariance, PTL DEF IInv, Agreement

(* A crash at any moment makes of every row what its status promises.      *)
THEOREM CrashesLoseNothing == Spec => []CrashLosesNothing
BY Invariance, PTL DEF IInv, Agreement

-----------------------------------------------------------------------------
(* What one step does to one entry of the worker table.                    *)

(* The entry stays: its task goes on, perhaps cancelled now. *)
Stays(w) ==
  /\ worker'[w].job = worker[w].job
  /\ worker[w].cancelled => worker'[w].cancelled
  /\ worker'[w].slot => worker[w].slot

(* The entry is removed by its exit, by the end of a shutdown or by a kill. *)
Departs(w) ==
  /\ worker'[w] = NoWorker
  /\ \/ w \in Rows /\ (Finish(w) \/ FinishParts(w))
     \/ w = Pkg /\ FinishPackage
     \/ Stopped
     \/ Restart

(* The entry is made, by an extraction, which takes no slot, or by Start. *)
Enters(w) ==
  /\ Idle(w)
  /\ ~worker'[w].slot \/ Start

LEMMA SpawnedSlot ==
  /\ ~Spawned("extract").slot
  /\ Spawned("extract").job = "extract" /\ Spawned("download").job = "download"
BY DEF Spawned, NoWorker

LEMMA StepOfCommand == IInv /\ Command => \A w \in WorkerIds : Stays(w) \/ Enters(w)
<1> SUFFICES ASSUME IInv, Command, NEW w \in WorkerIds PROVE Stays(w) \/ Enters(w)
  OBVIOUS
<1>1. TypeOK /\ WorkersMatchRows /\ DOMAIN worker = WorkerIds
  BY DEF IInv, Agreement, TypeOK
<1>2. UNCHANGED worker => Stays(w)
  BY DEF Stays
<1>3. ASSUME NEW W, worker' = Cancelled(W) PROVE Stays(w)
  <2>1. /\ Cancelled(W)[w].job = worker[w].job
        /\ worker[w].cancelled => Cancelled(W)[w].cancelled
    BY <1>1, CancelledProperties
  <2>2. Cancelled(W)[w].slot = worker[w].slot
    BY <1>1 DEF Cancelled, TypeOK, Worker
  <2> QED BY <1>3, <2>1, <2>2 DEF Stays
<1>4. ASSUME NEW i \in Rows, RetryExtract(i) PROVE Stays(w) \/ Enters(w)
  <2>1. Idle(i)
    BY <1>1, <1>4
       DEF RetryExtract, RowCommand, Receive, WorkersMatchRows, Running, Active, Terminal
  <2>2. worker' = [worker EXCEPT ![i] = Spawned("extract")]
    BY <1>4 DEF RetryExtract
  <2>3. CASE w = i
    BY <1>1, <2>1, <2>2, <2>3, SpawnedSlot DEF Enters
  <2>4. CASE w # i
    BY <1>1, <2>2, <2>4 DEF Stays
  <2> QED BY <2>3, <2>4
<1>5. ASSUME RetryPackageExtract PROVE Stays(w) \/ Enters(w)
  <2>1. Idle(Pkg) /\ worker' = [worker EXCEPT ![Pkg] = Spawned("extract")]
    BY <1>5 DEF RetryPackageExtract, PackageReady
  <2>2. CASE w = Pkg
    BY <1>1, <2>1, <2>2, SpawnedSlot DEF Enters
  <2>3. CASE w # Pkg
    BY <1>1, <2>1, <2>3 DEF Stays
  <2> QED BY <2>2, <2>3
<1>6. \A i \in Rows : Add(i) \/ StopSeeding(i) => Stays(w)
  BY <1>2, <1>3 DEF Add, Insert, StopSeeding, Interrupt
<1>7. \A i \in Torrent : ForceRecheck(i) => Stays(w)
  BY <1>3 DEF ForceRecheck
<1>8. \A id \in WorkerIds :
        Pause(id) \/ Resume(id) \/ Retry(id) \/ Cancel(id) \/ CancelExtraction(id) \/ Remove(id)
          => Stays(w)
  BY <1>2, <1>3
     DEF Pause, Resume, Retry, Requeue, Cancel, CancelExtraction, Remove, Interrupt
<1>9. AddArchiveSet \/ PauseAll \/ ResumeAll \/ Shutdown => Stays(w)
  BY <1>2, <1>3 DEF AddArchiveSet, Insert, PauseAll, ResumeAll, Shutdown, Interrupt
<1>10. \A n \in 1..MaxConcurrent : SetConfig(n) => Stays(w)
  BY <1>2 DEF SetConfig
<1> QED BY <1>4, <1>5, <1>6, <1>7, <1>8, <1>9, <1>10, Command DEF Command

LEMMA StepOfLoop ==
  IInv /\ Loop => \A w \in WorkerIds : Stays(w) \/ Departs(w) \/ Enters(w)
<1> SUFFICES ASSUME IInv, Loop, NEW w \in WorkerIds
             PROVE  Stays(w) \/ Departs(w) \/ Enters(w)
  OBVIOUS
<1>1. TypeOK /\ DOMAIN worker = WorkerIds
  BY DEF IInv, TypeOK
<1>2. UNCHANGED worker => Stays(w)
  BY DEF Stays
<1>3. CASE Start
  <2>1. PICK n \in DOMAIN Pruned :
          /\ Idle(Pruned[n])
          /\ \/ worker' = [worker EXCEPT ![Pruned[n]] = Spawned("download")]
             \/ UNCHANGED worker
    BY <1>3 DEF Start, First
  <2>2. CASE w = Pruned[n]
    BY <1>3, <2>1, <2>2 DEF Enters
  <2>3. CASE w # Pruned[n]
    BY <1>1, <2>1, <2>3 DEF Stays
  <2> QED BY <2>2, <2>3
<1>4. ASSUME NEW i \in Rows, Finish(i) PROVE Stays(w) \/ Departs(w)
  <2>1. worker' = [worker EXCEPT ![i] = NoWorker]
    BY <1>4 DEF Finish
  <2>2. CASE w = i
    BY <1>1, <1>4, <2>1, <2>2 DEF Departs
  <2>3. CASE w # i
    BY <1>1, <2>1, <2>3 DEF Stays
  <2> QED BY <2>2, <2>3
<1>5. ASSUME NEW i \in Rows, FinishParts(i) PROVE Stays(w) \/ Departs(w) \/ Enters(w)
  <2>1. \/ worker' = [worker EXCEPT ![i] = NoWorker, ![Pkg] = Spawned("extract")]
        \/ worker' = [worker EXCEPT ![i] = NoWorker]
    BY <1>5 DEF FinishParts
  <2>2. Idle(Pkg) /\ i # Pkg /\ Pkg \in WorkerIds
    BY <1>5, Identities DEF FinishParts, PartsDone, PackageReady
  <2>3. CASE w = i
    BY <1>1, <1>5, <2>1, <2>2, <2>3 DEF Departs
  <2>4. CASE w = Pkg
    <3>1. worker'[Pkg] = Spawned("extract") \/ worker'[Pkg] = worker[Pkg]
      BY <1>1, <2>1, <2>2
    <3> QED BY <2>2, <2>4, <3>1, SpawnedSlot DEF Enters, Stays
  <2>5. CASE w \notin {i, Pkg}
    BY <1>1, <2>1, <2>5 DEF Stays
  <2> QED BY <2>3, <2>4, <2>5
<1>6. ASSUME FinishPackage PROVE Stays(w) \/ Departs(w)
  <2>1. worker' = [worker EXCEPT ![Pkg] = NoWorker]
    BY <1>6 DEF FinishPackage
  <2>2. CASE w = Pkg
    BY <1>1, <1>6, <2>1, <2>2 DEF Departs
  <2>3. CASE w # Pkg
    BY <1>1, <2>1, <2>3 DEF Stays
  <2> QED BY <2>2, <2>3
<1>7. ASSUME StopWorker PROVE Stays(w)
  <2>1. UNCHANGED worker \/ worker' = Cancelled({Head(stops)})
    BY <1>7 DEF StopWorker
  <2>2. /\ Cancelled({Head(stops)})[w].job = worker[w].job
        /\ worker[w].cancelled => Cancelled({Head(stops)})[w].cancelled
    BY <1>1, CancelledProperties
  <2>3. Cancelled({Head(stops)})[w].slot = worker[w].slot
    BY <1>1 DEF Cancelled, TypeOK, Worker
  <2> QED BY <2>1, <2>2, <2>3 DEF Stays
<1>8. Stopped => Departs(w)
  BY DEF Stopped, Departs
<1>9. ScanDone \/ Wake \/ StopTimeout \/ RemoveRows \/ Recheck => Stays(w)
  BY <1>2 DEF ScanDone, Wake, StopTimeout, RemoveRows, Recheck
<1> QED BY <1>3, <1>4, <1>5, <1>6, <1>7, <1>8, <1>9, Loop DEF Loop

LEMMA StepOfWorker ==
  ASSUME IInv, [Next]_vars, NEW w \in WorkerIds
  PROVE  Stays(w) \/ Departs(w) \/ Enters(w)
<1>1. CASE Command
  BY <1>1, StepOfCommand
<1>2. CASE Loop
  BY <1>2, StepOfLoop
<1>3. CASE Task
  BY <1>3, TaskKeeps DEF IInv, Kept, Stays
<1>4. CASE Restart
  BY <1>4 DEF Restart, Departs
<1>5. CASE UNCHANGED vars
  BY <1>5 DEF vars, Stays
<1> QED BY <1>1, <1>2, <1>3, <1>4, <1>5 DEF Next

-----------------------------------------------------------------------------
(* Action properties.                                                      *)

(* Start, retries and finished parts never put a worker on top of one that *)
(* still drains, and no step takes back a cancellation.                    *)
THEOREM OneWorker == Spec => OneWorkerAtATime
<1>1. NoWorker.job = "none"
  BY DEF NoWorker
<1>2. IInv /\ [Next]_vars =>
        \A w \in WorkerIds : ~Idle(w) /\ ~Idle(w)' =>
          /\ worker'[w].job = worker[w].job
          /\ worker[w].cancelled => worker'[w].cancelled
          /\ worker[w].slot \/ ~worker'[w].slot
  <2> SUFFICES ASSUME IInv, [Next]_vars, NEW w \in WorkerIds, ~Idle(w), ~Idle(w)'
               PROVE  Stays(w)
    BY DEF Stays
  <2>1. ~Departs(w) /\ ~Enters(w)
    BY <1>1 DEF Departs, Enters, Idle
  <2> QED BY <2>1, StepOfWorker
<1> QED BY <1>2, Invariance, PTL DEF Spec, OneWorkerAtATime

(* A row turns active only by the step that gives it a worker. *)
LEMMA Activation ==
  ASSUME IInv, [Next]_vars, NEW i \in Rows, status[i] \notin Active, status'[i] \in Active
  PROVE  Idle(i) /\ Running'
<1>1. TypeOK /\ WorkersMatchRows /\ status \in [Rows -> Statuses]
  BY DEF IInv, Agreement, TypeOK
<1>2. \A I, s : Commit(I, s) => s \in Active /\ i \in I
  BY <1>1, PutApply DEF Commit
<1>3. CASE Command
  <2>1. ASSUME NEW j \in Rows, RetryExtract(j) PROVE Idle(i) /\ Running'
    <3>1. i = j
      BY <1>2, <2>1 DEF RetryExtract
    <3> QED BY <1>1, <2>1, <3>1
            DEF RetryExtract, RowCommand, Receive, WorkersMatchRows, Running, Active, Terminal
  <2>2. ~\E s \in {"Queued", "Paused", "Cancelled", "Completed"} : \E I : Commit(I, s)
    BY <1>2 DEF Active
  <2>3. ~UNCHANGED status
    OBVIOUS
  <2> QED BY <1>3, <2>1, <2>2, <2>3, Command
          DEF Command, Add, AddArchiveSet, Insert, Pause, Resume, Retry, Requeue, Cancel,
              CancelExtraction, StopSeeding, PauseAll, ResumeAll, SetConfig, rowVars,
              RetryPackageExtract, Remove, ForceRecheck, Shutdown
<1>4. CASE Loop
  <2>1. CASE Start
    <3>1. PICK n \in DOMAIN Pruned :
            /\ Idle(Pruned[n])
            /\ \/ Commit({Pruned[n]}, "Starting")
               \/ status' = Put(status, {Pruned[n]}, "Error")
      BY <2>1 DEF Start, First
    <3>2. "Error" \notin Active
      BY DEF Active
    <3>3. i = Pruned[n]
      BY <1>1, <1>2, <3>1, <3>2, PutApply
    <3> QED BY <2>1, <3>1, <3>3 DEF Start, Scanning, Running
  <2>2. ASSUME NEW j \in Rows, Finish(j) PROVE FALSE
    <3> DEFINE exit == ExitStatus(worker[j].job, status[j], worker[j].result,
                                  worker[j].cancelled, loop = "stop")
    <3>1. exit \notin Active /\ "Error" \notin Active
      BY <1>1, ExitStatusSettled DEF Active
    <3>2. Commit({j}, exit) \/ status' = Put(status, {j}, "Error")
      BY <2>2 DEF Finish, WriteFails
    <3> HIDE DEF exit
    <3> QED BY <1>1, <1>2, <3>1, <3>2, PutApply
  <2>3. ~\E s \in {"Completed", "Gone", "Error"} : \E I : Commit(I, s)
    BY <1>2 DEF Active
  <2>4. ~UNCHANGED status
    OBVIOUS
  <2> QED BY <1>4, <2>1, <2>2, <2>3, <2>4, Loop
          DEF Loop, ScanDone, Wake, FinishParts, FinishPackage, StopWorker, StopTimeout,
              RemoveRows, Recheck, Stopped, rowVars
<1>5. CASE Task
  <2>1. ASSUME NEW j \in Rows, Track(j) PROVE FALSE
    BY <1>1, <2>1, PutApply DEF Track
  <2>2. ~UNCHANGED status
    OBVIOUS
  <2> QED BY <1>5, <2>1, <2>2, Task DEF Task, Report, DropSlot, Return, SendExit, rowVars
<1>6. CASE Restart
  <2>1. durable[i] \in Statuses /\ status'[i] = RestoredStatus(durable[i])
    BY <1>1, <1>6 DEF Restart, TypeOK
  <2> QED BY <2>1 DEF RestoredStatus, Requeued, Active
<1>7. CASE UNCHANGED vars
  BY <1>7 DEF vars, rowVars
<1> QED BY <1>3, <1>4, <1>5, <1>6, <1>7 DEF Next

(* A report that a tracker applies late revives no row: the row turns      *)
(* active only together with its new worker.                               *)
THEOREM LateReports == Spec => NoRevival
<1>1. IInv /\ IInv' /\ [Next]_vars =>
        \A i \in Rows : status[i] \notin Active /\ status'[i] \in Active
                          => Idle(i) /\ ~Idle(i)'
  <2> SUFFICES ASSUME IInv, WorkersMatchRows', [Next]_vars, NEW i \in Rows,
                      status[i] \notin Active, status'[i] \in Active
               PROVE  Idle(i) /\ ~Idle(i)'
    BY DEF IInv, Agreement
  <2>1. Idle(i) /\ Running'
    BY Activation
  <2> QED BY <2>1 DEF WorkersMatchRows
<1> QED BY <1>1, Invariance, PTL DEF Spec, NoRevival

(* An exit, however late, leaves the status that a command gave the row:   *)
(* a worker whose row is settled has been cancelled, and a cancelled worker*)
(* that failed keeps the status.                                           *)
THEOREM LateExits == Spec => CommandsOutlastExits
<1>1. ASSUME IInv, [Next]_vars, NEW i \in Rows,
             worker[i].phase = "exited", worker[i].result # "ok", Idle(i)',
             restarts' = restarts, faults' = faults, status[i] \notin Active
      PROVE  status'[i] = status[i]
  <2>1. TypeOK /\ WorkersMatchRows /\ WorkerShape /\ i \in WorkerIds /\ i # Pkg
    BY <1>1, Identities DEF IInv, Agreement
  <2>2. ~Idle(i)
    BY <1>1, <2>1 DEF WorkerShape, NoWorker
  <2>3. Departs(i)
    BY <1>1, <2>1, <2>2, StepOfWorker DEF Stays, Enters, Idle
  <2>4. ~Restart
    BY <1>1, <2>1 DEF Restart, TypeOK
  <2> DEFINE exit == ExitStatus(worker[i].job, status[i], worker[i].result,
                                worker[i].cancelled, loop = "stop")
  <2>5. ASSUME Leaves(i) PROVE exit = status[i]
    <3>1. Running
      BY <2>5 DEF Leaves, Receiving, AwaitsExit, Stopping, Running
    <3>2. worker[i].cancelled /\ worker[i].cancelled \in BOOLEAN
      <4>1. worker[i].cancelled
        BY <1>1, <2>1, <2>2, <3>1 DEF WorkersMatchRows
      <4>2. worker[i] \in Worker
        BY <2>1 DEF TypeOK
      <4>3. worker[i].cancelled \in BOOLEAN
        BY <4>2 DEF Worker
      <4> QED BY <4>1, <4>3
    <3> DEFINE shutdown == loop = "stop"
    <3> HIDE DEF shutdown
    <3>3. CancelledStatus(worker[i].job, status[i], shutdown) = status[i]
      BY <1>1 DEF CancelledStatus, Active
    <3>4. ExitStatus(worker[i].job, status[i], worker[i].result, worker[i].cancelled, shutdown)
            = CancelledStatus(worker[i].job, status[i], shutdown)
      BY <1>1, <3>2 DEF ExitStatus
    <3> QED BY <3>3, <3>4 DEF shutdown
  <2> HIDE DEF exit
  <2>6. ASSUME Finish(i) PROVE status'[i] = status[i]
    <3>1. Leaves(i) /\ (Commit({i}, exit) \/ Fault)
      BY <2>6 DEF Finish, WriteFails, exit
    <3>2. Commit({i}, exit)
      BY <1>1, <2>1, <3>1 DEF Fault, TypeOK
    <3> QED BY <2>1, <2>5, <3>1, <3>2, PutApply DEF Commit, TypeOK
  <2>7. ASSUME FinishParts(i) PROVE status'[i] = status[i]
    <3>1. Leaves(i) /\ Commit({i}, "Completed") /\ PartsDone(i, exit)
      BY <2>7 DEF FinishParts, exit
    <3>2. i \in PartSet /\ Put(status, {i}, exit)[i] = "Completed"
      BY <3>1 DEF PartsDone, PackageReady
    <3>3. exit = "Completed"
      BY <1>1, <2>1, <3>2, PutApply DEF TypeOK
    <3> QED BY <2>1, <2>5, <3>1, <3>3, PutApply DEF Commit, TypeOK
  <2>8. Stopped => status'[i] = status[i]
    BY DEF Stopped, rowVars
  <2> QED BY <2>1, <2>3, <2>4, <2>6, <2>7, <2>8 DEF Departs
<1>2. IInv /\ [Next]_vars =>
        \A i \in Rows :
          /\ worker[i].phase = "exited" /\ worker[i].result # "ok"
          /\ Idle(i)' /\ restarts' = restarts /\ faults' = faults
          /\ status[i] \notin Active
          => status'[i] = status[i]
  BY <1>1
<1> QED BY <1>2, Invariance, PTL DEF Spec, CommandsOutlastExits

-----------------------------------------------------------------------------
(* Slots. *)

LEMMA SlotsFinite == Slots \subseteq WorkerIds /\ IsFiniteSet(WorkerIds)
<1>1. IsFiniteSet(WorkerIds)
  BY EngineAssumption, FS_AddElement DEF WorkerIds
<1> QED BY <1>1 DEF Slots

LEMMA SlotsStep ==
  ASSUME IInv, [Next]_vars
  PROVE  \/ Slots' \subseteq Slots
         \/ SlotFree /\ \E i \in WorkerIds : Slots' \subseteq Slots \cup {i}
<1>1. CASE Start
  <2>1. PICK n \in DOMAIN Pruned :
          \/ worker' = [worker EXCEPT ![Pruned[n]] = Spawned("download")]
          \/ UNCHANGED worker
    BY <1>1 DEF Start
  <2>2. DOMAIN worker = WorkerIds
    BY DEF IInv, TypeOK
  <2>3. \A w \in WorkerIds \ {Pruned[n]} : worker'[w] = worker[w]
    BY <2>1, <2>2
  <2>4. CASE Pruned[n] \in WorkerIds
    BY <1>1, <2>3, <2>4 DEF Slots, Start
  <2>5. CASE Pruned[n] \notin WorkerIds
    BY <2>3, <2>5 DEF Slots
  <2> QED BY <2>4, <2>5
<1>2. CASE ~Start
  <2>1. \A w \in WorkerIds : worker'[w].slot => worker[w].slot
    <3> SUFFICES ASSUME NEW w \in WorkerIds, worker'[w].slot PROVE worker[w].slot
      OBVIOUS
    <3>1. ~NoWorker.slot
      BY DEF NoWorker
    <3> QED BY <1>2, <3>1, StepOfWorker DEF Stays, Departs, Enters
  <2> QED BY <2>1 DEF Slots
<1> QED BY <1>1, <1>2

(* No more than max_concurrent workers ever hold a slot at once. *)
THEOREM Bounded == Spec => []SlotsBounded
<1>1. Init => SlotsBounded
  <2> SUFFICES ASSUME Init PROVE SlotsBounded
    OBVIOUS
  <2>1. Slots = {}
    BY DEF Init, Slots, NoWorker
  <2> QED BY <2>1, FS_EmptySet, EngineAssumption DEF SlotsBounded
<1>2. IInv /\ IInv' /\ SlotsBounded /\ [Next]_vars => SlotsBounded'
  <2> SUFFICES ASSUME IInv, SlotsBounded, [Next]_vars PROVE SlotsBounded'
    OBVIOUS
  <2>1. IsFiniteSet(Slots) /\ Cardinality(Slots) \in Nat
    BY SlotsFinite, FS_Subset, FS_CardinalityType
  <2>2. CASE Slots' \subseteq Slots
    <3>1. Cardinality(Slots') <= Cardinality(Slots) /\ Cardinality(Slots') \in Nat
      BY <2>1, <2>2, FS_Subset, FS_CardinalityType
    <3> QED BY <2>1, <3>1, EngineAssumption DEF SlotsBounded
  <2>3. ASSUME SlotFree, NEW i \in WorkerIds, Slots' \subseteq Slots \cup {i}
        PROVE  SlotsBounded'
    <3>1. /\ IsFiniteSet(Slots \cup {i})
          /\ Cardinality(Slots \cup {i}) <= Cardinality(Slots) + 1
          /\ Cardinality(Slots \cup {i}) \in Nat
      <4>1. /\ IsFiniteSet(Slots \cup {i})
            /\ \/ Cardinality(Slots \cup {i}) = Cardinality(Slots)
               \/ Cardinality(Slots \cup {i}) = Cardinality(Slots) + 1
        BY <2>1, FS_AddElement, ZenonT(30)
      <4> QED BY <2>1, <4>1
    <3>2. Cardinality(Slots') <= Cardinality(Slots \cup {i}) /\ Cardinality(Slots') \in Nat
      BY <2>3, <3>1, FS_Subset, FS_CardinalityType
    <3>3. Cardinality(Slots) < limit /\ limit \in 1..MaxConcurrent
      BY <2>3 DEF SlotFree, IInv, TypeOK
    <3> QED BY <2>1, <3>1, <3>2, <3>3, EngineAssumption DEF SlotsBounded
  <2> QED BY <2>2, <2>3, SlotsStep
<1> QED BY <1>1, <1>2, Invariance, PTL DEF Spec

-----------------------------------------------------------------------------
(***************************************************************************)
(* The queue, the permit and the archive set, for any rows, archive set,   *)
(* limits and bounds: no wakeup is lost, no queued row is forgotten, and   *)
(* the set is extracted from finished parts only.                          *)
(*                                                                         *)
(* The invariants lean on IInv, the agreement of the worker table with the *)
(* rows.  What they need besides: a recheck is of a torrent, a part never  *)
(* seeds (StopSeeding would complete it under its worker), a completed     *)
(* part has no worker, and the database holds every row that a restart     *)
(* would queue.                                                            *)
(***************************************************************************)

(* The permit. *)

(* A task that gives a slot back leaves a permit, and queues no row. *)
LEMMA TaskPermits ==
  ASSUME TypeOK, Task
  PROVE  /\ ~permit' => ~permit /\ Slots' = Slots
         /\ \A i \in Rows : status'[i] = "Queued" => status[i] = "Queued"
         /\ UNCHANGED <<limit, queue, loop>>
         /\ \A w \in WorkerIds : Idle(w)' <=> Idle(w)
<1>1. /\ worker \in [WorkerIds -> Worker] /\ Rows \subseteq WorkerIds
      /\ permit \in BOOLEAN /\ status \in [Rows -> Statuses]
  BY Identities DEF TypeOK
<1>2. UNCHANGED <<limit, queue, loop>> /\ \A w \in WorkerIds : Idle(w)' <=> Idle(w)
  BY TaskKeeps, Task
     DEF Kept, Idle, Task, Report, Track, DropSlot, Return, SendExit, waitVars
<1>3. ASSUME NEW v \in WorkerIds, NEW r, r.slot = worker[v].slot,
             worker' = [worker EXCEPT ![v] = r]
      PROVE  Slots' = Slots
  BY <1>1, <1>3 DEF Slots
<1>4. \A v \in WorkerIds : worker[v] \in Worker
  BY <1>1
<1>5. ASSUME NEW i \in Rows, NEW p \in Active, Report(i, p)
      PROVE  permit' = permit /\ Slots' = Slots /\ status' = status
  <2> DEFINE r == [worker[i] EXCEPT !.phase = p, !.report = p]
  <2>1. r.slot = worker[i].slot /\ i \in WorkerIds
    BY <1>1, <1>4 DEF Worker
  <2>2. worker' = [worker EXCEPT ![i] = r] /\ permit' = permit /\ status' = status
    BY <1>5 DEF Report, rowVars
  <2> HIDE DEF r
  <2> QED BY <1>3, <2>1, <2>2
<1>6. ASSUME NEW i \in Rows, Track(i)
      PROVE  /\ permit' = permit /\ Slots' = Slots
             /\ \A j \in Rows : status'[j] = "Queued" => status[j] = "Queued"
  <2> DEFINE r == [worker[i] EXCEPT !.report = "none"]
  <2>1. r.slot = worker[i].slot /\ i \in WorkerIds
    BY <1>1, <1>4 DEF Worker
  <2>2. worker' = [worker EXCEPT ![i] = r] /\ permit' = permit
    BY <1>6 DEF Track
  <2> HIDE DEF r
  <2>3. worker[i].report \in Active \cup {"none"} /\ "Queued" \notin Active
    BY <1>1, <1>4 DEF Worker, Active
  <2>4. \A j \in Rows : status'[j] = "Queued" => status[j] = "Queued"
    BY <1>1, <1>6, <2>3, PutApply DEF Track
  <2> QED BY <1>3, <2>1, <2>2, <2>4
<1>7. ASSUME NEW v \in WorkerIds, NEW r, r.slot = FALSE,
             worker' = [worker EXCEPT ![v] = r], Freed(v), ~permit'
      PROVE  ~permit /\ Slots' = Slots
  <2>1. ~permit /\ ~worker[v].slot
    BY <1>1, <1>7 DEF Freed
  <2> QED BY <1>1, <1>7, <2>1 DEF Slots
<1>8. ASSUME NEW i \in Rows, DropSlot(i)
      PROVE  (~permit' => ~permit /\ Slots' = Slots) /\ status' = status
  <2> DEFINE r == [worker[i] EXCEPT !.slot = FALSE]
  <2>1. r.slot = FALSE /\ i \in WorkerIds
    BY <1>1, <1>4 DEF Worker
  <2>2. worker' = [worker EXCEPT ![i] = r] /\ Freed(i) /\ status' = status
    BY <1>8 DEF DropSlot, rowVars
  <2> HIDE DEF r
  <2> QED BY <1>7, <2>1, <2>2
<1>9. ASSUME NEW v \in WorkerIds, NEW x \in Results \ {"none"}, Return(v, x)
      PROVE  (~permit' => ~permit /\ Slots' = Slots) /\ status' = status
  <2> DEFINE r == [worker[v] EXCEPT !.phase = "returned", !.result = x, !.slot = FALSE]
  <2>1. r.slot = FALSE
    BY <1>1, <1>4 DEF Worker
  <2>2. worker' = [worker EXCEPT ![v] = r] /\ Freed(v) /\ status' = status
    BY <1>9 DEF Return, rowVars
  <2> HIDE DEF r
  <2> QED BY <1>7, <2>1, <2>2
<1>10. ASSUME NEW v \in WorkerIds, SendExit(v)
       PROVE  permit' = permit /\ Slots' = Slots /\ status' = status
  <2> DEFINE r == [worker[v] EXCEPT !.phase = "exited"]
  <2>1. r.slot = worker[v].slot
    BY <1>1, <1>4 DEF Worker
  <2>2. worker' = [worker EXCEPT ![v] = r] /\ permit' = permit /\ status' = status
    BY <1>10 DEF SendExit, rowVars
  <2> HIDE DEF r
  <2> QED BY <1>3, <2>1, <2>2
<1>11. ASSUME status' = status, NEW j \in Rows, status'[j] = "Queued"
       PROVE  status[j] = "Queued"
  BY <1>11
<1> QED BY <1>2, <1>5, <1>6, <1>8, <1>9, <1>10, <1>11, Task DEF Task

(* The loop comes to wait only from a scan, and no task lets it oversleep. *)
THEOREM WakesForWork == Spec => []NoLostWakeup
<1>1. Init => NoLostWakeup
  BY DEF Init, NoLostWakeup
<1>2. IInv /\ NoLostWakeup /\ [Next]_vars => NoLostWakeup'
  <2> SUFFICES ASSUME IInv, NoLostWakeup, [Next]_vars, loop' = "select"
               PROVE  NoLostWakeup'
    BY DEF NoLostWakeup
  <2>1. TypeOK
    BY DEF IInv
  <2>2. CASE Command
    BY <2>2, Command
       DEF Command, Receive, RowCommand, Add, AddArchiveSet, Insert, Pause, Resume, Retry,
           Cancel, CancelExtraction, StopSeeding, RetryExtract, PauseAll, ResumeAll,
           SetConfig, RetryPackageExtract, Remove, ForceRecheck, Shutdown
  <2>3. CASE ScanDone
    <3>1. Slots' = Slots /\ UNCHANGED <<limit, status, worker>>
      BY <2>3 DEF ScanDone, Slots, rowVars
    <3>2. CASE ~SlotFree
      BY <3>1, <3>2 DEF SlotFree, NoLostWakeup
    <3>3. CASE queue' = Pruned /\ \A n \in DOMAIN Pruned : ~Idle(Pruned[n])
      BY <3>1, <3>3 DEF NoLostWakeup, Entries, Idle
    <3> QED BY <2>3, <3>2, <3>3 DEF ScanDone
  <2>4. CASE Loop /\ ~ScanDone
    BY <2>4, Loop
       DEF Loop, Start, Scanning, Wake, Finish, FinishParts, FinishPackage, Leaves,
           StopWorker, Stopping, StopTimeout, RemoveRows, Recheck, EndWait, Stopped
  <2>5. CASE Task
    BY <2>1, <2>5, TaskPermits, Identities DEF NoLostWakeup, Entries, TypeOK
  <2>6. CASE Restart
    BY <2>6 DEF Restart, EndWait
  <2>7. CASE UNCHANGED vars
    BY <2>7 DEF vars, rowVars, NoLostWakeup, Slots, Idle
  <2> QED BY <2>2, <2>3, <2>4, <2>5, <2>6, <2>7 DEF Next
<1> QED BY <1>1, <1>2, Invariance, PTL DEF Spec

-----------------------------------------------------------------------------
(* What a command does to rows and queue. *)

(* The rows I get status s: none of them is an archive part that is         *)
(* Completed, and they are Completed only from Seeding.                     *)
Settles(I, s) ==
  /\ I \subseteq Rows
  /\ s \in {"Queued", "Paused", "Cancelled", "Completed", "Extracting"}
  /\ Commit(I, s)
  /\ \A i \in I : status[i] = "Completed" => i \in Torrent
  /\ s = "Completed" => \A i \in I : status[i] = "Seeding"
  /\ \A i \in I : status[i] \in Absent => i \in Entries(created')
  /\ Entries(created) \subseteq Entries(created')

(* The queue loses rows of I only, and gains them when they are Queued; the *)
(* row of a recheck is pushed at its end.                                   *)
Pushes(I, s) ==
  /\ loop = "select"
  /\ Entries(queue) \subseteq Entries(queue') \cup I
  /\ s = "Queued" => I \subseteq Entries(queue') \/ (loop' = "recheck" /\ I = {target'})
  /\ loop' = "recheck" => target' \in Torrent /\ status[target'] \notin Absent

LEMMA NothingSettles ==
  ASSUME TypeOK, UNCHANGED <<status, durable, created>>
  PROVE  Settles({}, "Paused")
<1>1. status = Put(status, {}, "Paused") /\ durable = Put(durable, {}, "Paused")
  BY DEF Put, TypeOK
<1> QED BY <1>1 DEF Settles, Commit

LEMMA CommandSettles ==
  ASSUME IInv, Command
  PROVE  \E I, s : Settles(I, s) /\ Pushes(I, s)
<1>1. TypeOK /\ queue \in Seq(Rows) /\ created \in Seq(Rows) /\ status \in [Rows -> Statuses]
  BY DEF IInv, TypeOK
<1>2. \A I : Entries(Retain(queue, Rows \ I)) = Entries(queue) \cap (Rows \ I)
  BY <1>1, RetainProperties
<1>3. Entries(queue) \subseteq Rows
  <2>1. \A n \in DOMAIN queue : queue[n] \in Rows
    BY <1>1, ElementOfSeq, LenProperties
  <2> QED BY <2>1 DEF Entries
<1>4. \A q \in Seq(Rows) : Entries(queue \o q) = Entries(queue) \cup Entries(q)
  BY <1>1, ConcatEntries
<1>5. \A q \in Seq(Rows) : Entries(created \o q) = Entries(created) \cup Entries(q)
  BY <1>1, ConcatEntries
<1>6. ASSUME UNCHANGED <<status, durable, created>>, UNCHANGED queue, loop = "select",
             loop' # "recheck"
      PROVE  \E I, s : Settles(I, s) /\ Pushes(I, s)
  <2>1. Settles({}, "Paused") /\ Pushes({}, "Paused")
    BY <1>1, <1>6, NothingSettles DEF Pushes
  <2> QED BY <2>1
<1>7. ASSUME NEW I, NEW s \in {"Paused", "Cancelled", "Completed"}, I \subseteq Rows,
             Commit(I, s), queue' = Retain(queue, Rows \ I), UNCHANGED created,
             \A i \in I : status[i] \in Pausable \cup Cancellable,
             s = "Completed" => \A i \in I : status[i] = "Seeding",
             loop = "select", loop' # "recheck"
      PROVE  \E J, t : Settles(J, t) /\ Pushes(J, t)
  <2>1. \A i \in I : status[i] \notin {"Completed"} \cup Absent
    BY <1>7 DEF Pausable, Cancellable, Absent
  <2>2. Settles(I, s)
    BY <1>7, <2>1 DEF Settles
  <2>3. Pushes(I, s)
    BY <1>2, <1>3, <1>7 DEF Pushes
  <2> QED BY <2>2, <2>3
<1>8. ASSUME NEW I, NEW q \in Seq(Rows), I \subseteq Entries(q), I \subseteq Rows,
             Commit(I, "Queued"), queue' = queue \o q,
             \A i \in I : /\ status[i] # "Completed"
                          /\ status[i] \in Absent => i \in Entries(created'),
             Entries(created) \subseteq Entries(created'),
             loop = "select", loop' # "recheck"
      PROVE  \E J, t : Settles(J, t) /\ Pushes(J, t)
  <2>1. Settles(I, "Queued")
    BY <1>8 DEF Settles
  <2>2. Pushes(I, "Queued")
    BY <1>4, <1>8 DEF Pushes
  <2> QED BY <2>1, <2>2
<1>9. \A command : Receive(command) => loop = "select"
  BY DEF Receive
<1>10. \A id \in WorkerIds : \A from :
         /\ Targets(id, from) \subseteq Rows
         /\ \A i \in Targets(id, from) : status[i] \in from
  BY InOrderProperties DEF Targets
<1>11. ASSUME NEW i \in Rows, Add(i) PROVE \E I, s : Settles(I, s) /\ Pushes(I, s)
  <2>1. <<i>> \in Seq(Rows) /\ Entries(<<i>>) = {i}
    BY DEF Entries
  <2>2. /\ Commit({i}, "Queued") /\ queue' = queue \o <<i>> /\ status[i] = "New"
        /\ created' = created \o <<i>> /\ loop = "select" /\ loop' = "scan"
    BY <1>9, <1>11, <2>1 DEF Add, Insert, Enqueue
  <2> QED BY <1>5, <1>8, <2>1, <2>2
<1>12. ASSUME AddArchiveSet PROVE \E I, s : Settles(I, s) /\ Pushes(I, s)
  <2>1. Parts \in Seq(Rows) /\ Entries(Parts) \subseteq Rows
    BY PartsType DEF PartSet
  <2>2. /\ Commit(Entries(Parts), "Queued") /\ queue' = queue \o Parts
        /\ \A i \in Entries(Parts) : status[i] = "New"
        /\ created' = created \o Parts /\ loop = "select" /\ loop' = "scan"
    BY <1>9, <1>12 DEF AddArchiveSet, Insert, Enqueue
  <2>3. /\ \A i \in Entries(Parts) : /\ status[i] # "Completed"
                                     /\ status[i] \in Absent => i \in Entries(created')
        /\ Entries(created) \subseteq Entries(created')
    BY <1>5, <2>1, <2>2
  <2> QED BY <1>8, <2>1, <2>2, <2>3
<1>13. ASSUME NEW id \in WorkerIds, Pause(id) PROVE \E I, s : Settles(I, s) /\ Pushes(I, s)
  <2> DEFINE I == Targets(id, Pausable)
  <2>1. I \subseteq Rows /\ \A i \in I : status[i] \in Pausable \cup Cancellable
    BY <1>10
  <2>2. /\ Commit(I, "Paused") /\ queue' = Retain(queue, Rows \ I) /\ UNCHANGED created
        /\ loop = "select" /\ loop' = "scan"
    BY <1>9, <1>13 DEF Pause, RowCommand, Interrupt
  <2> HIDE DEF I
  <2> QED BY <1>7, <2>1, <2>2
<1>14. ASSUME NEW id \in WorkerIds, Cancel(id) PROVE \E I, s : Settles(I, s) /\ Pushes(I, s)
  <2> DEFINE I == Targets(id, Cancellable)
  <2>1. I \subseteq Rows /\ \A i \in I : status[i] \in Pausable \cup Cancellable
    BY <1>10
  <2>2. /\ Commit(I, "Cancelled") /\ queue' = Retain(queue, Rows \ I) /\ UNCHANGED created
        /\ loop = "select" /\ loop' = "scan"
    BY <1>9, <1>14 DEF Cancel, RowCommand, Interrupt
  <2> HIDE DEF I
  <2> QED BY <1>7, <2>1, <2>2
<1>15. ASSUME PauseAll PROVE \E I, s : Settles(I, s) /\ Pushes(I, s)
  <2> DEFINE I == {i \in Rows : status[i] \in Pausable}
  <2>1. I \subseteq Rows /\ \A i \in I : status[i] \in Pausable \cup Cancellable
    OBVIOUS
  <2>2. /\ Commit(I, "Paused") /\ queue' = Retain(queue, Rows \ I) /\ UNCHANGED created
        /\ loop = "select" /\ loop' = "scan"
    BY <1>9, <1>15 DEF PauseAll, RowCommand, Interrupt
  <2> HIDE DEF I
  <2> QED BY <1>7, <2>1, <2>2
<1>16. ASSUME NEW i \in Rows, StopSeeding(i) PROVE \E I, s : Settles(I, s) /\ Pushes(I, s)
  <2>1. /\ Commit({i}, "Completed") /\ queue' = Retain(queue, Rows \ {i}) /\ UNCHANGED created
        /\ loop = "select" /\ loop' = "scan" /\ status[i] = "Seeding"
    BY <1>9, <1>16 DEF StopSeeding, RowCommand, Interrupt
  <2>2. "Seeding" \in Pausable
    BY DEF Pausable
  <2> QED BY <1>7, <2>1, <2>2
<1>17. ASSUME NEW id \in WorkerIds, NEW from \in {{"Paused", "Error"}, {"Error"}},
              Requeue(id, from), loop = "select", loop' = "scan", UNCHANGED created
       PROVE  \E I, s : Settles(I, s) /\ Pushes(I, s)
  <2> DEFINE I == Targets(id, from)
             q == InOrder(id, I)
  <2>1. I # {} /\ Commit(I, "Queued") /\ queue' = queue \o q
    BY <1>17 DEF Requeue, Enqueue
  <2>2. q \in Seq(Rows) /\ I \subseteq Entries(q) /\ I \subseteq Rows
    BY <2>1, InOrderProperties
  <2>3. \A i \in I : status[i] \notin {"Completed"} \cup Absent
    BY <1>10 DEF Absent
  <2> HIDE DEF I, q
  <2> QED BY <1>8, <1>17, <2>1, <2>2, <2>3
<1>18. ASSUME ResumeAll PROVE \E I, s : Settles(I, s) /\ Pushes(I, s)
  <2> DEFINE I == {i \in Rows : status[i] = "Paused"}
  <2>1. PICK q \in Orderings(I) : queue' = queue \o q
    BY <1>18 DEF ResumeAll, Enqueue
  <2>2. I \in SUBSET Rows /\ IsFiniteSet(I)
    BY EngineAssumption, FS_Subset
  <2>3. q \in Seq(Rows) /\ Entries(q) = I
    BY <2>2, OrderingEntries
  <2>4. Commit(I, "Queued") /\ loop = "select" /\ loop' = "scan" /\ UNCHANGED created
    BY <1>9, <1>18 DEF ResumeAll, RowCommand
  <2>5. \A i \in I : status[i] \notin {"Completed"} \cup Absent
    BY DEF Absent
  <2> HIDE DEF I
  <2> QED BY <1>8, <2>1, <2>2, <2>3, <2>4, <2>5
<1>19. ASSUME NEW i \in Rows, RetryExtract(i) PROVE \E I, s : Settles(I, s) /\ Pushes(I, s)
  <2>1. /\ Commit({i}, "Extracting") /\ UNCHANGED <<queue, created>>
        /\ loop = "select" /\ loop' = "scan"
        /\ status[i] \notin {"Completed"} \cup Absent
    BY <1>9, <1>19 DEF RetryExtract, RowCommand, Absent
  <2>2. Settles({i}, "Extracting") /\ Pushes({i}, "Extracting")
    BY <2>1 DEF Settles, Pushes
  <2> QED BY <2>2
<1>20. ASSUME NEW i \in Torrent, ForceRecheck(i) PROVE \E I, s : Settles(I, s) /\ Pushes(I, s)
  <2>1. /\ Commit({i}, "Queued") /\ UNCHANGED <<queue, created>>
        /\ loop = "select" /\ loop' = "recheck" /\ target' = i
        /\ status[i] \notin Absent /\ i \in Rows
    BY <1>9, <1>20 DEF ForceRecheck, Absent, Rows
  <2>2. Settles({i}, "Queued") /\ Pushes({i}, "Queued")
    BY <2>1 DEF Settles, Pushes
  <2> QED BY <2>2
<1>21. ASSUME \/ \E id \in WorkerIds : CancelExtraction(id) \/ Remove(id)
              \/ \E n \in 1..MaxConcurrent : SetConfig(n)
              \/ RetryPackageExtract
              \/ Shutdown
       PROVE  \E I, s : Settles(I, s) /\ Pushes(I, s)
  <2>1. UNCHANGED <<status, durable, created, queue>> /\ loop = "select" /\ loop' # "recheck"
    BY <1>9, <1>21
       DEF CancelExtraction, Remove, SetConfig, RetryPackageExtract, Shutdown, RowCommand,
           rowVars
  <2> QED BY <1>6, <2>1
<1>22. ASSUME NEW id \in WorkerIds, Resume(id) \/ Retry(id)
       PROVE  \E I, s : Settles(I, s) /\ Pushes(I, s)
  <2>1. /\ Requeue(id, {"Paused", "Error"}) \/ Requeue(id, {"Error"})
        /\ loop = "select" /\ loop' = "scan" /\ UNCHANGED created
    BY <1>9, <1>22 DEF Resume, Retry, RowCommand
  <2> QED BY <1>17, <2>1
<1> QED BY <1>11, <1>12, <1>13, <1>14, <1>15, <1>16, <1>18, <1>19, <1>20, <1>21, <1>22, Command
        DEF Command

-----------------------------------------------------------------------------
(* The queue. *)

(* The database lists every row there is. *)
RowsAreListed ==
  /\ \A i \in Rows : status[i] \notin Absent \/ durable[i] \notin Absent => i \in Entries(created)
  /\ loop = "recheck" => target \in Torrent /\ target \in Entries(created)

(* Only the row of a failed recheck whose failure cannot be recorded is lost. *)
NoFailedRecheck == faults = 0 \/ Torrent = {}

Queueing == RowsAreListed /\ (NoFailedRecheck => QueuedRowsWait)

LEMMA QueueCommand == IInv /\ Queueing /\ Command => Queueing'
<1> SUFFICES ASSUME IInv, Queueing, Command PROVE Queueing'
  OBVIOUS
<1>1. PICK I, s : Settles(I, s) /\ Pushes(I, s)
  BY CommandSettles
<1>2. /\ DOMAIN status = Rows /\ DOMAIN durable = Rows
      /\ UNCHANGED faults /\ loop = "select" /\ Torrent \subseteq Rows
  BY <1>1, Command
     DEF IInv, TypeOK, Pushes, Rows, Command, Receive, RowCommand, boundVars, Add,
         AddArchiveSet, Insert, Pause, Resume, Retry, Cancel, CancelExtraction,
         StopSeeding, RetryExtract, PauseAll, ResumeAll, SetConfig,
         RetryPackageExtract, Remove, ForceRecheck, Shutdown
<1>3. /\ \A i \in I : status'[i] = s /\ durable'[i] = s
      /\ \A i \in Rows \ I : status'[i] = status[i] /\ durable'[i] = durable[i]
  BY <1>1, <1>2, PutApply DEF Settles, Commit
<1>4. RowsAreListed'
  <2>1. ASSUME NEW i \in Rows, status'[i] \notin Absent \/ durable'[i] \notin Absent
        PROVE  i \in Entries(created')
    BY <1>1, <1>3, <2>1 DEF Settles, Queueing, RowsAreListed
  <2>2. loop' = "recheck" => target' \in Torrent /\ target' \in Entries(created')
    BY <1>1, <1>2 DEF Settles, Pushes, Queueing, RowsAreListed
  <2> QED BY <2>1, <2>2 DEF RowsAreListed
<1>5. ASSUME NoFailedRecheck', loop' \notin {"stop", "off"}, NEW i \in Rows,
             status'[i] = "Queued"
      PROVE  i \in Entries(queue') \/ (loop' = "recheck" /\ target' = i)
  <2>1. NoFailedRecheck
    BY <1>2, <1>5 DEF NoFailedRecheck
  <2>2. CASE i \in I
    BY <1>1, <1>3, <1>5, <2>2 DEF Pushes
  <2>3. CASE i \notin I
    <3>1. i \in Entries(queue)
      BY <1>2, <1>3, <1>5, <2>1, <2>3 DEF Queueing, QueuedRowsWait
    <3> QED BY <1>1, <2>3, <3>1 DEF Pushes
  <2> QED BY <2>2, <2>3
<1> QED BY <1>4, <1>5 DEF Queueing, QueuedRowsWait

(* The rows of an exit, before and after. *)
LEMMA ExitingRow ==
  ASSUME IInv, NEW i \in Rows, Leaves(i)
  PROVE  /\ ~Idle(i) /\ status[i] \notin Absent /\ Running
         /\ loop' \notin {"stop", "off"} => loop # "stop"
         /\ loop' = "recheck" <=> loop = "recheck"
         /\ UNCHANGED <<queue, created, target>>
<1>1. /\ WorkerShape /\ WorkersMatchRows /\ i \in WorkerIds
  BY Identities DEF IInv, Agreement
<1>2. worker[i].phase = "exited" /\ Running
  BY DEF Leaves, Receiving, AwaitsExit, Stopping, Running
<1>3. ~Idle(i)
  BY <1>1, <1>2 DEF WorkerShape, NoWorker
<1>4. status[i] \notin Absent
  BY <1>1, <1>2, <1>3 DEF WorkersMatchRows, Absent, Active, Terminal
<1> QED BY <1>2, <1>3, <1>4 DEF Leaves, waitVars

(* What an exit commits, before a shutdown: Queued only on a Queued row. *)
LEMMA ExitKeepsQueued ==
  ASSUME IInv, NEW i \in Rows, loop # "stop",
         ExitStatus(worker[i].job, status[i], worker[i].result, worker[i].cancelled,
                    loop = "stop") = "Queued"
  PROVE  status[i] = "Queued"
<1> DEFINE shutdown == loop = "stop"
<1>1. shutdown = FALSE
  OBVIOUS
<1>2. status[i] \in Statuses /\ worker[i] \in Worker
  BY Identities DEF IInv, TypeOK
<1> HIDE DEF shutdown
<1>3. ExitStatus(worker[i].job, status[i], worker[i].result, worker[i].cancelled, FALSE)
        = "Queued"
  BY <1>1 DEF shutdown
<1>4. worker[i].cancelled \in BOOLEAN
  BY <1>2 DEF Worker
<1>5. FailedStatus(worker[i].job, worker[i].result) # "Queued"
  BY DEF FailedStatus
<1>6. worker[i].result # "ok"
        /\ CancelledStatus(worker[i].job, status[i], FALSE) = "Queued"
  BY <1>3, <1>4, <1>5, Zenon DEF ExitStatus
<1>7. CASE status[i] \notin Active
  BY <1>6, <1>7 DEF CancelledStatus
<1>8. CASE status[i] = "Extracting"
  BY <1>6, <1>8 DEF CancelledStatus, Active
<1>9. CASE status[i] \in Active \ {"Extracting"}
  BY <1>6, <1>9 DEF CancelledStatus, Active
<1> QED BY <1>7, <1>8, <1>9

LEMMA QueueLoop == IInv /\ Queueing /\ Loop => Queueing'
<1> SUFFICES ASSUME IInv, Queueing, Loop PROVE Queueing'
  OBVIOUS
<1>1. /\ DOMAIN status = Rows /\ DOMAIN durable = Rows /\ Torrent \subseteq Rows
      /\ queue \in Seq(Rows) /\ created \in Seq(Rows) /\ Pkg \notin Rows
      /\ target \in WorkerIds /\ faults \in Nat
      /\ RowsAreListed
  BY Identities, EngineAssumption DEF IInv, TypeOK, Rows, Queueing
<1>2. /\ Pruned \in Seq(Rows)
      /\ Entries(Pruned) = Entries(queue) \cap {i \in Rows : status[i] = "Queued"}
  BY <1>1, RetainProperties DEF Pruned
<1>3. ASSUME NEW i \in Rows, NEW s, i \in Entries(created), s # "Queued",
             status' = Put(status, {i}, s), durable' \in {durable, Put(durable, {i}, s)},
             UNCHANGED created, loop' = "recheck" => loop = "recheck" /\ target' = target,
             faults' = faults \/ Fault,
             loop' \notin {"stop", "off"} => loop \notin {"stop", "off"},
             \A j \in Rows \ {i} :
               j \in Entries(queue) /\ status[j] = "Queued" => j \in Entries(queue'),
             loop = "recheck" => loop' = "recheck" \/ target = i
      PROVE  Queueing'
  <2>1. /\ status'[i] = s /\ durable'[i] \in {s, durable[i]}
        /\ \A j \in Rows \ {i} : status'[j] = status[j] /\ durable'[j] = durable[j]
    BY <1>1, <1>3, PutApply
  <2>2. RowsAreListed'
    BY <1>1, <1>3, <2>1 DEF RowsAreListed
  <2>3. NoFailedRecheck' => NoFailedRecheck
    BY <1>1, <1>3 DEF NoFailedRecheck, Fault
  <2>4. NoFailedRecheck' => QueuedRowsWait'
    BY <1>1, <1>3, <2>1, <2>3 DEF Queueing, QueuedRowsWait
  <2> QED BY <2>2, <2>4 DEF Queueing
<1>4. CASE Start
  <2>1. PICK n \in DOMAIN Pruned :
          /\ queue' = DropAt(Pruned, n)
          /\ \/ /\ Commit({Pruned[n]}, "Starting")
                /\ UNCHANGED faults
             \/ /\ Fault
                /\ status' = Put(status, {Pruned[n]}, "Error")
                /\ durable' \in {durable, Put(durable, {Pruned[n]}, "Error")}
    BY <1>4 DEF Start
  <2>2. Pruned[n] \in Entries(Pruned) /\ Pruned[n] \in Rows
    BY <1>2, <2>1 DEF Entries
  <2>3. status[Pruned[n]] = "Queued"
    BY <1>2, <2>2
  <2>4. Pruned[n] \in Entries(created)
    BY <1>1, <2>2, <2>3 DEF RowsAreListed, Absent
  <2>5. Entries(Pruned) \subseteq Entries(queue') \cup {Pruned[n]}
    BY <1>2, <2>1, DropAtEntries
  <2>6. \A j \in Rows \ {Pruned[n]} :
          j \in Entries(queue) /\ status[j] = "Queued" => j \in Entries(queue')
    BY <1>2, <2>5
  <2>7. UNCHANGED created /\ loop = "scan" /\ loop' = "scan"
    BY <1>4 DEF Start, Scanning
  <2> QED BY <1>3, <2>1, <2>2, <2>4, <2>6, <2>7 DEF Commit
<1>5. CASE ScanDone
  <2>1. /\ UNCHANGED <<status, durable, created, faults>> /\ loop = "scan" /\ loop' = "select"
        /\ queue' = queue \/ queue' = Pruned
    BY <1>5 DEF ScanDone, Scanning, rowVars, boundVars
  <2>2. \A i \in Rows : status[i] = "Queued" /\ i \in Entries(queue) => i \in Entries(queue')
    BY <1>2, <2>1
  <2> QED BY <1>1, <2>1, <2>2 DEF Queueing, RowsAreListed, NoFailedRecheck, QueuedRowsWait
<1>6. ASSUME NEW i \in Rows, Finish(i) PROVE Queueing'
  <2> DEFINE exit == ExitStatus(worker[i].job, status[i], worker[i].result,
                                worker[i].cancelled, loop = "stop")
  <2>1. /\ Leaves(i)
        /\ \/ Commit({i}, exit) /\ UNCHANGED faults
           \/ Fault /\ status' = Put(status, {i}, "Error") /\ UNCHANGED durable
    BY <1>6 DEF Finish, WriteFails
  <2>2. /\ i \in Entries(created) /\ UNCHANGED <<queue, created, target>>
        /\ loop' \notin {"stop", "off"} => loop \notin {"stop", "off"}
        /\ loop' = "recheck" <=> loop = "recheck"
    BY <1>1, <2>1, ExitingRow DEF RowsAreListed, Running
  <2>3. loop # "stop" /\ exit = "Queued" => status[i] = "Queued"
    BY ExitKeepsQueued
  <2> HIDE DEF exit
  <2>4. CASE exit # "Queued" \/ ~Commit({i}, exit)
    <3>1. \E s : /\ s # "Queued" /\ status' = Put(status, {i}, s)
                 /\ durable' \in {durable, Put(durable, {i}, s)}
                 /\ faults' = faults \/ Fault
      BY <2>1, <2>4 DEF Commit
    <3> QED BY <1>3, <2>2, <3>1
  <2>5. CASE exit = "Queued" /\ Commit({i}, exit)
    <3>1. /\ status'[i] = "Queued"
          /\ \A j \in Rows \ {i} : status'[j] = status[j] /\ durable'[j] = durable[j]
      BY <1>1, <2>5, PutApply DEF Commit
    <3>2. RowsAreListed'
      BY <1>1, <2>2, <3>1 DEF RowsAreListed
    <3>3. NoFailedRecheck' => NoFailedRecheck
      BY <1>1, <2>1 DEF NoFailedRecheck, Fault
    <3>4. NoFailedRecheck' => QueuedRowsWait'
      BY <2>2, <2>3, <2>5, <3>1, <3>3 DEF Queueing, QueuedRowsWait
    <3> QED BY <3>2, <3>4 DEF Queueing
  <2> QED BY <2>4, <2>5
<1>7. ASSUME NEW i \in Rows, FinishParts(i) PROVE Queueing'
  <2>1. Leaves(i) /\ Commit({i}, "Completed") /\ (UNCHANGED faults \/ Fault)
    BY <1>7 DEF FinishParts
  <2>2. /\ i \in Entries(created) /\ UNCHANGED <<queue, created, target>>
        /\ loop' \notin {"stop", "off"} => loop \notin {"stop", "off"}
        /\ loop' = "recheck" <=> loop = "recheck"
    BY <1>1, <2>1, ExitingRow DEF RowsAreListed, Running
  <2> QED BY <1>3, <2>1, <2>2 DEF Commit
<1>8. CASE FinishPackage
  <2>1. /\ UNCHANGED <<status, durable, created, queue, target>> /\ (UNCHANGED faults \/ Fault)
        /\ loop' = IF loop = "select" THEN "scan" ELSE loop
    BY <1>8 DEF FinishPackage, Leaves, waitVars
  <2>2. NoFailedRecheck' => NoFailedRecheck
    BY <1>1, <2>1 DEF NoFailedRecheck, Fault
  <2> QED BY <1>1, <2>1, <2>2 DEF Queueing, RowsAreListed, QueuedRowsWait
<1>9. CASE StopWorker \/ Wake
  <2>1. /\ UNCHANGED <<status, durable, created, queue, target, faults>>
        /\ loop' = loop \/ (loop = "select" /\ loop' = "scan")
    BY <1>9 DEF StopWorker, Wake, rowVars, waitVars, boundVars
  <2> QED BY <1>1, <2>1 DEF Queueing, RowsAreListed, NoFailedRecheck, QueuedRowsWait
<1>10. CASE StopTimeout
  <2>1. /\ UNCHANGED <<status, durable, created, faults>> /\ queue' = QueueAfterTimeout
        /\ loop \in {"remove", "recheck"} /\ loop' = "scan"
    BY <1>10 DEF StopTimeout, AwaitsExit, Stopping, EndWait, rowVars, boundVars
  <2>2. /\ Entries(queue) \subseteq Entries(queue')
        /\ loop = "recheck" => target \in Entries(queue')
    BY <1>1, <2>1, AppendEntries DEF QueueAfterTimeout, RowsAreListed
  <2> QED BY <1>1, <2>1, <2>2
          DEF Queueing, RowsAreListed, NoFailedRecheck, QueuedRowsWait
<1>11. CASE RemoveRows
  <2> DEFINE I == IF target = Pkg THEN PartSet ELSE {target}
  <2>1. /\ loop = "remove" /\ loop' = "scan" /\ UNCHANGED faults
        /\ \/ Commit(I, "Gone") /\ created' = Retain(created, Rows \ I)
                                /\ queue' = Retain(queue, Rows \ I)
           \/ UNCHANGED <<status, durable, created, queue>>
    BY <1>11 DEF RemoveRows, EndWait, rowVars, boundVars
  <2> HIDE DEF I
  <2>2. CASE UNCHANGED <<status, durable, created, queue>>
    BY <1>1, <2>1, <2>2 DEF Queueing, RowsAreListed, NoFailedRecheck, QueuedRowsWait
  <2>3. CASE Commit(I, "Gone") /\ created' = Retain(created, Rows \ I)
                               /\ queue' = Retain(queue, Rows \ I)
    <3>1. \A i \in Rows : IF i \in I THEN status'[i] = "Gone" /\ durable'[i] = "Gone"
                          ELSE status'[i] = status[i] /\ durable'[i] = durable[i]
      BY <1>1, <2>3, PutApply DEF Commit
    <3>2. /\ Entries(created') = Entries(created) \cap (Rows \ I)
          /\ Entries(queue') = Entries(queue) \cap (Rows \ I)
      BY <1>1, <2>3, RetainProperties
    <3>3. RowsAreListed'
      BY <1>1, <2>1, <3>1, <3>2 DEF RowsAreListed, Absent
    <3>4. NoFailedRecheck' => QueuedRowsWait'
      BY <2>1, <3>1, <3>2 DEF Queueing, NoFailedRecheck, QueuedRowsWait
    <3> QED BY <3>3, <3>4 DEF Queueing
  <2> QED BY <2>1, <2>2, <2>3
<1>12. CASE Recheck
  <2>1. /\ loop = "recheck" /\ loop' = "scan" /\ UNCHANGED created
        /\ \/ queue' = Append(queue, target) /\ UNCHANGED <<status, durable, faults>>
           \/ Commit({target}, "Error") /\ UNCHANGED <<queue, faults>>
           \/ Fault /\ UNCHANGED <<status, durable, queue>>
    BY <1>12 DEF Recheck, EndWait
  <2>2. target \in Torrent /\ target \in Rows /\ target \in Entries(created)
    BY <1>1, <2>1 DEF RowsAreListed
  <2>3. CASE queue' = Append(queue, target) /\ UNCHANGED <<status, durable, faults>>
    <3>1. Entries(queue') = Entries(queue) \cup {target}
      BY <1>1, <2>2, <2>3, AppendEntries
    <3> QED BY <1>1, <2>1, <2>3, <3>1
            DEF Queueing, RowsAreListed, NoFailedRecheck, QueuedRowsWait
  <2>4. CASE Commit({target}, "Error") /\ UNCHANGED <<queue, faults>>
    BY <1>3, <2>1, <2>2, <2>4 DEF Commit
  <2>5. CASE Fault /\ UNCHANGED <<status, durable, queue>>
    <3>1. ~NoFailedRecheck'
      BY <1>1, <2>2, <2>5 DEF NoFailedRecheck, Fault
    <3> QED BY <1>1, <2>1, <2>5, <3>1 DEF Queueing, RowsAreListed
  <2> QED BY <2>1, <2>3, <2>4, <2>5
<1>13. CASE Stopped
  BY <1>1, <1>13 DEF Stopped, rowVars, Queueing, RowsAreListed, QueuedRowsWait
<1> QED BY <1>4, <1>5, <1>6, <1>7, <1>8, <1>9, <1>10, <1>11, <1>12, <1>13, Loop DEF Loop

LEMMA QueueRestart == IInv /\ Queueing /\ Restart => Queueing'
<1> SUFFICES ASSUME IInv, Queueing, Restart PROVE Queueing'
  OBVIOUS
<1>1. /\ durable \in [Rows -> Statuses] /\ created \in Seq(Rows) /\ RowsAreListed
  BY DEF IInv, TypeOK, Queueing
<1>2. /\ \A i \in Rows : status'[i] = RestoredStatus(durable[i])
      /\ \A i \in Rows : durable'[i] \notin Absent => durable[i] \notin Absent
      /\ Entries(queue') = Entries(created) \cap {i \in Rows : durable[i] \in Requeued}
      /\ UNCHANGED created /\ loop' = "scan"
  <2> DEFINE I == {i \in Rows : durable[i] = "Extracting"}
             J == {i \in Rows : durable[i] \in Requeued}
  <2>1. /\ durable' = Put(durable, I, "ExtractError") /\ queue' = Retain(created, J)
        /\ status' = [i \in Rows |-> RestoredStatus(durable[i])]
        /\ UNCHANGED created /\ loop' = "scan"
    BY DEF Restart, EndWait
  <2>2. \A i \in I : durable[i] = "Extracting"
    OBVIOUS
  <2> HIDE DEF I
  <2>3. \A i \in Rows : durable'[i] \notin Absent => durable[i] \notin Absent
    BY <1>1, <2>1, <2>2, PutApply DEF Absent
  <2>4. Entries(queue') = Entries(created) \cap J
    <3> HIDE DEF J
    <3> QED BY <1>1, <2>1, RetainProperties
  <2> QED BY <2>1, <2>3, <2>4
<1>3. \A i \in Rows : /\ status'[i] \notin Absent => durable[i] \notin Absent
                      /\ status'[i] = "Queued" => durable[i] \in Requeued
  BY <1>1, <1>2 DEF RestoredStatus, Requeued, Absent
<1>4. \A i \in Rows : durable[i] \in Requeued => i \in Entries(created)
  BY <1>1 DEF RowsAreListed, Requeued, Absent
<1> QED BY <1>1, <1>2, <1>3, <1>4 DEF Queueing, RowsAreListed, QueuedRowsWait

LEMMA QueueStep == IInv /\ Queueing /\ [Next]_vars => Queueing'
<1> SUFFICES ASSUME IInv, Queueing, [Next]_vars PROVE Queueing'
  OBVIOUS
<1>1. CASE Task
  <2>1. /\ \A i \in Rows : status'[i] = "Queued" => status[i] = "Queued"
        /\ UNCHANGED <<durable, queue, loop, target, faults>>
    BY <1>1, TaskPermits, TaskKeeps DEF IInv
  <2>2. UNCHANGED created
    BY <1>1, Task DEF Task, Report, Track, DropSlot, Return, SendExit, rowVars
  <2>3. \A i \in Rows : status'[i] \notin Absent => status[i] \notin Absent
    <3>1. /\ DOMAIN status = Rows
          /\ \A i \in Rows : worker[i] \in Worker
      BY Identities DEF IInv, TypeOK
    <3>2. ASSUME NEW i \in Rows, Track(i), NEW j \in Rows, status'[j] \notin Absent
          PROVE  status[j] \notin Absent
      BY <3>1, <3>2, PutApply DEF Track, Active, Absent
    <3>3. Task /\ ~(\E i \in Rows : Track(i)) => UNCHANGED status
      BY DEF Task, Report, DropSlot, Return, SendExit, rowVars
    <3> QED BY <1>1, <3>2, <3>3
  <2> QED BY <2>1, <2>2, <2>3 DEF Queueing, RowsAreListed, NoFailedRecheck, QueuedRowsWait
<1>2. CASE UNCHANGED vars
  BY <1>2 DEF vars, rowVars, waitVars, boundVars, Queueing, RowsAreListed,
              NoFailedRecheck, QueuedRowsWait
<1> QED BY <1>1, <1>2, QueueCommand, QueueLoop, QueueRestart DEF Next

(* While no write has failed, or no row is a torrent, every queued row      *)
(* stands in the queue.  A recheck that fails twice loses its row: it stays *)
(* Queued and is not pushed (engine.rs:947).                                *)
THEOREM NoRowIsForgotten == Spec => [](NoFailedRecheck => QueuedRowsWait)
<1>1. Init => Queueing
  BY DEF Init, Queueing, RowsAreListed, QueuedRowsWait, Absent
<1> QED BY <1>1, QueueStep, Invariance, PTL DEF Spec, Queueing

-----------------------------------------------------------------------------
(* The archive set. *)

(* An HTTP row never seeds, and has no worker once it is Completed. *)
HttpRowsEnd ==
  \A i \in Http :
    /\ status[i] # "Seeding" /\ worker[i].report # "Seeding"
    /\ status[i] = "Completed" => Idle(i)

(* While the set is extracted all its parts are Completed. *)
PartsStay == ~Idle(Pkg) => \A i \in PartSet : status[i] = "Completed"

Finished == HttpRowsEnd /\ PartsStay

LEMMA HttpRows ==
  /\ Http \subseteq Rows /\ PartSet \subseteq Http /\ Http \cap Torrent = {}
  /\ Pkg \notin Http /\ Http \subseteq WorkerIds /\ Pkg \in WorkerIds
<1>1. \A n \in DOMAIN Parts : Parts[n] \in Http
  BY EngineAssumption, ElementOfSeq, LenProperties
<1> QED BY <1>1, Identities, EngineAssumption DEF Rows, PartSet, Entries

(* A row gets a worker only with an active status. *)
LEMMA NewWorkerIsActive ==
  ASSUME IInv, [Next]_vars, NEW i \in Rows, Idle(i), ~Idle(i)'
  PROVE  status'[i] \in Active
<1>1. /\ TypeOK /\ i \in WorkerIds /\ i # Pkg /\ DOMAIN worker = WorkerIds
      /\ DOMAIN status = Rows /\ NoWorker.job = "none"
  BY Identities DEF IInv, TypeOK, NoWorker
<1>2. worker' # worker
  BY DEF Idle
<1>3. \A W : worker' # Cancelled(W)
  BY <1>1, CancelledProperties DEF Idle
<1>4. \A v \in WorkerIds : \A r : worker' = [worker EXCEPT ![v] = r] => v = i
  BY <1>1 DEF Idle
<1>5. CASE Command
  <2>1. ASSUME NEW j \in Rows, RetryExtract(j) PROVE status'[i] \in Active
    <3>1. j = i
      BY <1>4, <2>1, Identities DEF RetryExtract
    <3> QED BY <1>1, <2>1, <3>1, PutApply DEF RetryExtract, Commit, Active
  <2>2. ASSUME RetryPackageExtract PROVE FALSE
    BY <1>1, <1>4, <2>2, Identities DEF RetryPackageExtract
  <2> QED BY <1>2, <1>3, <1>5, <2>1, <2>2, Command
          DEF Command, Add, AddArchiveSet, Insert, Pause, Resume, Retry, Requeue, Cancel,
              CancelExtraction, StopSeeding, PauseAll, ResumeAll, SetConfig, Interrupt,
              Remove, ForceRecheck, Shutdown
<1>6. CASE Loop
  <2>1. CASE Start
    <3>1. PICK n \in DOMAIN Pruned :
            /\ Commit({Pruned[n]}, "Starting")
            /\ worker' = [worker EXCEPT ![Pruned[n]] = Spawned("download")]
      BY <1>2, <2>1 DEF Start
    <3>2. Pruned[n] = i
      BY <1>1, <3>1 DEF Idle
    <3> QED BY <1>1, <3>1, <3>2, PutApply DEF Commit, Active
  <2>2. ASSUME NEW j \in WorkerIds, NEW r,
               \/ worker' = [worker EXCEPT ![j] = NoWorker]
               \/ worker' = [worker EXCEPT ![j] = NoWorker, ![Pkg] = r]
        PROVE  FALSE
    BY <1>1, <2>2 DEF Idle
  <2>3. ~Stopped
    BY <1>1 DEF Stopped, Idle
  <2> QED BY <1>2, <1>3, <1>6, <2>1, <2>2, <2>3, Identities, Loop
          DEF Loop, ScanDone, Wake, Finish, FinishParts, FinishPackage, StopWorker,
              StopTimeout, RemoveRows, Recheck
<1>7. CASE Task
  BY <1>1, <1>7, TaskKeeps DEF Kept, Idle
<1>8. CASE Restart
  BY <1>1, <1>8 DEF Restart, Idle
<1> QED BY <1>2, <1>5, <1>6, <1>7, <1>8 DEF Next, vars

(* No step makes an HTTP worker report that it seeds. *)
LEMMA HttpReports ==
  ASSUME IInv, [Next]_vars, NEW i \in Http, worker[i].report # "Seeding"
  PROVE  worker'[i].report # "Seeding"
<1>1. /\ TypeOK /\ DOMAIN worker = WorkerIds /\ i \in WorkerIds /\ i \notin Torrent
      /\ NoWorker.report = "none" /\ \A job : Spawned(job).report = "none"
      /\ \A v \in WorkerIds : worker[v] \in Worker
  BY HttpRows DEF IInv, TypeOK, NoWorker, Spawned
<1>2. UNCHANGED worker => worker'[i].report # "Seeding"
  OBVIOUS
<1>3. \A W : worker' = Cancelled(W) => worker'[i].report # "Seeding"
  BY <1>1, CancelledProperties
<1>4. ASSUME NEW v \in WorkerIds, NEW r, r.report # "Seeding",
             worker' = [worker EXCEPT ![v] = r]
      PROVE  worker'[i].report # "Seeding"
  BY <1>1, <1>4
<1>5. CASE Command
  BY <1>1, <1>2, <1>3, <1>4, <1>5, Identities, Command
     DEF Command, Add, AddArchiveSet, Insert, Pause, Resume, Retry, Requeue, Cancel,
         CancelExtraction, StopSeeding, RetryExtract, PauseAll, ResumeAll, SetConfig,
         RetryPackageExtract, Interrupt, Remove, ForceRecheck, Shutdown
<1>6. CASE Loop
  <2>1. CASE Start
    <3>1. PICK n \in DOMAIN Pruned :
            \/ worker' = [worker EXCEPT ![Pruned[n]] = Spawned("download")]
            \/ UNCHANGED worker
      BY <2>1 DEF Start
    <3> QED BY <1>1, <3>1
  <2>2. ASSUME NEW j \in WorkerIds,
               \/ worker' = [worker EXCEPT ![j] = NoWorker]
               \/ worker' = [worker EXCEPT ![j] = NoWorker, ![Pkg] = Spawned("extract")]
        PROVE  worker'[i].report # "Seeding"
    BY <1>1, <2>2, HttpRows
  <2>3. Stopped => worker'[i].report # "Seeding"
    BY <1>1 DEF Stopped
  <2> QED BY <1>2, <1>3, <1>6, <2>1, <2>2, <2>3, Identities, Loop
          DEF Loop, ScanDone, Wake, Finish, FinishParts, FinishPackage, StopWorker,
              StopTimeout, RemoveRows, Recheck
<1>7. CASE Task
  <2>1. ASSUME NEW j \in Rows, NEW p \in Active, Report(j, p) PROVE worker'[i].report # "Seeding"
    <3>1. p = "Seeding" => j \in Torrent
      BY <2>1 DEF Report, Follows
    <3>2. worker' = [worker EXCEPT ![j] = [worker[j] EXCEPT !.phase = p, !.report = p]]
      BY <2>1 DEF Report
    <3>3. CASE j = i
      <4>1. [worker[j] EXCEPT !.phase = p, !.report = p].report = p
        BY <1>1, <3>3 DEF Worker
      <4> QED BY <1>1, <3>1, <3>2, <3>3, <4>1
    <3>4. CASE j # i
      BY <1>1, <3>2, <3>4
    <3> QED BY <3>3, <3>4
  <2>2. ASSUME NEW j \in Rows, Track(j) PROVE worker'[i].report # "Seeding"
    <3>1. [worker[j] EXCEPT !.report = "none"].report = "none" /\ j \in WorkerIds
      BY <1>1, Identities DEF Worker
    <3>2. worker' = [worker EXCEPT ![j] = [worker[j] EXCEPT !.report = "none"]]
      BY <2>2 DEF Track
    <3> QED BY <1>4, <3>1, <3>2
  <2>3. ASSUME NEW j \in Rows, DropSlot(j) PROVE worker'[i].report # "Seeding"
    <3>1. [worker[j] EXCEPT !.slot = FALSE].report = worker[j].report /\ j \in WorkerIds
      BY <1>1, Identities DEF Worker
    <3>2. worker' = [worker EXCEPT ![j] = [worker[j] EXCEPT !.slot = FALSE]]
      BY <2>3 DEF DropSlot
    <3> QED BY <1>1, <3>1, <3>2
  <2>4. ASSUME NEW w \in WorkerIds, NEW x \in Results \ {"none"}, Return(w, x)
        PROVE  worker'[i].report # "Seeding"
    <3> DEFINE r == [worker[w] EXCEPT !.phase = "returned", !.result = x, !.slot = FALSE]
    <3>1. r.report = worker[w].report
      BY <1>1 DEF Worker
    <3>2. worker' = [worker EXCEPT ![w] = r]
      BY <2>4 DEF Return
    <3> HIDE DEF r
    <3> QED BY <1>1, <3>1, <3>2
  <2>5. ASSUME NEW w \in WorkerIds, SendExit(w) PROVE worker'[i].report # "Seeding"
    <3> DEFINE r == [worker[w] EXCEPT !.phase = "exited"]
    <3>1. r.report = worker[w].report
      BY <1>1 DEF Worker
    <3>2. worker' = [worker EXCEPT ![w] = r]
      BY <2>5 DEF SendExit
    <3> HIDE DEF r
    <3> QED BY <1>1, <3>1, <3>2
  <2> QED BY <1>7, <2>1, <2>2, <2>3, <2>4, <2>5, Task DEF Task
<1>8. CASE Restart
  BY <1>1, <1>8 DEF Restart
<1> QED BY <1>2, <1>5, <1>6, <1>7, <1>8 DEF Next, vars

(* What a step does to the status of an HTTP row; a part stays Completed as *)
(* long as the set is extracted.                                            *)
HttpRowStep(i) ==
  /\ status'[i] # "Seeding"
  /\ status'[i] = "Completed" => Idle(i)'
  /\ i \in PartSet /\ status[i] = "Completed" /\ ~Idle(Pkg) /\ ~Idle(Pkg)'
       => status'[i] = "Completed"

LEMMA HttpRowSteps ==
  ASSUME IInv, Queueing, Finished, [Next]_vars, NEW i \in Http
  PROVE  HttpRowStep(i)
<1>1. /\ TypeOK /\ WaitCovers /\ DOMAIN worker = WorkerIds /\ DOMAIN status = Rows
      /\ i \in Rows /\ i \in WorkerIds /\ i \notin Torrent /\ i # Pkg
      /\ NoWorker.job = "none"
  BY HttpRows DEF IInv, TypeOK, NoWorker
<1>2. /\ status[i] # "Seeding" /\ worker[i].report # "Seeding"
      /\ status[i] = "Completed" => Idle(i)
  BY DEF Finished, HttpRowsEnd
<1>3. ASSUME status'[i] = status[i] PROVE HttpRowStep(i)
  BY <1>1, <1>2, <1>3, NewWorkerIsActive DEF HttpRowStep, Active
<1>4. CASE Command
  <2>1. PICK I, s : Settles(I, s)
    BY <1>4, CommandSettles
  <2>2. status'[i] = IF i \in I THEN s ELSE status[i]
    BY <1>1, <2>1, PutApply DEF Settles, Commit
  <2>3. CASE i \in I
    <3>1. s # "Seeding" /\ s # "Completed" /\ status[i] # "Completed"
      BY <1>1, <1>2, <2>1, <2>3 DEF Settles
    <3> QED BY <2>2, <2>3, <3>1 DEF HttpRowStep
  <2> QED BY <1>3, <2>2, <2>3
<1>5. CASE Start
  <2>1. PICK n \in DOMAIN Pruned :
          \/ Commit({Pruned[n]}, "Starting")
          \/ status' = Put(status, {Pruned[n]}, "Error")
    BY <1>5 DEF Start
  <2>2. status'[i] \in {status[i], "Starting", "Error"}
    BY <1>1, <2>1, PutApply DEF Commit
  <2>3. status[i] = "Completed" => status'[i] = status[i]
    <3>1. Pruned[n] \in {j \in Rows : status[j] = "Queued"}
      <4>1. Entries(Pruned) = Entries(queue) \cap {j \in Rows : status[j] = "Queued"}
        BY <1>1, RetainProperties DEF Pruned, TypeOK
      <4> QED BY <4>1 DEF Entries
    <3> QED BY <1>1, <2>1, <3>1, PutApply DEF Commit
  <2> QED BY <1>3, <2>2, <2>3 DEF HttpRowStep
<1>6. ASSUME NEW j \in Rows, NEW s, s \notin {"Seeding"}, Leaves(j),
             status' = Put(status, {j}, s), worker'[j] = NoWorker
      PROVE  HttpRowStep(i)
  <2>1. CASE j = i
    <3>1. status[i] # "Completed"
      BY <1>1, <1>2, <1>6, <2>1, ExitingRow
    <3> QED BY <1>1, <1>6, <2>1, <3>1, PutApply DEF HttpRowStep, Idle
  <2>2. CASE j # i
    BY <1>1, <1>3, <1>6, <2>2, PutApply
  <2> QED BY <2>1, <2>2
<1>7. ASSUME NEW j \in Rows, Finish(j) PROVE HttpRowStep(i)
  <2> DEFINE exit == ExitStatus(worker[j].job, status[j], worker[j].result,
                                worker[j].cancelled, loop = "stop")
  <2>1. exit \notin Active
    BY <1>1, Identities, ExitStatusSettled DEF TypeOK
  <2>2. /\ Leaves(j) /\ worker'[j] = NoWorker
        /\ status' = Put(status, {j}, exit) \/ status' = Put(status, {j}, "Error")
    BY <1>1, <1>7, Identities DEF Finish, WriteFails, Commit
  <2> HIDE DEF exit
  <2> QED BY <1>6, <2>1, <2>2 DEF Active
<1>8. ASSUME NEW j \in Rows, FinishParts(j) PROVE HttpRowStep(i)
  <2>1. /\ Leaves(j) /\ status' = Put(status, {j}, "Completed")
        /\ worker'[j] = NoWorker
    BY <1>1, <1>8, Identities DEF FinishParts, Commit
  <2> QED BY <1>6, <2>1
<1>9. CASE RemoveRows
  <2> DEFINE I == IF target = Pkg THEN PartSet ELSE {target}
  <2>1. /\ loop = "remove" /\ stops = <<>> /\ UNCHANGED worker
        /\ Commit(I, "Gone") \/ UNCHANGED status
    BY <1>9 DEF RemoveRows, rowVars
  <2>2. CASE Commit(I, "Gone")
    <3>1. status'[i] = IF i \in I THEN "Gone" ELSE status[i]
      BY <1>1, <2>2, PutApply DEF Commit
    <3>2. i \in I /\ i \in PartSet => Idle(Pkg)
      BY <1>1, <2>1 DEF WaitCovers, Watched, Entries
    <3> QED BY <1>3, <3>1, <3>2 DEF HttpRowStep
  <2> QED BY <1>3, <2>1, <2>2
<1>10. CASE Recheck
  <2>1. loop = "recheck" /\ (Commit({target}, "Error") \/ UNCHANGED status)
    BY <1>10 DEF Recheck
  <2>2. target # i
    BY <1>1, <2>1 DEF Queueing, RowsAreListed
  <2>3. status'[i] = status[i]
    BY <1>1, <2>1, <2>2, PutApply DEF Commit
  <2> QED BY <1>3, <2>3
<1>11. ASSUME NEW j \in Rows, Track(j) PROVE HttpRowStep(i)
  <2>1. worker[i].report # "none" => worker[i].report \in Active
    <3>1. worker[i] \in Worker
      BY <1>1 DEF TypeOK
    <3> QED BY <3>1 DEF Worker
  <2>2. CASE j = i /\ status[i] \in Active
    <3>1. status'[i] = worker[i].report /\ status'[i] \in Active
      BY <1>1, <1>11, <2>1, <2>2, PutApply DEF Track
    <3>2. "Completed" \notin Active
      BY DEF Active
    <3> QED BY <1>2, <2>2, <3>1, <3>2 DEF HttpRowStep
  <2>3. CASE ~(j = i /\ status[i] \in Active)
    <3>1. status'[i] = status[i]
      BY <1>1, <1>11, <2>3, PutApply DEF Track
    <3> QED BY <1>3, <3>1
  <2> QED BY <2>2, <2>3
<1>12. CASE Restart
  <2>1. worker'[i] = NoWorker /\ worker'[Pkg] = NoWorker
        /\ status'[i] = RestoredStatus(durable[i]) /\ durable[i] \in Statuses
    BY <1>1, <1>12, Identities DEF Restart, TypeOK
  <2>2. status'[i] # "Seeding"
    BY <2>1 DEF RestoredStatus, Requeued
  <2> QED BY <1>1, <2>1, <2>2 DEF HttpRowStep, Idle
<1>13. ASSUME UNCHANGED status PROVE HttpRowStep(i)
  BY <1>3, <1>13
<1>14. CASE Loop
  BY <1>5, <1>7, <1>8, <1>9, <1>10, <1>13, <1>14, Loop
     DEF Loop, ScanDone, Wake, FinishPackage, StopWorker, StopTimeout, Stopped, rowVars
<1>15. CASE Task
  BY <1>11, <1>13, <1>15, Task DEF Task, Report, DropSlot, Return, SendExit, rowVars
<1> QED BY <1>4, <1>12, <1>13, <1>14, <1>15 DEF Next, vars, rowVars

(* The extraction starts when every part is Completed. *)
LEMMA SetIsReady ==
  ASSUME IInv, [Next]_vars, Idle(Pkg), ~Idle(Pkg)', NEW i \in PartSet
  PROVE  status'[i] = "Completed"
<1>1. /\ TypeOK /\ i \in Rows /\ Pkg \in WorkerIds /\ Pkg \notin Rows
      /\ DOMAIN worker = WorkerIds /\ DOMAIN status = Rows /\ NoWorker.job = "none"
  BY Identities DEF IInv, TypeOK, NoWorker
<1>2. worker' # worker
  BY DEF Idle
<1>3. \A W : worker' # Cancelled(W)
  BY <1>1, CancelledProperties DEF Idle
<1>4. \A v \in Rows : \A r : worker' # [worker EXCEPT ![v] = r]
  BY <1>1 DEF Idle
<1>5. CASE Command
  <2>1. RetryPackageExtract => status'[i] = "Completed"
    BY <1>1 DEF RetryPackageExtract, PackageReady, rowVars
  <2> QED BY <1>2, <1>3, <1>4, <1>5, <2>1, Command
          DEF Command, Add, AddArchiveSet, Insert, Pause, Resume, Retry, Requeue, Cancel,
              CancelExtraction, StopSeeding, RetryExtract, PauseAll, ResumeAll, SetConfig,
              Interrupt, Remove, ForceRecheck, Shutdown
<1>6. CASE Loop
  <2>1. ~Start
    <3> SUFFICES ASSUME Start PROVE FALSE
      OBVIOUS
    <3>1. PICK n \in DOMAIN Pruned :
            worker' = [worker EXCEPT ![Pruned[n]] = Spawned("download")]
      BY <1>2 DEF Start
    <3>2. Pruned[n] \in Rows
      <4>1. Pruned \in Seq(Rows)
        BY <1>1, RetainProperties DEF Pruned, TypeOK
      <4> QED BY <4>1, ElementOfSeq, LenProperties
    <3> QED BY <1>4, <3>1, <3>2
  <2>2. ASSUME NEW j \in Rows, FinishParts(j) PROVE status'[i] = "Completed"
    <3> DEFINE exit == ExitStatus(worker[j].job, status[j], worker[j].result,
                                  worker[j].cancelled, loop = "stop")
    <3>1. Commit({j}, "Completed") /\ PartsDone(j, exit)
      BY <2>2 DEF FinishParts
    <3> HIDE DEF exit
    <3>2. Put(status, {j}, exit)[i] = "Completed"
      BY <3>1 DEF PartsDone, PackageReady
    <3> QED BY <1>1, <3>1, <3>2, PutApply DEF Commit
  <2>3. ~Stopped /\ ~FinishPackage
    BY <1>1 DEF Stopped, FinishPackage, Idle
  <2> QED BY <1>2, <1>3, <1>4, <1>6, <2>1, <2>2, <2>3, Loop
          DEF Loop, ScanDone, Wake, Finish, StopWorker, StopTimeout, RemoveRows, Recheck
<1>7. CASE Task
  BY <1>1, <1>7, TaskKeeps DEF Kept, Idle
<1>8. CASE Restart
  BY <1>1, <1>8 DEF Restart, Idle
<1> QED BY <1>2, <1>5, <1>6, <1>7, <1>8 DEF Next, vars

LEMMA FinishedInit == Init => Queueing /\ Finished
<1> SUFFICES ASSUME Init PROVE Queueing /\ Finished
  OBVIOUS
<1>1. \A w \in WorkerIds : worker[w].job = "none" /\ worker[w].report = "none"
  BY DEF Init, NoWorker
<1> QED BY <1>1, HttpRows
        DEF Init, Queueing, RowsAreListed, QueuedRowsWait, Absent, Finished, HttpRowsEnd,
            PartsStay, Idle

LEMMA FinishedNext == IInv /\ Queueing /\ Finished /\ [Next]_vars => Finished'
<1> SUFFICES ASSUME IInv, Queueing, Finished, [Next]_vars PROVE Finished'
  OBVIOUS
<1>1. \A i \in Http : worker'[i].report # "Seeding" /\ HttpRowStep(i)
  BY HttpReports, HttpRowSteps DEF Finished, HttpRowsEnd
<1>2. HttpRowsEnd'
  BY <1>1 DEF HttpRowStep, HttpRowsEnd
<1>3. PartsStay'
  BY <1>1, SetIsReady, HttpRows DEF Finished, PartsStay, HttpRowStep
<1> QED BY <1>2, <1>3 DEF Finished

(* The archive set is never extracted from a part that is missing, at work  *)
(* or about to be removed.                                                  *)
THEOREM ExtractsFinishedParts == Spec => []ExtractionHasAllParts
<1>1. Finished => ExtractionHasAllParts
  BY HttpRows DEF Finished, PartsStay, HttpRowsEnd, ExtractionHasAllParts
<1> QED BY <1>1, FinishedInit, FinishedNext, QueueStep, Invariance, PTL DEF Spec

-----------------------------------------------------------------------------
(* What a user sees of the rows.                                           *)

(* A row is in the database exactly when it is in memory. *)
RowsAreRecorded == Running => \A i \in Rows : \A s \in Absent : durable[i] = s <=> status[i] = s

(* So is the archive set, with an extraction that a crash would end. *)
SetIsRecorded ==
  Running => RestoredPackage(durablePkg) = IF pkg = "Extracting" THEN "Error" ELSE pkg

(* The archive set has parts, which come and go with it. *)
SetIsWhole ==
  /\ durablePkg # "New" => PartSet # {}
  /\ \A i \in PartSet : \A s \in Absent : durable[i] = s <=> durablePkg = s

(* What a command waits to remove is there until the wait is over, and the  *)
(* row of a recheck stays Queued unless its worker was done before.         *)
TargetIsPresent ==
  /\ loop = "remove" => IF target = Pkg THEN pkg \notin Absent ELSE status[target] \notin Absent
  /\ loop = "recheck" =>
       target \in Torrent /\ status[target] \in {"Queued", "Completed", "Error"}

(* A row that is only extracted shows no other phase. *)
ExtractsShow ==
  \A i \in Rows : worker[i].job = "extract" /\ status[i] \in Active => status[i] = "Extracting"

LifeInv ==
  RowsAreRecorded /\ SetIsRecorded /\ SetIsWhole /\ TargetIsPresent /\ ExtractsShow

LEMMA Presence ==
  /\ \A s \in Absent : s \notin Active
  /\ \A s \in {"Queued", "Paused", "Cancelled", "Completed", "Extracting", "Starting",
               "Error", "ExtractError"} : s \notin Absent
  /\ "Extracting" \in Active
  /\ \A s \in {"Queued", "Paused", "Cancelled", "Completed", "Error", "Gone", "New"} :
       s \notin Active
BY DEF Absent, Active

(* Rows get a status, in the database and in memory. *)
LEMMA RecordsCommit ==
  ASSUME TypeOK, RowsAreRecorded, Running, NEW I, NEW s, Commit(I, s)
  PROVE  RowsAreRecorded'
BY PutApply DEF RowsAreRecorded, Commit, TypeOK

(* A row that is there says Error, whether or not that is recorded. *)
LEMMA RecordsError ==
  ASSUME TypeOK, RowsAreRecorded, Running, NEW i \in Rows, status[i] \notin Absent,
         status' = Put(status, {i}, "Error"),
         durable' \in {durable, Put(durable, {i}, "Error")}
  PROVE  /\ RowsAreRecorded'
         /\ \A j \in Rows : \A s \in Absent : durable'[j] = s <=> durable[j] = s
BY PutApply, Presence DEF RowsAreRecorded, TypeOK

(* Rows that are there stay. *)
LEMMA PartsStayWhole ==
  ASSUME TypeOK, RowsAreRecorded, SetIsWhole, Running, NEW I, NEW s, s \notin Absent,
         Commit(I, s), \A i \in I : i \in PartSet => status[i] \notin Absent,
         UNCHANGED durablePkg
  PROVE  SetIsWhole'
<1>1. \A i \in PartSet : durable'[i] = IF i \in I THEN s ELSE durable[i]
  BY PutApply, Identities DEF Commit, TypeOK
<1> QED BY <1>1, Identities DEF SetIsWhole, RowsAreRecorded

(* The rows of a command, but for those it adds. *)
LEMMA CommandTargets ==
  ASSUME NEW id \in WorkerIds, NEW from, \A s \in Absent : s \notin from
  PROVE  /\ Targets(id, from) \subseteq Rows
         /\ \A i \in Targets(id, from) : status[i] \in from /\ status[i] \notin Absent
BY InOrderProperties DEF Targets

LEMMA CommandSets ==
  /\ \A s \in Absent : s \notin Pausable /\ s \notin Cancellable
  /\ \A s \in Absent : s \notin {"Paused", "Error"} /\ s \notin {"Error"}
BY DEF Absent, Pausable, Cancellable

(* The rows I, which are there, get status s. *)
Moves(I, s) ==
  /\ I \subseteq Rows /\ Commit(I, s) /\ s \notin Absent
  /\ \A i \in I : status[i] \notin Absent
  /\ UNCHANGED pkgVars
  /\ \/ /\ s \in {"Paused", "Queued", "Cancelled", "Completed"}
        /\ \E W : worker' = Cancelled(W)
        /\ \/ loop' = "scan"
           \/ \E i \in Torrent : ForceRecheck(i)
     \/ \E i \in Rows : RetryExtract(i)

(* A command that does not add rows moves rows that are there. *)
LEMMA CommandMoves ==
  ASSUME TypeOK, Command
  PROVE  \/ \E i \in Rows : Add(i)
         \/ AddArchiveSet
         \/ RetryPackageExtract
         \/ /\ UNCHANGED <<status, durable, pkgVars>>
            /\ \E W : worker' = Cancelled(W)
            /\ \/ loop' \notin {"remove", "recheck"}
               \/ \E id \in WorkerIds : Remove(id)
         \/ \E I, s : Moves(I, s)
<1>1. worker = Cancelled({})
  BY DEF Cancelled, TypeOK
<1>2. \A s \in {"Queued", "Paused", "Cancelled", "Completed", "Extracting"} : s \notin Absent
  BY Presence
<1>4. ASSUME NEW id \in WorkerIds, Pause(id) \/ Cancel(id) \/ Resume(id) \/ Retry(id)
      PROVE  \E I \in SUBSET Rows : \E s \in {"Paused", "Queued", "Cancelled", "Completed"} :
               /\ Commit(I, s) /\ \A i \in I : status[i] \notin Absent
               /\ UNCHANGED pkgVars /\ (\E W : worker' = Cancelled(W)) /\ loop' = "scan"
  <2>1. CASE Pause(id)
    BY <2>1, CommandTargets, CommandSets DEF Pause, RowCommand, Interrupt
  <2>2. CASE Cancel(id)
    BY <2>2, CommandTargets, CommandSets DEF Cancel, RowCommand, Interrupt
  <2>3. CASE Resume(id)
    BY <1>1, <2>3, CommandTargets, CommandSets DEF Resume, Requeue, RowCommand
  <2>4. CASE Retry(id)
    BY <1>1, <2>4, CommandTargets, CommandSets DEF Retry, Requeue, RowCommand
  <2> QED BY <1>4, <2>1, <2>2, <2>3, <2>4
<1>5. ASSUME PauseAll \/ ResumeAll \/ \E i \in Rows : StopSeeding(i)
      PROVE  \E I \in SUBSET Rows : \E s \in {"Paused", "Queued", "Cancelled", "Completed"} :
               /\ Commit(I, s) /\ \A i \in I : status[i] \notin Absent
               /\ UNCHANGED pkgVars /\ (\E W : worker' = Cancelled(W)) /\ loop' = "scan"
  <2>1. CASE PauseAll
    <3>1. \A i \in {j \in Rows : status[j] \in Pausable} : status[i] \notin Absent
      BY CommandSets
    <3> QED BY <2>1, <3>1 DEF PauseAll, RowCommand, Interrupt
  <2>2. CASE ResumeAll
    <3>1. \A i \in {j \in Rows : status[j] = "Paused"} : status[i] \notin Absent
      BY <1>2
    <3> QED BY <1>1, <2>2, <3>1 DEF ResumeAll, RowCommand
  <2>3. ASSUME NEW i \in Rows, StopSeeding(i)
        PROVE  \E I \in SUBSET Rows : \E s \in {"Paused", "Queued", "Cancelled", "Completed"} :
                 /\ Commit(I, s) /\ \A j \in I : status[j] \notin Absent
                 /\ UNCHANGED pkgVars /\ (\E W : worker' = Cancelled(W)) /\ loop' = "scan"
    <3>1. \A j \in {i} : status[j] \notin Absent
      BY <2>3 DEF StopSeeding, Absent
    <3> QED BY <2>3, <3>1 DEF StopSeeding, RowCommand, Interrupt
  <2> QED BY <1>5, <2>1, <2>2, <2>3
<1>6. ASSUME NEW i \in Torrent, ForceRecheck(i)
      PROVE  Moves({i}, "Queued")
  BY <1>2, <1>6 DEF Moves, ForceRecheck, Rows, Absent
<1>7. ASSUME NEW i \in Rows, RetryExtract(i)
      PROVE  Moves({i}, "Extracting")
  BY <1>2, <1>7 DEF Moves, RetryExtract, RowCommand, Absent
<1>8. ASSUME \/ \E id \in WorkerIds : CancelExtraction(id)
             \/ \E n \in 1..MaxConcurrent : SetConfig(n)
             \/ Shutdown
      PROVE  /\ UNCHANGED <<status, durable, pkgVars>>
             /\ \E W : worker' = Cancelled(W)
             /\ loop' \notin {"remove", "recheck"}
  BY <1>1, <1>8 DEF CancelExtraction, SetConfig, Shutdown, RowCommand, rowVars
<1>9. ASSUME NEW id \in WorkerIds, Remove(id)
      PROVE  UNCHANGED <<status, durable, pkgVars>> /\ \E W : worker' = Cancelled(W)
  BY <1>1, <1>9 DEF Remove, rowVars
<1>10. \/ \E i \in Rows : Add(i)
       \/ AddArchiveSet \/ RetryPackageExtract
       \/ \E id \in WorkerIds : Pause(id) \/ Cancel(id) \/ Resume(id) \/ Retry(id)
       \/ PauseAll \/ ResumeAll \/ \E i \in Rows : StopSeeding(i)
       \/ \E i \in Torrent : ForceRecheck(i)
       \/ \E i \in Rows : RetryExtract(i)
       \/ \E id \in WorkerIds : CancelExtraction(id)
       \/ \E n \in 1..MaxConcurrent : SetConfig(n)
       \/ Shutdown
       \/ \E id \in WorkerIds : Remove(id)
  BY Command DEF Command
<1>11. CASE \E id \in WorkerIds : Pause(id) \/ Cancel(id) \/ Resume(id) \/ Retry(id)
  <2>1. PICK I \in SUBSET Rows, s \in {"Paused", "Queued", "Cancelled", "Completed"} :
          /\ Commit(I, s) /\ \A i \in I : status[i] \notin Absent
          /\ UNCHANGED pkgVars /\ (\E W : worker' = Cancelled(W)) /\ loop' = "scan"
    BY <1>4, <1>11
  <2>2. Moves(I, s)
    BY <1>2, <2>1 DEF Moves
  <2> QED BY <2>2
<1>12. CASE PauseAll \/ ResumeAll \/ \E i \in Rows : StopSeeding(i)
  <2>1. PICK I \in SUBSET Rows, s \in {"Paused", "Queued", "Cancelled", "Completed"} :
          /\ Commit(I, s) /\ \A i \in I : status[i] \notin Absent
          /\ UNCHANGED pkgVars /\ (\E W : worker' = Cancelled(W)) /\ loop' = "scan"
    BY <1>5, <1>12
  <2>2. Moves(I, s)
    BY <1>2, <2>1 DEF Moves
  <2> QED BY <2>2
<1>13. CASE \E i \in Torrent : ForceRecheck(i)
  BY <1>6, <1>13
<1>14. CASE \E i \in Rows : RetryExtract(i)
  BY <1>7, <1>14
<1>15. CASE \/ \E id \in WorkerIds : CancelExtraction(id)
            \/ \E n \in 1..MaxConcurrent : SetConfig(n)
            \/ Shutdown
  BY <1>8, <1>15
<1>16. CASE \E id \in WorkerIds : Remove(id)
  BY <1>9, <1>16
<1> QED BY <1>10, <1>11, <1>12, <1>13, <1>14, <1>15, <1>16

LEMMA LifeCommand == IInv /\ LifeInv /\ Command => LifeInv'
<1> SUFFICES ASSUME IInv, LifeInv, Command PROVE LifeInv'
  OBVIOUS
<1>1. /\ TypeOK /\ DOMAIN status = Rows /\ DOMAIN durable = Rows /\ DOMAIN worker = WorkerIds
      /\ Rows \subseteq WorkerIds /\ PartSet \subseteq Rows /\ Pkg \notin Rows
  BY Identities DEF IInv, TypeOK
<1>2. Running /\ loop = "select"
  BY CommandSettles DEF Pushes, Running
<1>3. RowsAreRecorded /\ SetIsRecorded /\ SetIsWhole /\ TargetIsPresent /\ ExtractsShow
  BY DEF LifeInv
<1>4. ASSUME NEW W, worker' = Cancelled(W) PROVE \A w \in WorkerIds : worker'[w].job = worker[w].job
  BY <1>1, <1>4, CancelledProperties
<1>5. ASSUME NEW I, I \subseteq Rows, Commit(I, "Queued"), worker' = worker, loop' = "scan"
      PROVE  RowsAreRecorded' /\ TargetIsPresent' /\ ExtractsShow'
  <2>1. \A i \in Rows : status'[i] = IF i \in I THEN "Queued" ELSE status[i]
    BY <1>1, <1>5, PutApply DEF Commit
  <2>2. ExtractsShow'
    BY <1>3, <1>5, <2>1, Presence DEF ExtractsShow
  <2> QED BY <1>1, <1>2, <1>3, <1>5, <2>2, RecordsCommit DEF TargetIsPresent
<1>6. ASSUME NEW i \in Rows, Add(i) PROVE LifeInv'
  <2>0. Entries(<<i>>) = {i}
    BY DEF Entries
  <2>1. /\ Commit({i}, "Queued") /\ worker' = worker /\ loop' = "scan" /\ i \notin PartSet
        /\ UNCHANGED <<pkg, durablePkg>>
    BY <1>6, <2>0 DEF Add, Insert, pkgVars
  <2>2. SetIsRecorded'
    BY <1>2, <1>3, <2>1 DEF SetIsRecorded
  <2>3. SetIsWhole'
    <3>1. "Queued" \notin Absent /\ \A j \in {i} : j \in PartSet => status[j] \notin Absent
      BY <2>1, Presence
    <3> QED BY <1>1, <1>2, <1>3, <2>1, <3>1, PartsStayWhole
  <2> QED BY <1>5, <2>1, <2>2, <2>3 DEF LifeInv
<1>7. ASSUME AddArchiveSet PROVE LifeInv'
  <2>1. /\ Commit(PartSet, "Queued") /\ worker' = worker /\ loop' = "scan" /\ Parts # <<>>
        /\ pkg' = "NotStarted" /\ durablePkg' = "NotStarted"
    BY <1>7 DEF AddArchiveSet, Insert, PartSet
  <2>2. SetIsRecorded'
    BY <2>1 DEF SetIsRecorded, RestoredPackage
  <2>3. PartSet # {}
    BY <2>1, EngineAssumption DEF PartSet, Entries
  <2>4. \A i \in PartSet : durable'[i] = "Queued"
    BY <1>1, <2>1, PutApply DEF Commit
  <2>5. SetIsWhole'
    BY <2>1, <2>3, <2>4 DEF SetIsWhole, Absent
  <2> QED BY <1>1, <1>5, <2>1, <2>2, <2>5 DEF LifeInv
<1>8. ASSUME RetryPackageExtract PROVE LifeInv'
  <2>1. /\ UNCHANGED <<status, durable>> /\ loop' = "scan"
        /\ pkg \notin {"Extracting"} \cup Absent
        /\ pkg' = "Extracting" /\ durablePkg' = "Extracting"
        /\ \A w \in Rows : worker'[w] = worker[w]
    BY <1>1, <1>8 DEF RetryPackageExtract, PackageReady, SetPackage, rowVars
  <2>2. SetIsRecorded'
    BY <2>1 DEF SetIsRecorded, RestoredPackage
  <2>3. durablePkg \notin Absent
    BY <1>2, <1>3, <2>1 DEF SetIsRecorded, RestoredPackage, Absent
  <2>4. SetIsWhole'
    BY <1>3, <2>1, <2>3 DEF SetIsWhole, Absent
  <2>5. RowsAreRecorded' /\ TargetIsPresent' /\ ExtractsShow'
    BY <1>2, <1>3, <2>1 DEF RowsAreRecorded, TargetIsPresent, ExtractsShow
  <2> QED BY <2>2, <2>4, <2>5 DEF LifeInv
<1>9. ASSUME UNCHANGED <<status, durable, pkgVars>>, NEW W, worker' = Cancelled(W),
             loop' \notin {"remove", "recheck"} \/ \E id \in WorkerIds : Remove(id)
      PROVE  LifeInv'
  <2>1. RowsAreRecorded' /\ SetIsRecorded' /\ SetIsWhole'
    BY <1>2, <1>3, <1>9 DEF RowsAreRecorded, SetIsRecorded, SetIsWhole, pkgVars
  <2>2. ExtractsShow'
    BY <1>1, <1>3, <1>4, <1>9 DEF ExtractsShow
  <2>3. TargetIsPresent'
    BY <1>9 DEF TargetIsPresent, Remove, pkgVars
  <2> QED BY <2>1, <2>2, <2>3 DEF LifeInv
<1>10. ASSUME NEW I, NEW s, I \subseteq Rows, Commit(I, s), s \notin Absent,
              \A i \in I : status[i] \notin Absent, UNCHANGED pkgVars
       PROVE  RowsAreRecorded' /\ SetIsRecorded' /\ SetIsWhole'
  BY <1>1, <1>2, <1>3, <1>10, RecordsCommit, PartsStayWhole DEF SetIsRecorded, pkgVars
<1>11. ASSUME NEW I, NEW s, Moves(I, s), ~\E i \in Rows : RetryExtract(i)
       PROVE  LifeInv'
  <2> USE DEF Moves
  <2>1. \A i \in Rows : status'[i] = IF i \in I THEN s ELSE status[i]
    BY <1>1, <1>11, PutApply DEF Commit
  <2>2. ExtractsShow'
    BY <1>1, <1>3, <1>4, <1>11, <2>1, Presence DEF ExtractsShow
  <2>3. ASSUME NEW i \in Torrent, ForceRecheck(i) PROVE TargetIsPresent'
    <3>1. target' = i /\ loop' = "recheck" /\ status' = Put(status, {i}, "Queued") /\ i \in Rows
      BY <2>3 DEF ForceRecheck, Commit, Rows
    <3> QED BY <1>1, <3>1, PutApply DEF TargetIsPresent
  <2>4. TargetIsPresent'
    BY <1>11, <2>3 DEF TargetIsPresent
  <2> QED BY <1>10, <1>11, <2>2, <2>4 DEF LifeInv
<1>12. ASSUME NEW I, NEW s, Moves(I, s), NEW i \in Rows, RetryExtract(i)
       PROVE  LifeInv'
  <2>1. /\ status' = Put(status, {i}, "Extracting") /\ loop' = "scan"
        /\ worker' = [worker EXCEPT ![i] = Spawned("extract")]
    BY <1>12 DEF RetryExtract, RowCommand, Commit
  <2>2. ExtractsShow'
    BY <1>1, <1>3, <2>1, PutApply DEF ExtractsShow
  <2>3. TargetIsPresent'
    BY <2>1 DEF TargetIsPresent
  <2> QED BY <1>10, <1>12, <2>2, <2>3 DEF LifeInv, Moves
<1> QED BY <1>1, <1>6, <1>7, <1>8, <1>9, <1>11, <1>12, CommandMoves

(* A row that the loop scans is Queued. *)
LEMMA PrunedRow ==
  ASSUME TypeOK, NEW n \in DOMAIN Pruned
  PROVE  Pruned[n] \in Rows /\ status[Pruned[n]] = "Queued"
<1>1. Entries(Pruned) = Entries(queue) \cap {j \in Rows : status[j] = "Queued"}
  BY RetainProperties DEF Pruned, TypeOK
<1> QED BY <1>1 DEF Entries

(* What an exit makes of a row, by what the row showed. *)
LEMMA ExitCases ==
  ASSUME IInv, ExtractsShow, NEW i \in Rows, Leaves(i)
  PROVE  LET exit == ExitStatus(worker[i].job, status[i], worker[i].result,
                                worker[i].cancelled, loop = "stop")
         IN  \/ exit = "Completed"
             \/ exit = status[i] /\ status[i] \notin Active
             \/ /\ status[i] \in Active /\ exit \in {"ExtractError", "PasswordRequired"}
             \/ /\ status[i] \in Active /\ worker[i].job = "download"
                /\ exit \in {"Error", "Cancelled"}
             \/ /\ status[i] \in Active /\ worker[i].job = "download" /\ loop = "stop"
                /\ exit = "Queued"
<1> DEFINE shutdown == loop = "stop"
           exit == ExitStatus(worker[i].job, status[i], worker[i].result,
                              worker[i].cancelled, shutdown)
<1> SUFFICES \/ exit = "Completed"
             \/ exit = status[i] /\ status[i] \notin Active
             \/ /\ status[i] \in Active /\ exit \in {"ExtractError", "PasswordRequired"}
             \/ /\ status[i] \in Active /\ worker[i].job = "download"
                /\ exit \in {"Error", "Cancelled"}
             \/ /\ status[i] \in Active /\ worker[i].job = "download" /\ shutdown
                /\ exit = "Queued"
  OBVIOUS
<1>1. /\ worker[i] \in Worker /\ ~Idle(i) /\ Running /\ status[i] \in Statuses
      /\ WorkersMatchRows
  BY ExitingRow, Identities DEF IInv, TypeOK, Agreement
<1>2. /\ worker[i].job \in {"download", "extract"} /\ worker[i].cancelled \in BOOLEAN
      /\ status[i] \in Active \/ worker[i].cancelled
      /\ worker[i].job = "extract" /\ status[i] \in Active => status[i] = "Extracting"
  BY <1>1 DEF Worker, Idle, WorkersMatchRows, ExtractsShow
<1>3. /\ worker[i].result = "ok" => exit = "Completed"
      /\ worker[i].result # "ok" /\ worker[i].cancelled
           => exit = CancelledStatus(worker[i].job, status[i], shutdown)
      /\ worker[i].result # "ok" /\ ~worker[i].cancelled
           => exit = FailedStatus(worker[i].job, worker[i].result)
  BY <1>2 DEF ExitStatus
<1> HIDE DEF shutdown, exit
<1>4. CASE worker[i].result = "ok"
  BY <1>3, <1>4
<1>5. CASE worker[i].result # "ok" /\ worker[i].cancelled
  <2>1. exit = CancelledStatus(worker[i].job, status[i], shutdown)
    BY <1>3, <1>5
  <2>2. CASE status[i] \notin Active
    BY <2>1, <2>2, Presence DEF CancelledStatus
  <2>3. CASE status[i] \in Active /\ shutdown /\ worker[i].job = "download"
    BY <2>1, <2>3 DEF CancelledStatus
  <2>4. CASE status[i] = "Extracting" /\ ~(shutdown /\ worker[i].job = "download")
    BY <2>1, <2>4, Presence DEF CancelledStatus
  <2>5. CASE /\ status[i] \in Active \ {"Extracting"}
             /\ ~(shutdown /\ worker[i].job = "download")
    BY <1>2, <2>1, <2>5 DEF CancelledStatus
  <2> QED BY <2>2, <2>3, <2>4, <2>5
<1>6. CASE worker[i].result # "ok" /\ ~worker[i].cancelled
  <2>1. exit = FailedStatus(worker[i].job, worker[i].result) /\ status[i] \in Active
    BY <1>2, <1>3, <1>6
  <2> QED BY <1>2, <2>1 DEF FailedStatus
<1> QED BY <1>2, <1>4, <1>5, <1>6

LEMMA LifeLoop == IInv /\ LifeInv /\ Loop => LifeInv'
<1> SUFFICES ASSUME IInv, LifeInv, Loop PROVE LifeInv'
  OBVIOUS
<1>1. /\ TypeOK /\ DOMAIN status = Rows /\ DOMAIN durable = Rows /\ DOMAIN worker = WorkerIds
      /\ Rows \subseteq WorkerIds /\ PartSet \subseteq Rows /\ Pkg \notin Rows /\ Pkg \in WorkerIds
      /\ WorkersMatchRows /\ WaitCovers /\ NoWorker.job = "none"
  BY Identities DEF IInv, TypeOK, Agreement, NoWorker
<1>2. RowsAreRecorded /\ SetIsRecorded /\ SetIsWhole /\ TargetIsPresent /\ ExtractsShow
  BY DEF LifeInv
<1>3. ASSUME NEW I, NEW s, I \subseteq Rows, Commit(I, s), s \notin Absent, Running,
             \A i \in I : status[i] \notin Absent
      PROVE  RowsAreRecorded' /\ (UNCHANGED durablePkg => SetIsWhole')
  BY <1>1, <1>2, <1>3, RecordsCommit, PartsStayWhole
<1>4. ASSUME UNCHANGED <<status, durable>>, loop # "off", UNCHANGED durablePkg
      PROVE  RowsAreRecorded' /\ SetIsWhole'
  BY <1>2, <1>4 DEF RowsAreRecorded, SetIsWhole, Running
<1>5. ASSUME UNCHANGED <<pkg, durablePkg>>, loop # "off" PROVE SetIsRecorded'
  BY <1>2, <1>5 DEF SetIsRecorded, Running
<1>6. CASE Start
  <2>1. PICK n \in DOMAIN Pruned :
          \/ /\ Commit({Pruned[n]}, "Starting")
             /\ worker' = [worker EXCEPT ![Pruned[n]] = Spawned("download")]
          \/ /\ status' = Put(status, {Pruned[n]}, "Error")
             /\ durable' \in {durable, Put(durable, {Pruned[n]}, "Error")}
             /\ UNCHANGED worker
    BY <1>6 DEF Start
  <2> DEFINE i == Pruned[n]
  <2>2. i \in Rows /\ status[i] = "Queued" /\ status[i] \notin Absent
    BY <1>1, PrunedRow DEF Absent
  <2>3. /\ loop = "scan" /\ loop' = "scan" /\ UNCHANGED <<pkg, durablePkg>> /\ Running
    BY <1>6 DEF Start, Scanning, pkgVars, Running
  <2> HIDE DEF i
  <2>4. RowsAreRecorded' /\ SetIsWhole'
    <3>1. CASE Commit({i}, "Starting")
      <4>1. "Starting" \notin Absent /\ {i} \subseteq Rows /\ \A j \in {i} : status[j] \notin Absent
        BY <2>2, Presence
      <4> QED BY <1>3, <2>3, <3>1, <4>1
    <3>2. CASE /\ status' = Put(status, {i}, "Error")
               /\ durable' \in {durable, Put(durable, {i}, "Error")}
      <4>1. /\ RowsAreRecorded'
            /\ \A j \in Rows : \A s \in Absent : durable'[j] = s <=> durable[j] = s
        BY <1>1, <1>2, <2>2, <2>3, <3>2, RecordsError
      <4> QED BY <1>1, <1>2, <2>3, <4>1 DEF SetIsWhole
    <3> QED BY <2>1, <3>1, <3>2 DEF i
  <2>5. ExtractsShow'
    <3>1. Spawned("download").job = "download"
      BY SpawnedSlot
    <3>2. CASE /\ Commit({i}, "Starting")
               /\ worker' = [worker EXCEPT ![i] = Spawned("download")]
      BY <1>1, <1>2, <2>2, <3>1, <3>2, PutApply DEF ExtractsShow, Commit
    <3>3. CASE status' = Put(status, {i}, "Error") /\ UNCHANGED worker
      BY <1>1, <1>2, <2>2, <3>3, PutApply, Presence DEF ExtractsShow
    <3> QED BY <2>1, <3>2, <3>3 DEF i
  <2> QED BY <1>5, <2>3, <2>4, <2>5 DEF LifeInv, TargetIsPresent
<1>7. CASE ScanDone \/ Wake \/ StopWorker \/ StopTimeout
  <2>1. /\ UNCHANGED <<status, durable, pkg, durablePkg>> /\ loop # "off"
        /\ loop' \in {"scan", "select"} \/ UNCHANGED <<loop, target>>
        /\ \E W : worker' = Cancelled(W)
    <3>1. worker = Cancelled({})
      BY <1>1 DEF Cancelled, TypeOK
    <3> QED BY <1>7, <3>1
            DEF ScanDone, Wake, StopWorker, StopTimeout, EndWait, rowVars, pkgVars, Scanning,
                Stopping, AwaitsExit
  <2>2. \A i \in Rows : worker'[i].job = worker[i].job
    BY <1>1, <2>1, CancelledProperties
  <2>3. TargetIsPresent'
    BY <1>2, <2>1 DEF TargetIsPresent
  <2>4. ExtractsShow'
    BY <1>2, <2>1, <2>2 DEF ExtractsShow
  <2> QED BY <1>4, <1>5, <2>1, <2>3, <2>4 DEF LifeInv
<1>8. ASSUME NEW i \in Rows, Leaves(i), NEW s \in Statuses, s \notin Active \cup Absent,
             Commit({i}, s) \/ (s = "Error" /\ status' = Put(status, {i}, s) /\ UNCHANGED durable),
             worker'[i] = NoWorker, \A j \in Rows \ {i} : worker'[j] = worker[j],
             loop = "recheck" /\ target = i => s \in {"Queued", "Completed", "Error"}
      PROVE  /\ RowsAreRecorded' /\ ExtractsShow'
             /\ (pkg \notin Absent => pkg' \notin Absent) => TargetIsPresent'
             /\ UNCHANGED durablePkg => SetIsWhole'
  <2>1. /\ status[i] \notin Absent /\ Running /\ UNCHANGED target
        /\ loop' \in {"scan", loop} /\ {i} \subseteq Rows
        /\ \A j \in {i} : status[j] \notin Absent
    BY <1>8, ExitingRow DEF Leaves
  <2>2. RowsAreRecorded' /\ (UNCHANGED durablePkg => SetIsWhole')
    <3>1. CASE Commit({i}, s)
      BY <1>3, <1>8, <2>1, <3>1
    <3>2. CASE s = "Error" /\ status' = Put(status, {i}, s) /\ UNCHANGED durable
      <4>1. /\ RowsAreRecorded'
            /\ \A j \in Rows : \A t \in Absent : durable'[j] = t <=> durable[j] = t
        BY <1>1, <1>2, <2>1, <3>2, RecordsError
      <4> QED BY <1>1, <1>2, <4>1 DEF SetIsWhole
    <3> QED BY <1>8, <3>1, <3>2
  <2>3. \A j \in Rows : status'[j] = IF j = i THEN s ELSE status[j]
    BY <1>1, <1>8, PutApply DEF Commit
  <2>4. ExtractsShow'
    BY <1>1, <1>2, <1>8, <2>3 DEF ExtractsShow
  <2>5. ASSUME pkg \notin Absent => pkg' \notin Absent PROVE TargetIsPresent'
    <3>1. ASSUME loop' = "remove" PROVE (IF target' = Pkg THEN pkg' \notin Absent
                                         ELSE status'[target'] \notin Absent)
      BY <1>1, <1>2, <1>8, <2>1, <2>3, <2>5, <3>1 DEF TargetIsPresent, TypeOK, WorkerIds
    <3>2. ASSUME loop' = "recheck"
          PROVE target' \in Torrent /\ status'[target'] \in {"Queued", "Completed", "Error"}
      BY <1>1, <1>2, <1>8, <2>1, <2>3, <3>2 DEF TargetIsPresent, Rows
    <3> QED BY <3>1, <3>2 DEF TargetIsPresent
  <2> QED BY <2>2, <2>4, <2>5
<1>9. ASSUME NEW i \in Rows, Finish(i) PROVE LifeInv'
  <2> DEFINE exit == ExitStatus(worker[i].job, status[i], worker[i].result,
                                worker[i].cancelled, loop = "stop")
  <2>1. /\ exit \in Statuses /\ exit \notin Active
        /\ exit \notin Absent
        /\ loop = "recheck" /\ target = i => exit \in {"Queued", "Completed", "Error"}
    <3>1. Leaves(i)
      BY <1>9 DEF Finish
    <3>2. status[i] \notin Absent
      BY <3>1, ExitingRow
    <3>3. exit \in Statuses /\ exit \notin Active
      BY <1>1, ExitStatusSettled
    <3>4. \/ exit = "Completed"
          \/ exit = status[i]
          \/ /\ status[i] \in Active
             /\ exit \in {"ExtractError", "PasswordRequired", "Error", "Cancelled", "Queued"}
      BY <1>2, <3>1, ExitCases
    <3>5. loop = "recheck" /\ target = i => status[i] \in {"Queued", "Completed", "Error"}
      BY <1>2 DEF TargetIsPresent
    <3> HIDE DEF exit
    <3> QED BY <3>2, <3>3, <3>4, <3>5, Presence DEF Absent
  <2>2. /\ Leaves(i) /\ worker'[i] = NoWorker /\ (\A j \in Rows \ {i} : worker'[j] = worker[j])
        /\ \/ Commit({i}, exit)
           \/ status' = Put(status, {i}, "Error") /\ UNCHANGED durable
        /\ UNCHANGED <<pkg, durablePkg>> /\ loop # "off"
    BY <1>1, <1>9 DEF Finish, WriteFails, pkgVars, Leaves, Receiving, AwaitsExit, Stopping
  <2> HIDE DEF exit
  <2>3. "Error" \in Statuses /\ "Error" \notin Active \cup Absent
    BY DEF Statuses, Active, Absent
  <2>4. RowsAreRecorded' /\ ExtractsShow' /\ TargetIsPresent' /\ SetIsWhole'
    <3>1. CASE Commit({i}, exit)
      BY <1>8, <2>1, <2>2, <3>1
    <3>2. CASE status' = Put(status, {i}, "Error") /\ UNCHANGED durable
      BY <1>8, <2>2, <2>3, <3>2
    <3> QED BY <2>2, <3>1, <3>2
  <2> QED BY <1>5, <2>2, <2>4 DEF LifeInv
<1>10. ASSUME NEW i \in Rows, FinishParts(i) PROVE LifeInv'
  <2>1. /\ Leaves(i) /\ worker'[i] = NoWorker /\ (\A j \in Rows \ {i} : worker'[j] = worker[j])
        /\ Commit({i}, "Completed") /\ loop # "off" /\ i \in PartSet
        /\ \/ pkg' = "Extracting" /\ durablePkg' = "Extracting"
           \/ UNCHANGED <<pkg, durablePkg>>
        /\ pkg \notin {"Extracting"} \cup Absent
    BY <1>1, <1>10
       DEF FinishParts, PartsDone, PackageReady, SetPackage, pkgVars, Leaves, Receiving,
           AwaitsExit, Stopping
  <2>2. "Completed" \in Statuses /\ "Completed" \notin Active \cup Absent
    BY DEF Statuses, Active, Absent, Terminal
  <2>3. pkg' \notin Absent
    BY <2>1 DEF Absent
  <2>4. /\ RowsAreRecorded' /\ ExtractsShow' /\ TargetIsPresent'
        /\ UNCHANGED durablePkg => SetIsWhole'
    BY <1>8, <2>1, <2>2, <2>3
  <2>5. CASE pkg' = "Extracting" /\ durablePkg' = "Extracting"
    <3>1. durablePkg \notin Absent
      BY <1>2, <2>1 DEF SetIsRecorded, Running, RestoredPackage, Absent
    <3>2. \A j \in PartSet : \A s \in Absent : durable'[j] # s
      BY <1>1, <1>2, <2>1, <2>2, <3>1, PutApply DEF Commit, SetIsWhole
    <3>3. SetIsWhole'
      BY <2>1, <2>5, <3>2 DEF SetIsWhole, Absent
    <3>4. SetIsRecorded'
      BY <2>5 DEF SetIsRecorded, RestoredPackage
    <3> QED BY <2>4, <3>3, <3>4 DEF LifeInv
  <2>6. CASE UNCHANGED <<pkg, durablePkg>>
    BY <1>5, <2>1, <2>4, <2>6 DEF LifeInv
  <2> QED BY <2>1, <2>5, <2>6
<1>11. CASE FinishPackage
  <2>1. /\ Leaves(Pkg) /\ UNCHANGED <<status, durable, target>>
        /\ (\A j \in Rows : worker'[j] = worker[j]) /\ loop' \in {"scan", loop} /\ Running
        /\ \/ \E s \in {"Completed", "PasswordRequired", "Error"} : SetPackage(s)
           \/ pkg' = "Error" /\ UNCHANGED durablePkg
    BY <1>1, <1>11
       DEF FinishPackage, Leaves, waitVars, Receiving, AwaitsExit, Stopping, Running
  <2>2. pkg = "Extracting"
    <3>1. ~Idle(Pkg)
      BY <1>1, <2>1 DEF IInv, Agreement, WorkerShape, NoWorker, Leaves
    <3> QED BY <1>1, <2>1, <3>1 DEF WorkersMatchRows
  <2>3. durablePkg \notin Absent /\ RestoredPackage(durablePkg) = "Error"
    BY <1>2, <2>1, <2>2 DEF SetIsRecorded, RestoredPackage, Absent
  <2>4. SetIsRecorded' /\ pkg' \notin Absent
    BY <2>1, <2>3 DEF SetIsRecorded, RestoredPackage, SetPackage, Absent
  <2>5. SetIsWhole'
    BY <1>2, <2>1, <2>3 DEF SetIsWhole, SetPackage, Absent
  <2>6. RowsAreRecorded' /\ ExtractsShow' /\ TargetIsPresent'
    BY <1>2, <2>1, <2>4 DEF RowsAreRecorded, ExtractsShow, TargetIsPresent
  <2> QED BY <2>4, <2>5, <2>6 DEF LifeInv
<1>12. CASE RemoveRows
  <2> DEFINE I == IF target = Pkg THEN PartSet ELSE {target}
  <2>1. /\ loop = "remove" /\ loop' = "scan" /\ stops = <<>> /\ UNCHANGED worker /\ Running
        /\ \/ /\ Commit(I, "Gone")
              /\ IF target = Pkg THEN SetPackage("Gone") ELSE UNCHANGED pkgVars
           \/ UNCHANGED <<status, durable, pkgVars>>
    BY <1>12 DEF RemoveRows, EndWait, rowVars, Running
  <2>2. I \subseteq Rows /\ (target # Pkg => target \notin PartSet)
    BY <1>1, <2>1 DEF TypeOK, WorkerIds, WaitCovers
  <2>3. TargetIsPresent'
    BY <2>1 DEF TargetIsPresent
  <2>4. CASE UNCHANGED <<status, durable, pkgVars>>
    BY <1>2, <1>4, <1>5, <2>1, <2>3, <2>4 DEF LifeInv, ExtractsShow, pkgVars, Running
  <2>5. CASE /\ Commit(I, "Gone")
             /\ IF target = Pkg THEN SetPackage("Gone") ELSE UNCHANGED pkgVars
    <3>1. \A i \in Rows : /\ status'[i] = IF i \in I THEN "Gone" ELSE status[i]
                          /\ durable'[i] = IF i \in I THEN "Gone" ELSE durable[i]
      BY <1>1, <2>5, PutApply DEF Commit
    <3>2. RowsAreRecorded'
      BY <1>1, <1>2, <2>1, <2>5, RecordsCommit
    <3>3. ExtractsShow'
      BY <1>2, <2>1, <3>1, Presence DEF ExtractsShow
    <3>4. SetIsRecorded'
      BY <1>2, <2>1, <2>5 DEF SetIsRecorded, SetPackage, RestoredPackage, pkgVars
    <3>5. CASE target = Pkg
      <4>1. durablePkg \notin Absent
        BY <1>2, <2>1, <3>5 DEF TargetIsPresent, SetIsRecorded, RestoredPackage, Absent
      <4> QED BY <1>1, <1>2, <2>3, <2>5, <3>1, <3>2, <3>3, <3>4, <3>5, <4>1
              DEF LifeInv, SetIsWhole, SetPackage, Absent
    <3>6. CASE target # Pkg
      BY <1>1, <1>2, <2>2, <2>3, <2>5, <3>1, <3>2, <3>3, <3>4, <3>6
         DEF LifeInv, SetIsWhole, pkgVars
    <3> QED BY <3>5, <3>6
  <2> QED BY <2>1, <2>4, <2>5
<1>13. CASE Recheck
  <2>1. /\ loop = "recheck" /\ loop' = "scan" /\ UNCHANGED <<worker, pkg, durablePkg>> /\ Running
        /\ Commit({target}, "Error") \/ UNCHANGED <<status, durable>>
    BY <1>13 DEF Recheck, EndWait, pkgVars, Running
  <2>2. {target} \subseteq Rows /\ \A i \in {target} : status[i] \notin Absent
    BY <1>1, <1>2, <2>1 DEF TypeOK, TargetIsPresent, Absent
  <2>3. "Error" \notin Absent /\ "Error" \notin Active
    BY Presence
  <2>4. RowsAreRecorded' /\ SetIsWhole'
    BY <1>3, <1>4, <2>1, <2>2, <2>3 DEF Running
  <2>5. \A i \in Rows : status'[i] \in {status[i], "Error"}
    BY <1>1, <2>1, PutApply DEF Commit
  <2>6. ExtractsShow'
    BY <1>2, <2>1, <2>3, <2>5 DEF ExtractsShow
  <2> QED BY <1>5, <2>1, <2>4, <2>6 DEF LifeInv, TargetIsPresent
<1>14. CASE Stopped
  BY <1>1, <1>2, <1>14
     DEF Stopped, LifeInv, RowsAreRecorded, SetIsRecorded, SetIsWhole, TargetIsPresent,
         ExtractsShow, Running, rowVars, pkgVars
<1> QED BY <1>6, <1>7, <1>9, <1>10, <1>11, <1>12, <1>13, <1>14, Loop DEF Loop

LEMMA LifeTask == IInv /\ LifeInv /\ Task => LifeInv'
<1> SUFFICES ASSUME IInv, LifeInv, Task PROVE LifeInv'
  OBVIOUS
<1>1. /\ TypeOK /\ DOMAIN status = Rows /\ Rows \subseteq WorkerIds /\ WorkerShape
      /\ \A w \in WorkerIds : worker'[w].job = worker[w].job
      /\ UNCHANGED <<durable, loop, target>>
  BY Identities, TaskKeeps DEF IInv, TypeOK, Agreement, Kept
<1>2. UNCHANGED <<pkg, durablePkg>>
  BY Task DEF Task, Report, Track, DropSlot, Return, SendExit, pkgVars
<1>3. \A i \in Rows :
        \/ status'[i] = status[i]
        \/ status[i] \in Active /\ status'[i] \in Active /\ worker[i].job = "download"
  <2>1. ASSUME NEW j \in Rows, Track(j), NEW i \in Rows
        PROVE  \/ status'[i] = status[i]
               \/ status[i] \in Active /\ status'[i] \in Active /\ worker[i].job = "download"
    <3>1. worker[j].report \in Active /\ worker[j].job = "download"
      BY <1>1, <2>1 DEF Track, TypeOK, Worker, WorkerShape
    <3> QED BY <1>1, <2>1, <3>1, PutApply DEF Track
  <2> QED BY <2>1, Task DEF Task, Report, DropSlot, Return, SendExit, rowVars
<1>4. RowsAreRecorded'
  BY <1>1, <1>3, Presence DEF LifeInv, RowsAreRecorded, Running
<1>5. ExtractsShow'
  BY <1>1, <1>3 DEF LifeInv, ExtractsShow
<1>6. TargetIsPresent'
  <2>1. ASSUME loop = "remove", target # Pkg PROVE status'[target] \notin Absent
    BY <1>1, <1>3, <2>1, Presence DEF LifeInv, TargetIsPresent, TypeOK, WorkerIds
  <2>2. ASSUME loop = "recheck" PROVE status'[target] = status[target]
    BY <1>1, <1>3, <2>2, Presence DEF LifeInv, TargetIsPresent, TypeOK
  <2> QED BY <1>1, <1>2, <2>1, <2>2 DEF LifeInv, TargetIsPresent
<1> QED BY <1>1, <1>2, <1>4, <1>5, <1>6 DEF LifeInv, SetIsRecorded, SetIsWhole, Running

LEMMA RestoredPresence ==
  /\ \A s \in Statuses : /\ RestoredStatus(s) \notin Active
                         /\ \A t \in Absent : RestoredStatus(s) = t <=> s = t
  /\ \A s \in PackageStates : /\ RestoredPackage(s) # "Extracting"
                              /\ RestoredPackage(RestoredPackage(s)) = RestoredPackage(s)
                              /\ \A t \in Absent : RestoredPackage(s) = t <=> s = t
BY DEF RestoredStatus, Requeued, Statuses, Active, Terminal, Absent, RestoredPackage,
       PackageStates

LEMMA LifeRestart == IInv /\ LifeInv /\ Restart => LifeInv'
<1> SUFFICES ASSUME IInv, LifeInv, Restart PROVE LifeInv'
  OBVIOUS
<1>1. /\ TypeOK /\ PartSet \subseteq Rows /\ SetIsWhole
      /\ durable \in [Rows -> Statuses] /\ durablePkg \in PackageStates
  BY Identities DEF IInv, TypeOK, LifeInv
<1>2. /\ \A i \in Rows : status'[i] = RestoredStatus(durable[i])
      /\ pkg' = RestoredPackage(durablePkg) /\ durablePkg' = RestoredPackage(durablePkg)
      /\ loop' = "scan"
      /\ \A i \in Rows : worker'[i].job = "none"
  BY Identities DEF Restart, SetPackage, EndWait, NoWorker
<1>3. \A i \in Rows : \A s \in Absent : durable'[i] = s <=> durable[i] = s
  <2>1. \A i \in Rows : durable'[i] = IF durable[i] = "Extracting" THEN "ExtractError"
                                      ELSE durable[i]
    BY <1>1, PutApply DEF Restart
  <2> QED BY <2>1, Presence
<1>4. RowsAreRecorded'
  BY <1>1, <1>2, <1>3, RestoredPresence DEF RowsAreRecorded
<1>5. SetIsRecorded'
  BY <1>1, <1>2, RestoredPresence DEF SetIsRecorded
<1>6. SetIsWhole'
  BY <1>1, <1>2, <1>3, RestoredPresence DEF SetIsWhole, Absent
<1> QED BY <1>2, <1>4, <1>5, <1>6 DEF LifeInv, TargetIsPresent, ExtractsShow

LEMMA LifeInit == Init => LifeInv
<1> SUFFICES ASSUME Init PROVE LifeInv
  OBVIOUS
<1>1. /\ \A i \in Rows : status[i] = "New" /\ durable[i] = "New" /\ worker[i].job = "none"
      /\ pkg = "New" /\ durablePkg = "New" /\ loop = "scan" /\ PartSet \subseteq Rows
  BY Identities DEF Init, NoWorker
<1> QED BY <1>1
        DEF LifeInv, RowsAreRecorded, SetIsRecorded, SetIsWhole, TargetIsPresent, ExtractsShow,
            RestoredPackage

LEMMA LifeNext == IInv /\ LifeInv /\ [Next]_vars => LifeInv'
<1>1. IInv /\ LifeInv /\ UNCHANGED vars => LifeInv'
  BY DEF LifeInv, RowsAreRecorded, SetIsRecorded, SetIsWhole, TargetIsPresent, ExtractsShow,
         Running, vars, rowVars, pkgVars, waitVars
<1> QED BY <1>1, LifeCommand, LifeLoop, LifeTask, LifeRestart DEF Next

-----------------------------------------------------------------------------
(* The steps of Lifecycle that the steps of Engine are. *)

(* The tasks behind the rows stay. *)
SameTasks == \A i \in Rows : Idle(i)' <=> Idle(i)

Closing == loop \in {"stop", "off"}

LEMMA Unseen ==
  ASSUME \A i \in Rows : Life(i)' = Life(i), SameTasks, LifeOfSet' = LifeOfSet,
         Closing' <=> Closing, faults' > 0 <=> faults > 0
  PROVE  UNCHANGED Lives!vars
<1>1. [i \in Rows |-> Life(i)]' = [i \in Rows |-> Life(i)]
  OBVIOUS
<1>2. {i \in Rows : ~Idle(i)}' = {i \in Rows : ~Idle(i)}
  BY DEF SameTasks
<1>3. (loop \in {"stop", "off"})' = (loop \in {"stop", "off"})
  BY DEF Closing
<1>4. (faults > 0)' = (faults > 0)
  OBVIOUS
<1> QED BY <1>1, <1>2, <1>3, <1>4 DEF Lives!vars

LEMMA Becoming ==
  ASSUME NEW I, I \subseteq Rows, I # {}, NEW from, NEW to,
         \A i \in I : Life(i) \in from /\ Life(i)' = to,
         \A i \in Rows \ I : Life(i)' = Life(i)
  PROVE  Lives!Becomes(I, from, to)
BY DEF Lives!Becomes

LEMMA Commanding ==
  ASSUME NEW I, I \subseteq Rows, I # {}, NEW from, NEW to,
         \A i \in I : Life(i) \in from /\ Life(i)' = to,
         \A i \in Rows \ I : Life(i)' = Life(i),
         SameTasks, ~Closing, ~Closing', faults' > 0 <=> faults > 0
  PROVE  Lives!Command(I, from, to)
<1>1. Lives!Becomes(I, from, to)
  BY Becoming
<1>2. {i \in Rows : ~Idle(i)}' = {i \in Rows : ~Idle(i)}
  BY DEF SameTasks
<1>3. (loop \in {"stop", "off"})' = (loop \in {"stop", "off"})
  BY DEF Closing
<1>4. (faults > 0)' = (faults > 0)
  OBVIOUS
<1> QED BY <1>1, <1>2, <1>3, <1>4 DEF Lives!Command, Closing

(* The status that a user sees of a row of the running engine. *)
LEMMA LifeOf ==
  ASSUME TypeOK, ExtractsShow, Finished, Running, NEW i \in Rows
  PROVE  /\ status[i] \notin Active => Life(i) = status[i]
         /\ status[i] \in Active => Life(i) \in {"Working", "Unpacking"}
         /\ status[i] \in Active \ {"Extracting"} => Life(i) = "Working"
         /\ status[i] \in Active /\ worker[i].job = "download" => Life(i) = "Working"
         /\ status[i] \in Pausable => Life(i) \in {"Queued", "Working"}
         /\ status[i] \in Cancellable => Life(i) \in {"Queued", "Working", "Paused", "Error"}
         /\ status[i] = "Seeding" => i \in Torrent /\ Life(i) = "Working"
         /\ status[i] \notin Absent => Life(i) \in Lives!Settled \cup Lives!AtWork
         /\ status[i] \notin Absent \cup Active => Life(i) \in Lives!Settled
<1>1. status[i] \in Statuses
  BY DEF TypeOK
<1>2. /\ status[i] \notin Active => Life(i) = status[i]
      /\ status[i] \in Active => Life(i) = IF worker[i].job = "extract" THEN "Unpacking" ELSE "Working"
  BY DEF Life
<1>3. status[i] \in Active \ {"Extracting"} => Life(i) = "Working"
  BY <1>2 DEF ExtractsShow
<1>4. status[i] = "Seeding" => i \in Torrent
  BY DEF Finished, HttpRowsEnd, Rows
<1>5. /\ status[i] \in Pausable => Life(i) \in {"Queued", "Working"}
      /\ status[i] \in Cancellable => Life(i) \in {"Queued", "Working", "Paused", "Error"}
      /\ status[i] = "Seeding" => Life(i) = "Working"
  BY <1>2, <1>3 DEF Pausable, Cancellable, Active
<1>6. status[i] \notin Absent \cup Active => status[i] \in Lives!Settled
  BY <1>1 DEF Statuses, Active, Terminal, Absent, Lives!Settled
<1> QED BY <1>2, <1>3, <1>4, <1>5, <1>6 DEF Lives!AtWork

LEMMA LivesCommand ==
  IInv /\ Finished /\ LifeInv /\ IInv' /\ Command => Lives!Next \/ UNCHANGED Lives!vars
<1> SUFFICES ASSUME IInv, Finished, LifeInv, IInv', Command
             PROVE  Lives!Next \/ UNCHANGED Lives!vars
  OBVIOUS
<1>1. /\ TypeOK /\ DOMAIN status = Rows /\ DOMAIN durable = Rows /\ DOMAIN worker = WorkerIds
      /\ Rows \subseteq WorkerIds /\ PartSet \subseteq Rows /\ Pkg \notin Rows
      /\ ExtractsShow /\ WorkersMatchRows
  BY Identities DEF IInv, Agreement, TypeOK, LifeInv
<1>2. Running /\ loop = "select" /\ ~Closing
  BY CommandSettles DEF Pushes, Running, Closing
<1>3. UNCHANGED faults
  BY Command
     DEF Command, Receive, RowCommand, boundVars, Add,
         AddArchiveSet, Insert, Pause, Resume, Retry, Cancel, CancelExtraction,
         StopSeeding, RetryExtract, PauseAll, ResumeAll, SetConfig,
         RetryPackageExtract, Remove, ForceRecheck, Shutdown
<1>4. \A W : worker' = Cancelled(W) =>
        SameTasks /\ \A i \in Rows : worker'[i].job = worker[i].job
  BY <1>1, CancelledProperties DEF SameTasks, Idle
<1>5. worker = Cancelled({})
  BY <1>1 DEF Cancelled, TypeOK
<1>6. ASSUME NEW I, I \subseteq Rows, I # {}, NEW s \in {"Queued", "Paused", "Cancelled", "Completed"},
             NEW from, Commit(I, s), \A i \in I : Life(i) \in from,
             \E W : worker' = Cancelled(W), loop' \in {"scan", "recheck"}
      PROVE  Lives!Command(I, from, s)
  <2>1. Running' /\ ~Closing'
    BY <1>6 DEF Running, Closing
  <2>2. SameTasks /\ \A i \in Rows : worker'[i].job = worker[i].job
    BY <1>4, <1>6
  <2>3. \A i \in Rows : status'[i] = IF i \in I THEN s ELSE status[i]
    BY <1>1, <1>6, PutApply DEF Commit
  <2>4. /\ \A i \in I : Life(i)' = s
        /\ \A i \in Rows \ I : Life(i)' = Life(i)
    BY <1>2, <1>6, <2>1, <2>2, <2>3, Presence DEF Life
  <2> QED BY <1>2, <1>3, <1>6, <2>1, <2>2, <2>4, Commanding
<1>7. ASSUME UNCHANGED status, SameTasks, \A i \in Rows : worker'[i].job = worker[i].job,
             UNCHANGED <<pkg, durablePkg>>, loop' \in {"scan", "remove"}
      PROVE  UNCHANGED Lives!vars
  <2>1. Running' /\ ~Closing'
    BY <1>7 DEF Running, Closing
  <2>2. \A i \in Rows : Life(i)' = Life(i)
    BY <1>2, <1>7, <2>1 DEF Life
  <2>3. LifeOfSet' = LifeOfSet
    BY <1>2, <1>7, <2>1 DEF LifeOfSet
  <2> QED BY <1>2, <1>3, <1>7, <2>1, <2>2, <2>3, Unseen
<1>8. loop' # "off" => LifeOfSet = pkg /\ LifeOfSet' = pkg'
  BY <1>2 DEF LifeOfSet, Running
<1>9. ASSUME NEW i \in Rows, Add(i) PROVE Lives!Next
  <2>0. Entries(<<i>>) = {i}
    BY DEF Entries
  <2>1. /\ Commit({i}, "Queued") /\ status[i] = "New" /\ i \notin PartSet
        /\ loop' = "scan" /\ UNCHANGED <<worker, pkg>>
    BY <1>9, <2>0 DEF Add, Insert, pkgVars
  <2>2. Life(i) = "New"
    BY <1>2, <2>1, Presence DEF Life
  <2>3. Lives!Command({i}, {"New"}, "Queued")
    BY <1>5, <1>6, <2>1, <2>2
  <2>4. Lives!Add(i)
    BY <1>8, <2>1, <2>3 DEF Lives!Add
  <2> QED BY <2>4 DEF Lives!Next
<1>10. ASSUME AddArchiveSet PROVE Lives!Next
  <2>1. /\ Commit(PartSet, "Queued") /\ Parts # <<>> /\ \A i \in PartSet : status[i] = "New"
        /\ loop' = "scan" /\ UNCHANGED worker /\ pkg = "New" /\ pkg' = "NotStarted"
    BY <1>10 DEF AddArchiveSet, Insert, PartSet
  <2>2. PartSet # {}
    BY <2>1, EngineAssumption DEF PartSet, Entries
  <2>3. \A i \in PartSet : Life(i) \in {"New"}
    BY <1>1, <1>2, <2>1, Presence DEF Life
  <2>4. Lives!Command(PartSet, {"New"}, "Queued")
    BY <1>1, <1>5, <1>6, <2>1, <2>2, <2>3
  <2>5. Lives!AddSet
    BY <1>8, <2>1, <2>4 DEF Lives!AddSet
  <2> QED BY <2>5 DEF Lives!Next
<1>11. ASSUME NEW I, I \subseteq Rows, I # {}, \A i \in I : status[i] \in Pausable,
              Commit(I, "Paused"), Interrupt(I), loop' = "scan", UNCHANGED pkgVars
       PROVE  Lives!Next
  <2>1. \A i \in I : Life(i) \in {"Queued", "Working"}
    BY <1>1, <1>2, <1>11, LifeOf
  <2>2. Lives!Command(I, {"Queued", "Working"}, "Paused")
    BY <1>6, <1>11, <2>1 DEF Interrupt
  <2>3. I \in SUBSET Rows /\ Lives!Pause(I)
    BY <1>8, <1>11, <2>2 DEF Lives!Pause, pkgVars
  <2> QED BY <2>3 DEF Lives!Next
<1>12. ASSUME NEW I, I \subseteq Rows, I # {}, \A i \in I : status[i] \in {"Paused", "Error"},
              Commit(I, "Queued"), UNCHANGED worker, loop' = "scan", UNCHANGED pkgVars
       PROVE  Lives!Next
  <2>1. \A i \in I : Life(i) \in {"Paused", "Error"}
    BY <1>2, <1>12, Presence DEF Life
  <2>2. Lives!Command(I, {"Paused", "Error"}, "Queued")
    BY <1>5, <1>6, <1>12, <2>1
  <2>3. I \in SUBSET Rows /\ Lives!Resume(I)
    BY <1>8, <1>12, <2>2 DEF Lives!Resume, pkgVars
  <2> QED BY <2>3 DEF Lives!Next
<1>13. ASSUME NEW id \in WorkerIds, Cancel(id) PROVE Lives!Next
  <2> DEFINE I == Targets(id, Cancellable)
  <2>1. /\ I \subseteq Rows /\ I # {} /\ Commit(I, "Cancelled") /\ loop' = "scan"
        /\ \A i \in I : status[i] \in Cancellable
        /\ worker' = Cancelled(I) /\ UNCHANGED pkg
    BY <1>13, CommandTargets, CommandSets DEF Cancel, RowCommand, Interrupt, pkgVars
  <2> HIDE DEF I
  <2>2. \A i \in I : Life(i) \in {"Queued", "Working", "Paused", "Error"}
    BY <1>1, <1>2, <2>1, LifeOf
  <2>3. Lives!Command(I, {"Queued", "Working", "Paused", "Error"}, "Cancelled")
    BY <1>6, <2>1, <2>2
  <2>4. I \in SUBSET Rows /\ Lives!Cancel(I)
    BY <1>8, <2>1, <2>3 DEF Lives!Cancel
  <2> QED BY <2>4 DEF Lives!Next
<1>14. ASSUME NEW id \in WorkerIds, Pause(id) PROVE Lives!Next
  <2> DEFINE I == Targets(id, Pausable)
  <2>1. /\ I \subseteq Rows /\ I # {} /\ Commit(I, "Paused") /\ loop' = "scan"
        /\ \A i \in I : status[i] \in Pausable
        /\ Interrupt(I) /\ UNCHANGED pkgVars
    BY <1>14, CommandTargets, CommandSets DEF Pause, RowCommand
  <2> HIDE DEF I
  <2> QED BY <1>11, <2>1
<1>15. ASSUME PauseAll PROVE Lives!Next
  <2> DEFINE I == {i \in Rows : status[i] \in Pausable}
  <2>1. /\ I \subseteq Rows /\ I # {} /\ Commit(I, "Paused") /\ loop' = "scan"
        /\ \A i \in I : status[i] \in Pausable
        /\ Interrupt(I) /\ UNCHANGED pkgVars
    BY <1>15 DEF PauseAll, RowCommand
  <2> HIDE DEF I
  <2> QED BY <1>11, <2>1
<1>16. ASSUME NEW id \in WorkerIds, Resume(id) \/ Retry(id) PROVE Lives!Next
  <2>1. PICK from \in {{"Paused", "Error"}, {"Error"}} :
          Requeue(id, from) /\ loop' = "scan" /\ UNCHANGED pkgVars
    BY <1>16 DEF Resume, Retry, RowCommand
  <2> DEFINE I == Targets(id, from)
  <2>2. \A i \in I : status[i] \in {"Paused", "Error"}
    BY DEF Targets
  <2>3. I \subseteq Rows /\ I # {} /\ Commit(I, "Queued") /\ UNCHANGED worker
    BY <2>1, InOrderProperties DEF Requeue
  <2> HIDE DEF I
  <2> QED BY <1>12, <2>1, <2>2, <2>3
<1>17. ASSUME ResumeAll PROVE Lives!Next
  <2> DEFINE I == {i \in Rows : status[i] = "Paused"}
  <2>1. /\ I \subseteq Rows /\ I # {} /\ Commit(I, "Queued") /\ loop' = "scan"
        /\ \A i \in I : status[i] \in {"Paused", "Error"}
        /\ UNCHANGED worker /\ UNCHANGED pkgVars
    BY <1>17 DEF ResumeAll, RowCommand
  <2> HIDE DEF I
  <2> QED BY <1>12, <2>1
<1>18. ASSUME NEW i \in Rows, StopSeeding(i) PROVE Lives!Next
  <2>1. /\ Commit({i}, "Completed") /\ loop' = "scan" /\ worker' = Cancelled({i})
        /\ status[i] = "Seeding" /\ UNCHANGED pkg
    BY <1>18 DEF StopSeeding, RowCommand, Interrupt, pkgVars
  <2>2. i \in Torrent /\ Life(i) = "Working"
    BY <1>1, <1>2, <2>1, LifeOf
  <2>3. Lives!Command({i}, {"Working"}, "Completed")
    BY <1>6, <2>1, <2>2
  <2>4. Lives!StopSeeding(i)
    BY <1>8, <2>1, <2>2, <2>3 DEF Lives!StopSeeding
  <2> QED BY <2>4 DEF Lives!Next
<1>19. ASSUME NEW i \in Torrent, ForceRecheck(i) PROVE Lives!Next
  <2>1. /\ Commit({i}, "Queued") /\ loop' = "recheck" /\ worker' = Cancelled({i})
        /\ status[i] \in {"Paused", "Completed", "Seeding", "Error"} /\ UNCHANGED pkg
        /\ i \in Rows
    BY <1>19 DEF ForceRecheck, pkgVars, Rows
  <2>2. Life(i) \in {"Paused", "Completed", "Working", "Error"}
    BY <1>1, <1>2, <2>1, LifeOf, Presence
  <2>3. Lives!Command({i}, {"Paused", "Completed", "Working", "Error"}, "Queued")
    BY <1>6, <2>1, <2>2
  <2>4. Lives!Recheck(i)
    BY <1>8, <2>1, <2>3 DEF Lives!Recheck
  <2> QED BY <2>1, <2>4 DEF Lives!Next
<1>20. ASSUME NEW i \in Rows, RetryExtract(i) PROVE Lives!Next
  <2>1. /\ status' = Put(status, {i}, "Extracting") /\ loop' = "scan"
        /\ worker' = [worker EXCEPT ![i] = Spawned("extract")]
        /\ status[i] \in {"ExtractError", "PasswordRequired"} /\ UNCHANGED pkg
    BY <1>20 DEF RetryExtract, RowCommand, Commit, pkgVars
  <2>2. /\ Running' /\ ~Closing' /\ Spawned("extract").job = "extract"
        /\ status[i] \notin Active
    BY <2>1, SpawnedSlot DEF Running, Closing, Active
  <2>3. Idle(i)
    BY <1>1, <1>2, <2>1, <2>2 DEF WorkersMatchRows, Terminal
  <2>4. /\ status'[i] = "Extracting" /\ \A j \in Rows \ {i} : status'[j] = status[j]
        /\ worker'[i].job = "extract" /\ \A j \in Rows \ {i} : worker'[j] = worker[j]
    BY <1>1, <2>1, <2>2, PutApply
  <2>5. Life(i) = status[i] /\ Life(i)' = "Unpacking" /\ \A j \in Rows \ {i} : Life(j)' = Life(j)
    BY <1>2, <2>2, <2>4, Presence DEF Life
  <2>6. Lives!Becomes({i}, {"ExtractError", "PasswordRequired"}, "Unpacking")
    BY <2>1, <2>5, Becoming
  <2>7. {j \in Rows : ~Idle(j)}' = {j \in Rows : ~Idle(j)} \cup {i}
    BY <2>4 DEF Idle
  <2>8. (loop \in {"stop", "off"})' = (loop \in {"stop", "off"})
    BY <1>2, <2>2 DEF Closing
  <2>9. Lives!Spawn(i, {"ExtractError", "PasswordRequired"}, "Unpacking")
    BY <1>2, <1>3, <1>8, <2>1, <2>3, <2>6, <2>7, <2>8 DEF Lives!Spawn, Closing
  <2> QED BY <2>9 DEF Lives!Next, Lives!RetryExtract
<1>21. ASSUME RetryPackageExtract PROVE Lives!Next
  <2>1. /\ UNCHANGED status /\ loop' = "scan" /\ pkg' = "Extracting"
        /\ pkg \notin {"Extracting", "Completed"} \cup Absent /\ pkg \in PackageStates
        /\ \A i \in PartSet : status[i] = "Completed"
        /\ \A i \in Rows : worker'[i] = worker[i]
    BY <1>1, <1>21 DEF RetryPackageExtract, PackageReady, SetPackage, rowVars, TypeOK
  <2>2. Running' /\ ~Closing' /\ (loop \in {"stop", "off"})' = (loop \in {"stop", "off"})
    BY <1>2, <2>1 DEF Running, Closing
  <2>3. /\ \A i \in Rows : Life(i)' = Life(i)
        /\ \A i \in PartSet : Life(i) = "Completed"
    BY <1>1, <1>2, <2>1, <2>2, Presence DEF Life
  <2>4. [i \in Rows |-> Life(i)]' = [i \in Rows |-> Life(i)]
    BY <2>3
  <2>5. {i \in Rows : ~Idle(i)}' = {i \in Rows : ~Idle(i)}
    BY <2>1 DEF Idle
  <2>6. LifeOfSet \in Lives!SetWaits /\ LifeOfSet' = "Extracting"
    BY <1>8, <2>1 DEF Lives!SetWaits, PackageStates, Absent
  <2>7. Lives!ExtractSet
    BY <1>1, <1>2, <1>3, <2>2, <2>3, <2>4, <2>5, <2>6 DEF Lives!ExtractSet, Closing
  <2> QED BY <2>7 DEF Lives!Next
<1>22. ASSUME \/ \E id \in WorkerIds : CancelExtraction(id) \/ Remove(id)
              \/ \E n \in 1..MaxConcurrent : SetConfig(n)
       PROVE  UNCHANGED Lives!vars
  <2>1. /\ UNCHANGED status /\ (\E W : worker' = Cancelled(W)) /\ UNCHANGED <<pkg, durablePkg>>
        /\ loop' \in {"scan", "remove"}
    BY <1>5, <1>22 DEF CancelExtraction, SetConfig, Remove, RowCommand, rowVars, pkgVars
  <2> QED BY <1>4, <1>7, <2>1
<1>23. ASSUME Shutdown PROVE Lives!Next
  <2>1. UNCHANGED <<status, pkg>> /\ worker' = Cancelled(WorkerIds) /\ loop' = "stop"
    BY <1>23 DEF Shutdown, rowVars, pkgVars
  <2>2. SameTasks /\ \A i \in Rows : worker'[i].job = worker[i].job
    BY <1>4, <2>1
  <2>3. [i \in Rows |-> Life(i)]' = [i \in Rows |-> Life(i)]
    <3>1. Running'
      BY <2>1 DEF Running
    <3> QED BY <1>2, <2>1, <2>2, <3>1 DEF Life
  <2>4. {i \in Rows : ~Idle(i)}' = {i \in Rows : ~Idle(i)}
    BY <2>2 DEF SameTasks
  <2>5. LifeOfSet' = LifeOfSet
    BY <1>8, <2>1
  <2>6. Lives!Close
    BY <1>3, <2>1, <2>3, <2>4, <2>5 DEF Lives!Close
  <2> QED BY <2>6 DEF Lives!Next
<1> QED BY <1>9, <1>10, <1>13, <1>14, <1>15, <1>16, <1>17, <1>18, <1>19, <1>20, <1>21, <1>22,
           <1>23, Command DEF Command

LEMMA StartLives ==
  IInv /\ Finished /\ LifeInv /\ Start => Lives!Next
<1> SUFFICES ASSUME IInv, Finished, LifeInv, Start PROVE Lives!Next
  OBVIOUS
<1>1. /\ TypeOK /\ DOMAIN status = Rows /\ DOMAIN worker = WorkerIds
      /\ Rows \subseteq WorkerIds
  BY Identities DEF IInv, TypeOK
<1>2. PICK i \in Rows :
        /\ status[i] = "Queued" /\ Idle(i)
        /\ \/ /\ Commit({i}, "Starting")
              /\ worker' = [worker EXCEPT ![i] = Spawned("download")]
              /\ UNCHANGED faults
           \/ /\ Fault
              /\ status' = Put(status, {i}, "Error")
              /\ UNCHANGED worker
  BY <1>1, PrunedRow DEF Start, First
<1>3. status[i] = "Queued" /\ Idle(i)
  BY <1>2
<1>4. /\ Running /\ ~Closing /\ Running' /\ ~Closing' /\ UNCHANGED pkg
      /\ (loop \in {"stop", "off"})' = (loop \in {"stop", "off"})
  BY DEF Start, Scanning, Running, Closing, pkgVars
<1>5. Life(i) = "Queued" /\ UNCHANGED LifeOfSet
  BY <1>3, <1>4, Presence DEF Life, LifeOfSet
<1>6. Spawned("download").job = "download" /\ "Starting" \in Active
  BY SpawnedSlot DEF Active
<1>7. CASE /\ Commit({i}, "Starting")
           /\ worker' = [worker EXCEPT ![i] = Spawned("download")]
           /\ UNCHANGED faults
  <2>1. /\ status'[i] = "Starting" /\ \A j \in Rows \ {i} : status'[j] = status[j]
        /\ worker'[i].job = "download" /\ \A j \in Rows \ {i} : worker'[j] = worker[j]
    BY <1>1, <1>3, <1>6, <1>7, PutApply DEF Commit
  <2>2. Life(i)' = "Working" /\ \A j \in Rows \ {i} : Life(j)' = Life(j)
    BY <1>4, <1>6, <2>1 DEF Life
  <2>3. Lives!Becomes({i}, {"Queued"}, "Working")
    BY <1>3, <1>5, <2>2, Becoming
  <2>4. {j \in Rows : ~Idle(j)}' = {j \in Rows : ~Idle(j)} \cup {i}
    BY <1>3, <2>1 DEF Idle
  <2>5. Lives!Start(i)
    BY <1>3, <1>4, <1>5, <1>7, <2>3, <2>4 DEF Lives!Start, Lives!Spawn, Closing
  <2> QED BY <1>3, <2>5 DEF Lives!Next
<1>8. CASE Fault /\ status' = Put(status, {i}, "Error") /\ UNCHANGED worker
  <2>1. status'[i] = "Error" /\ \A j \in Rows \ {i} : status'[j] = status[j]
    BY <1>1, <1>3, <1>8, PutApply
  <2>2. Life(i)' = "Error" /\ \A j \in Rows \ {i} : Life(j)' = Life(j)
    BY <1>4, <1>8, <2>1, Presence DEF Life
  <2>3. Lives!Becomes({i}, {"Queued"}, "Error")
    BY <1>3, <1>5, <2>2, Becoming
  <2>4. {j \in Rows : ~Idle(j)}' = {j \in Rows : ~Idle(j)}
    BY <1>8 DEF Idle
  <2>5. (faults > 0)'
    BY <1>1, <1>8, EngineAssumption DEF Fault, TypeOK
  <2>6. Lives!StartFails(i)
    BY <1>3, <1>4, <1>5, <2>3, <2>4, <2>5 DEF Lives!StartFails, Closing
  <2> QED BY <1>3, <2>6 DEF Lives!Next
<1> QED BY <1>2, <1>7, <1>8

(* What an exit makes of a row is what the end of its task does. *)
LEMMA ExitLives ==
  ASSUME IInv, Finished, LifeInv, NEW i \in Rows, Leaves(i),
         NEW s, status' = Put(status, {i}, s), s \notin Active,
         \A j \in Rows \ {i} : worker'[j] = worker[j], Idle(i)'
  PROVE  /\ i \in {j \in Rows : ~Idle(j)}
         /\ {j \in Rows : ~Idle(j)}' = {j \in Rows : ~Idle(j)} \ {i}
         /\ (loop \in {"stop", "off"})' = (loop \in {"stop", "off"})
         /\ Running /\ Running'
         /\ Life(i)' = s /\ \A j \in Rows \ {i} : Life(j)' = Life(j)
         /\ \A from : Life(i) \in from => Lives!Becomes({i}, from, s)
         /\ Life(i) \in Lives!Settled \cup Lives!AtWork
<1>1. /\ TypeOK /\ DOMAIN status = Rows /\ ExtractsShow
  BY DEF IInv, TypeOK, LifeInv
<1>2. ~Idle(i) /\ status[i] \notin Absent /\ Running
  BY ExitingRow
<1>3. Running' /\ (loop' \in {"stop", "off"} <=> loop \in {"stop", "off"})
  BY <1>2 DEF Running, Leaves
<1>4. status'[i] = s /\ \A j \in Rows \ {i} : status'[j] = status[j]
  BY <1>1, PutApply
<1>5. Life(i)' = s /\ \A j \in Rows \ {i} : Life(j)' = Life(j)
  BY <1>2, <1>3, <1>4 DEF Life
<1>6. \A from : Life(i) \in from => Lives!Becomes({i}, from, s)
  BY <1>5, Becoming
<1>7. {j \in Rows : ~Idle(j)}' = {j \in Rows : ~Idle(j)} \ {i}
  BY DEF Idle
<1>8. Life(i) \in Lives!Settled \cup Lives!AtWork
  BY <1>1, <1>2, LifeOf
<1> QED BY <1>2, <1>3, <1>5, <1>6, <1>7, <1>8

LEMMA PartsAreCompleted ==
  ASSUME TypeOK, Running, NEW i \in Rows
  PROVE  Life(i) = "Completed" <=> status[i] = "Completed"
BY Presence DEF Life

LEMMA FinishLives ==
  ASSUME IInv, Finished, LifeInv, NEW i \in Rows, Finish(i)
  PROVE  Lives!Next
<1> DEFINE exit == ExitStatus(worker[i].job, status[i], worker[i].result,
                              worker[i].cancelled, loop = "stop")
<1>1. /\ TypeOK /\ DOMAIN status = Rows /\ DOMAIN worker = WorkerIds /\ status[i] \in Statuses
      /\ Rows \subseteq WorkerIds /\ PartSet \subseteq Rows
      /\ ExtractsShow /\ WorkersMatchRows
  BY Identities DEF IInv, Agreement, TypeOK, LifeInv
<1>2. exit \notin Active
  BY <1>1, ExitStatusSettled
<1>3. /\ Leaves(i) /\ Idle(i)' /\ (\A j \in Rows \ {i} : worker'[j] = worker[j])
      /\ UNCHANGED <<pkg, durablePkg>>
      /\ \/ Commit({i}, exit) /\ ~PartsDone(i, exit) /\ UNCHANGED faults
         \/ Fault /\ status' = Put(status, {i}, "Error")
  BY <1>1 DEF Finish, WriteFails, pkgVars, Idle, NoWorker
<1>4. \/ exit = "Completed"
      \/ exit = status[i] /\ status[i] \notin Active
      \/ /\ status[i] \in Active /\ exit \in {"ExtractError", "PasswordRequired"}
      \/ /\ status[i] \in Active /\ worker[i].job = "download"
         /\ exit \in {"Error", "Cancelled"}
      \/ /\ status[i] \in Active /\ worker[i].job = "download" /\ loop = "stop"
         /\ exit = "Queued"
  BY <1>1, <1>3, ExitCases
<1>5. Running /\ Running' /\ UNCHANGED LifeOfSet /\ LifeOfSet = pkg
  BY <1>3, ExitingRow DEF Leaves, Running, LifeOfSet
<1> HIDE DEF exit
<1>6. CASE Commit({i}, exit) /\ ~PartsDone(i, exit) /\ UNCHANGED faults
  <2>1. status' = Put(status, {i}, exit)
    BY <1>6 DEF Commit
  <2>2. /\ i \in {j \in Rows : ~Idle(j)}
        /\ {j \in Rows : ~Idle(j)}' = {j \in Rows : ~Idle(j)} \ {i}
        /\ (loop \in {"stop", "off"})' = (loop \in {"stop", "off"})
        /\ Life(i)' = exit /\ (\A j \in Rows \ {i} : Life(j)' = Life(j))
        /\ (\A from : Life(i) \in from => Lives!Becomes({i}, from, exit))
        /\ Life(i) \in Lives!Settled \cup Lives!AtWork
    BY <1>2, <1>3, <2>1, ExitLives
  <2>3. Lives!Leaves(i)
    <3>1. CASE exit = "Completed"
      BY <2>2, <3>1 DEF Lives!Leaves
    <3>2. CASE exit = status[i] /\ status[i] \notin Active
      <4>1. Life(i) = status[i] /\ status[i] \notin Lives!AtWork
        BY <1>1, <1>5, <3>2 DEF Life, Lives!AtWork, Statuses, Terminal, Active
      <4>2. [j \in Rows |-> Life(j)]' = [j \in Rows |-> Life(j)]
        BY <2>2, <3>2, <4>1
      <4> QED BY <4>1, <4>2 DEF Lives!Leaves
    <3>3. CASE status[i] \in Active /\ exit \in {"ExtractError", "PasswordRequired"}
      <4>1. Life(i) \in {"Working"} \/ Life(i) \in {"Unpacking"}
        BY <1>1, <1>5, <3>3, LifeOf
      <4>2. Lives!Becomes({i}, {"Working"}, exit) \/ Lives!Becomes({i}, {"Unpacking"}, exit)
        BY <2>2, <4>1
      <4> QED BY <3>3, <4>2 DEF Lives!Leaves
    <3>4. CASE status[i] \in Active /\ worker[i].job = "download" /\ exit \in {"Error", "Cancelled"}
      <4>1. Life(i) \in {"Working"}
        BY <1>1, <1>5, <3>4, LifeOf
      <4>2. Lives!Becomes({i}, {"Working"}, exit)
        BY <2>2, <4>1
      <4> QED BY <3>4, <4>2 DEF Lives!Leaves
    <3>5. CASE /\ status[i] \in Active /\ worker[i].job = "download" /\ loop = "stop"
               /\ exit = "Queued"
      <4>1. Life(i) \in {"Working"}
        BY <1>1, <1>5, <3>5, LifeOf
      <4>2. Lives!Becomes({i}, {"Working"}, exit)
        BY <2>2, <4>1
      <4> QED BY <3>5, <4>2 DEF Lives!Leaves
    <3> QED BY <1>4, <3>1, <3>2, <3>3, <3>4, <3>5
  <2>4. ~Lives!CompletesSet(i)
    <3> SUFFICES ASSUME i \in PartSet, loop \notin {"stop", "off"}, pkg \in Lives!SetWaits,
                        \A j \in PartSet : [k \in Rows |-> Life(k)]'[j] = "Completed"
                 PROVE  FALSE
      BY <1>5 DEF Lives!CompletesSet
    <3>1. \A j \in PartSet : Put(status, {i}, exit)[j] = "Completed"
      <4> SUFFICES ASSUME NEW j \in PartSet PROVE Put(status, {i}, exit)[j] = "Completed"
        OBVIOUS
      <4>1. j \in Rows /\ Life(j)' = "Completed"
        BY <1>1
      <4>2. status'[j] = "Completed"
        BY <1>5, <4>1, Presence DEF Life
      <4> QED BY <2>1, <4>2
    <3>2. Idle(Pkg)
      BY <1>1, <1>5, Identities DEF WorkersMatchRows, Lives!SetWaits
    <3>3. pkg \notin {"Extracting", "Completed"} \cup Absent
      BY DEF Lives!SetWaits, Absent
    <3> QED BY <1>6, <3>1, <3>2, <3>3 DEF PartsDone, PackageReady
  <2>5. Lives!Finish(i)
    BY <1>5, <1>6, <2>2, <2>3, <2>4 DEF Lives!Finish
  <2> QED BY <2>5 DEF Lives!Next
<1>7. CASE Fault /\ status' = Put(status, {i}, "Error")
  <2>1. /\ i \in {j \in Rows : ~Idle(j)}
        /\ {j \in Rows : ~Idle(j)}' = {j \in Rows : ~Idle(j)} \ {i}
        /\ (loop \in {"stop", "off"})' = (loop \in {"stop", "off"})
        /\ Lives!Becomes({i}, Lives!Settled \cup Lives!AtWork, "Error")
    BY <1>3, <1>7, ExitLives, Presence
  <2>2. (faults > 0)'
    BY <1>1, <1>7, EngineAssumption DEF Fault, TypeOK
  <2>3. Lives!Finish(i)
    BY <1>5, <2>1, <2>2 DEF Lives!Finish
  <2> QED BY <2>3 DEF Lives!Next
<1> QED BY <1>3, <1>6, <1>7

LEMMA FinishPartsLives ==
  ASSUME IInv, Finished, LifeInv, NEW i \in Rows, FinishParts(i)
  PROVE  Lives!Next
<1> DEFINE exit == ExitStatus(worker[i].job, status[i], worker[i].result,
                              worker[i].cancelled, loop = "stop")
<1>1. /\ TypeOK /\ DOMAIN status = Rows /\ DOMAIN worker = WorkerIds
      /\ Rows \subseteq WorkerIds /\ PartSet \subseteq Rows /\ Pkg \notin Rows /\ Pkg \in WorkerIds
      /\ NoWorker.job = "none" /\ pkg \in PackageStates
  BY Identities DEF IInv, TypeOK, NoWorker
<1>2. /\ Leaves(i) /\ status' = Put(status, {i}, "Completed") /\ PartsDone(i, exit)
      /\ \/ pkg' = "Extracting" /\ UNCHANGED faults
            /\ worker' = [worker EXCEPT ![i] = NoWorker, ![Pkg] = Spawned("extract")]
         \/ pkg' = pkg /\ Fault /\ worker' = [worker EXCEPT ![i] = NoWorker]
  BY DEF FinishParts, Commit, SetPackage, pkgVars
<1>3. Idle(i)' /\ \A j \in Rows \ {i} : worker'[j] = worker[j]
  BY <1>1, <1>2 DEF Idle
<1> HIDE DEF exit
<1>4. /\ i \in {j \in Rows : ~Idle(j)}
      /\ {j \in Rows : ~Idle(j)}' = {j \in Rows : ~Idle(j)} \ {i}
      /\ (loop \in {"stop", "off"})' = (loop \in {"stop", "off"})
      /\ Running /\ Running'
      /\ Lives!Becomes({i}, Lives!Settled \cup Lives!AtWork, "Completed")
  BY <1>2, <1>3, ExitLives, Presence
<1>5. Lives!Leaves(i)
  BY <1>4 DEF Lives!Leaves
<1>6. \A j \in PartSet : status'[j] = "Completed" /\ Life(j)' = "Completed"
  <2> SUFFICES ASSUME NEW j \in PartSet PROVE status'[j] = "Completed" /\ Life(j)' = "Completed"
    OBVIOUS
  <2>1. Put(status, {i}, exit)[j] = "Completed"
    BY <1>2 DEF PartsDone, PackageReady
  <2>2. status'[j] = "Completed"
    BY <1>1, <1>2, <2>1, PutApply
  <2> QED BY <1>1, <1>4, <2>2, Presence DEF Life
<1>7. LifeOfSet = pkg /\ LifeOfSet' = pkg' /\ LifeOfSet \in Lives!SetWaits
  BY <1>1, <1>2, <1>4 DEF LifeOfSet, PartsDone, PackageReady, PackageStates, Absent, Lives!SetWaits
<1>8. Lives!CompletesSet(i)
  <2>1. i \in PartSet /\ loop \notin {"stop", "off"}
    BY <1>2, <1>4 DEF PartsDone, Running
  <2> QED BY <1>1, <1>6, <1>7, <2>1 DEF Lives!CompletesSet
<1>9. CASE pkg' = "Extracting" /\ UNCHANGED faults
  <2>1. Lives!Finish(i)
    BY <1>4, <1>5, <1>7, <1>8, <1>9 DEF Lives!Finish
  <2> QED BY <2>1 DEF Lives!Next
<1>10. CASE pkg' = pkg /\ Fault
  <2>1. (faults > 0)'
    BY <1>1, <1>10, EngineAssumption DEF Fault, TypeOK
  <2>2. Lives!Finish(i)
    BY <1>4, <1>5, <1>7, <1>8, <1>10, <2>1 DEF Lives!Finish
  <2> QED BY <2>2 DEF Lives!Next
<1> QED BY <1>2, <1>9, <1>10

(* A crash makes of the rows what Lifecycle says: the database knows them. *)
LEMMA CrashLives ==
  ASSUME IInv, LifeInv,
         \A i \in Rows : Life(i)' = RestoredStatus(durable[i]),
         LifeOfSet' = RestoredPackage(durablePkg),
         \A i \in Rows : Idle(i)',
         ~Closing' \/ (Closing /\ Closing'), UNCHANGED faults
  PROVE  Lives!Crash
<1>1. /\ status \in [Rows -> Statuses] /\ durable \in [Rows -> Statuses] /\ durablePkg \in PackageStates
      /\ RowsAreRecorded /\ SetIsRecorded /\ CrashLosesNothing
  BY DEF IInv, TypeOK, Agreement, LifeInv
<1>2. \A s \in Statuses : RestoredStatus(s) \in Lives!Absent \cup Lives!Settled
  BY DEF RestoredStatus, Requeued, Statuses, Active, Terminal, Lives!Absent, Lives!Settled
<1>3. \A s \in Statuses \ Absent : RestoredStatus(s) \in Lives!Settled
  BY DEF RestoredStatus, Requeued, Statuses, Active, Terminal, Absent, Lives!Settled
<1>4. ASSUME NEW i \in Rows PROVE Life(i)' \in Lives!AfterCrash(i)
  <2>1. Life(i)' = RestoredStatus(durable[i]) /\ [j \in Rows |-> Life(j)][i] = Life(i)
    OBVIOUS
  <2>2. CASE ~Running
    <3>1. Life(i) = RestoredStatus(durable[i])
      BY <2>2 DEF Life
    <3>2. Life(i) \notin {"Working", "Unpacking"}
      BY <1>1, <1>2, <3>1 DEF Lives!Absent, Lives!Settled
    <3>3. Life(i) = "Error" => Life(i) \in Lives!Settled
      BY DEF Lives!Settled
    <3> QED BY <2>1, <3>1, <3>2, <3>3 DEF Lives!AfterCrash
  <2>3. CASE Running /\ faults > 0 /\ status[i] = "Error"
    <3>1. Life(i) = "Error"
      BY <2>3, Presence DEF Life
    <3>2. durable[i] \in Statuses \ Absent
      BY <1>1, <2>3, Presence DEF RowsAreRecorded
    <3> QED BY <1>3, <2>1, <2>3, <3>1, <3>2 DEF Lives!AfterCrash
  <2>4. CASE Running /\ RestoredStatus(durable[i]) =
                 IF status[i] \notin Active THEN status[i]
                 ELSE IF worker[i].job = "extract" THEN "ExtractError" ELSE "Queued"
    <3>1. CASE status[i] \notin Active
      <4>1. Life(i) = status[i] /\ Life(i)' = status[i]
        BY <2>1, <2>4, <3>1 DEF Life
      <4>2. status[i] \notin {"Working", "Unpacking"}
        BY <1>1 DEF Statuses, Active, Terminal
      <4>3. status[i] = "Error" => status[i] \in Lives!Settled
        BY DEF Lives!Settled
      <4> QED BY <2>1, <4>1, <4>2, <4>3 DEF Lives!AfterCrash
    <3>2. CASE status[i] \in Active /\ worker[i].job = "extract"
      <4>1. Life(i) = "Unpacking" /\ Life(i)' = "ExtractError"
        BY <2>1, <2>4, <3>2 DEF Life
      <4> QED BY <2>1, <4>1 DEF Lives!AfterCrash
    <3>3. CASE status[i] \in Active /\ worker[i].job # "extract"
      <4>1. Life(i) = "Working" /\ Life(i)' = "Queued"
        BY <2>1, <2>4, <3>3 DEF Life
      <4> QED BY <2>1, <4>1 DEF Lives!AfterCrash
    <3> QED BY <3>1, <3>2, <3>3
  <2> QED BY <1>1, <2>2, <2>3, <2>4 DEF CrashLosesNothing
<1>5. LifeOfSet' = IF LifeOfSet = "Extracting" THEN "Error" ELSE LifeOfSet
  <2>1. CASE Running
    BY <1>1, <2>1 DEF LifeOfSet, SetIsRecorded
  <2>2. CASE ~Running
    BY <1>1, <2>2, RestoredPresence DEF LifeOfSet
  <2> QED BY <2>1, <2>2
<1>6. [i \in Rows |-> Life(i)]' \in [Rows -> Lives!Absent \cup Lives!Settled]
  BY <1>1, <1>2
<1>7. {i \in Rows : ~Idle(i)}' = {}
  OBVIOUS
<1>8. (loop \in {"stop", "off"})' \in {(loop \in {"stop", "off"}), FALSE}
  <2>1. CASE ~Closing'
    <3>1. (loop \in {"stop", "off"})' = FALSE
      BY <2>1 DEF Closing
    <3> QED BY <3>1
  <2>2. CASE Closing /\ Closing'
    <3>1. (loop \in {"stop", "off"})' = (loop \in {"stop", "off"})
      BY <2>2 DEF Closing
    <3> QED BY <3>1
  <2> QED BY <2>1, <2>2
<1>9. \A i \in Rows : [j \in Rows |-> Life(j)]'[i] \in Lives!AfterCrash(i)
  BY <1>4
<1> QED BY <1>5, <1>6, <1>7, <1>8, <1>9 DEF Lives!Crash

LEMMA FinishPackageLives ==
  ASSUME IInv, LifeInv, FinishPackage
  PROVE  Lives!Next
<1>1. /\ TypeOK /\ DOMAIN worker = WorkerIds /\ Pkg \notin Rows /\ Pkg \in WorkerIds
      /\ Rows \subseteq WorkerIds /\ WorkerShape /\ WorkersMatchRows
  BY Identities DEF IInv, TypeOK, Agreement
<1>2. /\ Leaves(Pkg) /\ UNCHANGED status /\ \A i \in Rows : worker'[i] = worker[i]
      /\ \/ pkg' \in {"Completed", "PasswordRequired", "Error"} /\ UNCHANGED faults
         \/ pkg' = "Error" /\ Fault
  BY <1>1 DEF FinishPackage, SetPackage
<1>3. /\ Running /\ Running' /\ (Closing' <=> Closing)
      /\ (loop \in {"stop", "off"})' = (loop \in {"stop", "off"})
  BY <1>2 DEF Leaves, Receiving, AwaitsExit, Stopping, Running, Closing
<1>4. LifeOfSet = "Extracting" /\ LifeOfSet' = pkg'
  <2>1. ~Idle(Pkg)
    BY <1>1, <1>2 DEF WorkerShape, Leaves, NoWorker
  <2> QED BY <1>1, <1>3, <2>1 DEF WorkersMatchRows, LifeOfSet
<1>5. [i \in Rows |-> Life(i)]' = [i \in Rows |-> Life(i)]
  BY <1>2, <1>3 DEF Life
<1>6. {i \in Rows : ~Idle(i)}' = {i \in Rows : ~Idle(i)}
  BY <1>2 DEF Idle
<1>7. Fault => (faults > 0)'
  BY <1>1, EngineAssumption DEF Fault, TypeOK
<1>8. Lives!FinishSet
  BY <1>2, <1>3, <1>4, <1>5, <1>6, <1>7 DEF Lives!FinishSet
<1> QED BY <1>8 DEF Lives!Next

LEMMA RemoveLives ==
  ASSUME IInv, Finished, LifeInv, RemoveRows
  PROVE  Lives!Next \/ UNCHANGED Lives!vars
<1> DEFINE I == IF target = Pkg THEN PartSet ELSE {target}
<1>1. /\ TypeOK /\ DOMAIN status = Rows /\ PartSet \subseteq Rows /\ Pkg \notin Rows
      /\ target \in WorkerIds /\ ExtractsShow /\ WorkersMatchRows /\ WaitCovers
      /\ RowsAreRecorded /\ SetIsRecorded /\ SetIsWhole /\ TargetIsPresent
  BY Identities DEF IInv, Agreement, TypeOK, LifeInv
<1>2. /\ loop = "remove" /\ stops = <<>> /\ loop' = "scan" /\ UNCHANGED <<worker, faults>>
      /\ \/ Commit(I, "Gone") /\ pkg' = IF target = Pkg THEN "Gone" ELSE pkg
         \/ UNCHANGED <<status, pkg>>
  BY DEF RemoveRows, EndWait, rowVars, pkgVars, boundVars, SetPackage
<1>3. /\ Running /\ ~Closing /\ Running' /\ ~Closing' /\ SameTasks
      /\ LifeOfSet = pkg /\ LifeOfSet' = pkg'
  BY <1>2 DEF Running, Closing, SameTasks, LifeOfSet, Idle
<1>4. CASE UNCHANGED <<status, pkg>>
  <2>1. \A i \in Rows : Life(i)' = Life(i)
    BY <1>2, <1>3, <1>4 DEF Life
  <2> QED BY <1>2, <1>3, <1>4, <2>1, Unseen
<1>5. ASSUME NEW J, J \subseteq Rows, J # {}, Commit(J, "Gone"),
             \A i \in J : Idle(i) /\ status[i] \notin Absent
      PROVE  Lives!Command(J, Lives!Settled, "Gone")
  <2>1. \A i \in Rows : status'[i] = IF i \in J THEN "Gone" ELSE status[i]
    BY <1>1, <1>5, PutApply DEF Commit
  <2>2. \A i \in J : Life(i)' = "Gone"
    BY <1>3, <1>5, <2>1, Presence DEF Life
  <2>3. \A i \in Rows \ J : Life(i)' = Life(i)
    BY <1>2, <1>3, <2>1 DEF Life
  <2>4. \A i \in J : Life(i) \in Lives!Settled
    BY <1>1, <1>3, <1>5, LifeOf DEF WorkersMatchRows
  <2> QED BY <1>2, <1>3, <1>5, <2>2, <2>3, <2>4, Commanding
<1>6. CASE target = Pkg /\ Commit(PartSet, "Gone") /\ pkg' = "Gone"
  <2>1. Idle(Pkg) /\ \A i \in PartSet : Idle(i)
    BY <1>1, <1>2, <1>6 DEF WaitCovers, Watched, Entries
  <2>2. pkg \notin {"Extracting"} \cup Absent
    BY <1>1, <1>2, <1>3, <1>6, <2>1 DEF TargetIsPresent, WorkersMatchRows
  <2>3. durablePkg \notin Absent
    BY <1>1, <1>3, <2>2 DEF SetIsRecorded, RestoredPackage, Absent
  <2>4. PartSet # {} /\ \A i \in PartSet : status[i] \notin Absent
    BY <1>1, <1>3, <2>3 DEF SetIsWhole, RowsAreRecorded, Absent
  <2>5. Lives!Command(PartSet, Lives!Settled, "Gone")
    BY <1>1, <1>5, <1>6, <2>1, <2>4
  <2>6. PartSet \cap {i \in Rows : ~Idle(i)} = {}
    BY <2>1
  <2>7. LifeOfSet \notin {"Extracting"} \cup Lives!Absent
    BY <1>3, <2>2 DEF Lives!Absent, Absent
  <2>8. Lives!RemoveSet
    BY <1>3, <1>6, <2>5, <2>6, <2>7 DEF Lives!RemoveSet
  <2> QED BY <2>8 DEF Lives!Next
<1>7. CASE target # Pkg /\ Commit({target}, "Gone") /\ pkg' = pkg
  <2>1. PICK i \in Rows : i = target
    BY <1>1, <1>7 DEF WorkerIds
  <2>2. Idle(i) /\ i \notin PartSet /\ status[i] \notin Absent
    BY <1>1, <1>2, <1>7, <2>1 DEF WaitCovers, Watched, Entries, TargetIsPresent
  <2>3. Lives!Command({i}, Lives!Settled, "Gone")
    BY <1>5, <1>7, <2>1, <2>2
  <2>4. Lives!Remove(i)
    BY <1>3, <1>7, <2>2, <2>3 DEF Lives!Remove
  <2> QED BY <2>4 DEF Lives!Next
<1> QED BY <1>2, <1>4, <1>6, <1>7

LEMMA RecheckLives ==
  ASSUME IInv, Finished, LifeInv, Recheck
  PROVE  Lives!Next \/ UNCHANGED Lives!vars
<1>1. /\ TypeOK /\ DOMAIN status = Rows /\ ExtractsShow /\ WaitCovers /\ TargetIsPresent
  BY DEF IInv, Agreement, TypeOK, LifeInv
<1>2. /\ loop = "recheck" /\ stops = <<>> /\ loop' = "scan" /\ UNCHANGED <<worker, pkg>>
      /\ \/ UNCHANGED <<status, faults>>
         \/ Commit({target}, "Error") /\ UNCHANGED faults
         \/ Fault /\ UNCHANGED status
  BY DEF Recheck, EndWait, pkgVars
<1>3. /\ Running /\ ~Closing /\ Running' /\ ~Closing' /\ SameTasks
      /\ LifeOfSet = pkg /\ LifeOfSet' = pkg
  BY <1>2 DEF Running, Closing, SameTasks, LifeOfSet, Idle
<1>4. PICK i \in Rows : i = target
  BY <1>1, <1>2 DEF TypeOK
<1>5. i \in Torrent /\ status[i] \in {"Queued", "Completed", "Error"} /\ Idle(i)
  <2>1. target # Pkg
    BY <1>4, Identities
  <2> QED BY <1>1, <1>2, <1>4, <2>1 DEF TargetIsPresent, WaitCovers, Watched, Entries
<1>6. UNCHANGED status => \A j \in Rows : Life(j)' = Life(j)
  BY <1>2, <1>3 DEF Life
<1>7. CASE UNCHANGED <<status, faults>>
  BY <1>3, <1>6, <1>7, Unseen
<1>8. CASE Commit({i}, "Error") /\ UNCHANGED faults
  <2>1. \A j \in Rows : status'[j] = IF j = i THEN "Error" ELSE status[j]
    BY <1>1, <1>8, PutApply DEF Commit
  <2>2. Life(i)' = "Error" /\ \A j \in Rows \ {i} : Life(j)' = Life(j)
    BY <1>2, <1>3, <2>1, Presence DEF Life
  <2>3. Life(i) \in {"Queued", "Completed", "Error"}
    BY <1>3, <1>5, Presence DEF Life
  <2>4. Lives!Command({i}, {"Queued", "Completed", "Error"}, "Error")
    BY <1>3, <1>8, <2>2, <2>3, Commanding
  <2>5. Lives!RecheckFails(i)
    BY <1>3, <1>5, <2>4 DEF Lives!RecheckFails
  <2> QED BY <2>5 DEF Lives!Next
<1>9. CASE Fault /\ UNCHANGED status
  <2>1. [j \in Rows |-> Life(j)]' = [j \in Rows |-> Life(j)]
    BY <1>6, <1>9
  <2>2. {j \in Rows : ~Idle(j)}' = {j \in Rows : ~Idle(j)}
    BY <1>2 DEF Idle
  <2>3. (loop \in {"stop", "off"})' = (loop \in {"stop", "off"})
    BY <1>2
  <2>4. (faults > 0)'
    BY <1>1, <1>9, EngineAssumption DEF Fault, TypeOK
  <2>5. Lives!WriteFails
    BY <1>3, <2>1, <2>2, <2>3, <2>4 DEF Lives!WriteFails
  <2> QED BY <2>5 DEF Lives!Next
<1> QED BY <1>2, <1>4, <1>7, <1>8, <1>9

LEMMA LivesLoop ==
  IInv /\ Finished /\ LifeInv /\ Loop => Lives!Next \/ UNCHANGED Lives!vars
<1> SUFFICES ASSUME IInv, Finished, LifeInv, Loop PROVE Lives!Next \/ UNCHANGED Lives!vars
  OBVIOUS
<1>1. TypeOK /\ Rows \subseteq WorkerIds
  BY Identities DEF IInv
<1>2. CASE ScanDone \/ Wake \/ StopWorker \/ StopTimeout
  <2>1. worker = Cancelled({})
    BY <1>1 DEF Cancelled, TypeOK
  <2>2. /\ UNCHANGED <<status, pkg, faults>> /\ \E W : worker' = Cancelled(W)
        /\ Running /\ Running' /\ ~Closing /\ ~Closing'
    BY <1>2, <2>1
       DEF ScanDone, Wake, StopWorker, StopTimeout, EndWait, rowVars, pkgVars, boundVars,
           Scanning, Stopping, AwaitsExit, Running, Closing
  <2>3. SameTasks /\ \A i \in Rows : worker'[i].job = worker[i].job
    BY <1>1, <2>2, CancelledProperties DEF SameTasks, Idle
  <2>4. (\A i \in Rows : Life(i)' = Life(i)) /\ LifeOfSet' = LifeOfSet
    BY <2>2, <2>3 DEF Life, LifeOfSet
  <2> QED BY <2>2, <2>3, <2>4, Unseen
<1>3. CASE Stopped
  <2>1. /\ loop = "stop" /\ loop' = "off" /\ UNCHANGED <<durable, durablePkg, faults>>
        /\ \A i \in Rows : Idle(i)'
    BY <1>1, <1>3 DEF Stopped, rowVars, pkgVars, boundVars, Idle, NoWorker
  <2>2. /\ \A i \in Rows : Life(i)' = RestoredStatus(durable[i])
        /\ LifeOfSet' = RestoredPackage(durablePkg)
        /\ Closing /\ Closing'
    BY <2>1 DEF Life, LifeOfSet, Running, Closing
  <2>3. Lives!Crash
    BY <2>1, <2>2, CrashLives
  <2> QED BY <2>3 DEF Lives!Next
<1> QED BY <1>2, <1>3, StartLives, FinishLives, FinishPartsLives, FinishPackageLives, RemoveLives,
           RecheckLives, Loop DEF Loop

LEMMA LivesTask ==
  IInv /\ LifeInv /\ Task => UNCHANGED Lives!vars
<1> SUFFICES ASSUME IInv, LifeInv, Task PROVE UNCHANGED Lives!vars
  OBVIOUS
<1>1. /\ TypeOK /\ DOMAIN status = Rows /\ Rows \subseteq WorkerIds
      /\ \A w \in WorkerIds : worker'[w].job = worker[w].job
      /\ UNCHANGED <<durable, loop, faults>>
  BY Identities, TaskKeeps DEF IInv, TypeOK, Kept
<1>2. UNCHANGED <<pkg, durablePkg>>
  BY Task DEF Task, Report, Track, DropSlot, Return, SendExit, pkgVars
<1>3. \A i \in Rows : status'[i] = status[i] \/ (status[i] \in Active /\ status'[i] \in Active)
  <2>1. ASSUME NEW j \in Rows, Track(j), NEW i \in Rows
        PROVE  status'[i] = status[i] \/ (status[i] \in Active /\ status'[i] \in Active)
    <3>1. worker[j].report \in Active
      BY <1>1, <2>1 DEF Track, TypeOK, Worker
    <3> QED BY <1>1, <2>1, <3>1, PutApply DEF Track
  <2> QED BY <2>1, Task DEF Task, Report, DropSlot, Return, SendExit, rowVars
<1>4. \A i \in Rows : Life(i)' = Life(i)
  BY <1>1, <1>3 DEF Life, Running
<1>5. SameTasks /\ LifeOfSet' = LifeOfSet
  BY <1>1, <1>2 DEF SameTasks, Idle, LifeOfSet, Running
<1> QED BY <1>1, <1>4, <1>5, Unseen DEF Closing

LEMMA LivesRestart ==
  IInv /\ LifeInv /\ Restart => Lives!Next
<1> SUFFICES ASSUME IInv, LifeInv, Restart PROVE Lives!Next
  OBVIOUS
<1>1. /\ durable \in [Rows -> Statuses] /\ Rows \subseteq WorkerIds
  BY Identities DEF IInv, TypeOK
<1>2. /\ \A i \in Rows : status'[i] = RestoredStatus(durable[i]) /\ Idle(i)'
      /\ pkg' = RestoredPackage(durablePkg) /\ loop' = "scan" /\ UNCHANGED faults
  BY <1>1 DEF Restart, SetPackage, EndWait, NoWorker, Idle
<1>3. \A i \in Rows : Life(i)' = RestoredStatus(durable[i])
  BY <1>1, <1>2, RestoredPresence DEF Life, Running
<1>4. LifeOfSet' = RestoredPackage(durablePkg) /\ ~Closing'
  BY <1>2 DEF LifeOfSet, Running, Closing
<1>5. Lives!Crash
  BY <1>2, <1>3, <1>4, CrashLives
<1> QED BY <1>5 DEF Lives!Next

(* Whatever the queue, the slots, the database, late reports and exits and  *)
(* commands that wait do, in any order, with failed writes and kills: what  *)
(* a user sees of the rows and the archive set is a behaviour of Lifecycle. *)
THEOREM EngineIsALifecycle == Spec => ImplementsLifecycle
<1>1. Init => Lives!Init
  <2> SUFFICES ASSUME Init PROVE Lives!Init
    OBVIOUS
  <2>1. /\ Running /\ loop = "scan" /\ faults = 0 /\ pkg = "New"
        /\ \A i \in Rows : status[i] = "New" /\ Idle(i)
    BY Identities DEF Init, Running, Idle, NoWorker
  <2>2. \A i \in Rows : Life(i) = "New"
    BY <2>1, Presence DEF Life
  <2>3. [i \in Rows |-> Life(i)] = [i \in Rows |-> "New"] /\ LifeOfSet = "New"
    BY <2>1, <2>2 DEF LifeOfSet
  <2>4. {i \in Rows : ~Idle(i)} = {} /\ (loop \in {"stop", "off"}) = FALSE /\ (faults > 0) = FALSE
    BY <2>1
  <2> QED BY <2>3, <2>4 DEF Lives!Init
<1>2. IInv /\ IInv' /\ Finished /\ LifeInv /\ [Next]_vars => [Lives!Next]_(Lives!vars)
  <2>1. IInv /\ LifeInv /\ UNCHANGED vars => UNCHANGED Lives!vars
    <3> SUFFICES ASSUME UNCHANGED vars PROVE UNCHANGED Lives!vars
      OBVIOUS
    <3>1. UNCHANGED <<status, durable, worker, loop, faults, pkg, durablePkg>>
      BY DEF vars, rowVars, pkgVars, boundVars
    <3>2. /\ \A i \in Rows : Life(i)' = Life(i)
          /\ SameTasks /\ LifeOfSet' = LifeOfSet
      BY <3>1 DEF Life, SameTasks, Idle, LifeOfSet, Running
    <3> QED BY <3>1, <3>2, Unseen DEF Closing
  <2> QED BY <2>1, LivesCommand, LivesLoop, LivesTask, LivesRestart DEF Next
<1> QED BY <1>1, <1>2, FinishedInit, FinishedNext, QueueStep, LifeInit, LifeNext, Invariance, PTL
        DEF Spec, ImplementsLifecycle, Lives!Spec
=============================================================================
