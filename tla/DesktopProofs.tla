----------------------------- MODULE DesktopProofs -----------------------------
(***************************************************************************)
(* What the user is shown, proved for any values of the constants.         *)
(*                                                                         *)
(* The window follows the engine: the events on their way make the         *)
(* window's copy the engine's rows.  Every preview of a torrent is         *)
(* awaited: each number of a request lives once, with its dialog, its      *)
(* command, its task or its reply.  A launch that was handed over is in    *)
(* one place of one instance.  The settings of a draft are valid, and the  *)
(* last command that is queued has them; a save of the last settings is    *)
(* waiting, is being written, has been written, or is known to have        *)
(* failed.  RowsProofs has the rows of the list and their record.          *)
(*                                                                         *)
(* At the end these are put together: a behaviour of MCDesktop is one of   *)
(* every part, for no step moves two of them.                              *)
(***************************************************************************)
EXTENDS MCDesktop, TLAPS, FiniteSetTheorems, SequenceTheorems, WellFoundedInduction

(* A set of numbers has a least one: induction without an induction rule. *)
LEMMA LeastNatural ==
  ASSUME NEW T \in SUBSET Nat, T # {}
  PROVE  \E n \in T : \A m \in T : n <= m
<1>1. IsWellFoundedOn(OpToRel(<, Nat), Nat)
  BY NatLessThanWellFounded
<1>2. PICK n \in T : \A m \in T : <<m, n>> \notin OpToRel(<, Nat)
  BY <1>1, WFMin
<1>3. \A m \in T : ~(m < n)
  BY <1>2 DEF OpToRel
<1>. QED
  BY <1>3

(* Removing an entry from a sequence moves those behind it up. *)
LEMMA RemoveAtProperties ==
  ASSUME NEW s \in Seq(Nat), NEW j \in 1 .. Len(s)
  PROVE  LET t == Dialog!RemoveAt(s, j)
         IN  /\ t \in Seq(Nat) /\ Len(t) = Len(s) - 1
             /\ \A n \in 1 .. (Len(s) - 1) : t[n] = IF n <= j - 1 THEN s[n] ELSE s[n + 1]
<1>. DEFINE b == SubSeq(s, 1, j - 1)
            a == SubSeq(s, j + 1, Len(s))
<1>1. /\ j \in Nat /\ j >= 1 /\ j <= Len(s) /\ Len(s) \in Nat
      /\ \A m \in 1 .. Len(s) : s[m] \in Nat
  OBVIOUS
<1>2. /\ b \in Seq(Nat) /\ Len(b) = j - 1
      /\ \A n \in 1 .. (j - 1) : b[n] = s[n]
  <2>1. \A n \in 1 .. (j - 1) : s[n] \in Nat
    BY <1>1
  <2>. QED
    BY <1>1, <2>1, SubSeqProperties
<1>3. /\ a \in Seq(Nat) /\ Len(a) = Len(s) - j
      /\ \A n \in 1 .. (Len(s) - j) : a[n] = s[j + n]
  <2>1. \A n \in (j + 1) .. Len(s) : s[n] \in Nat
    BY <1>1
  <2>2. j + 1 \in Int /\ Len(s) \in Int
    BY <1>1
  <2>3. /\ a \in Seq(Nat)
        /\ Len(a) = IF j + 1 <= Len(s) THEN Len(s) - (j + 1) + 1 ELSE 0
        /\ \A n \in 1 .. (Len(s) - (j + 1) + 1) : a[n] = s[j + 1 + n - 1]
    BY <2>1, <2>2, SubSeqProperties
  <2>. HIDE DEF a
  <2>. QED
    BY <1>1, <2>3
<1>4. Dialog!RemoveAt(s, j) = b \o a
  BY DEF Dialog!RemoveAt
<1>. HIDE DEF a, b
<1>5. /\ b \o a \in Seq(Nat) /\ Len(b \o a) = Len(b) + Len(a)
      /\ \A n \in 1 .. (Len(b) + Len(a)) :
           (b \o a)[n] = IF n <= Len(b) THEN b[n] ELSE a[n - Len(b)]
  BY <1>2, <1>3, ConcatProperties
<1>6. Len(b) + Len(a) = Len(s) - 1
  BY <1>1, <1>2, <1>3
<1>7. ASSUME NEW n \in 1 .. (Len(s) - 1)
      PROVE  (b \o a)[n] = IF n <= j - 1 THEN s[n] ELSE s[n + 1]
  <2>1. (b \o a)[n] = IF n <= j - 1 THEN b[n] ELSE a[n - (j - 1)]
    <3>1. n \in 1 .. (Len(b) + Len(a))
      BY <1>6
    <3>2. (b \o a)[n] = IF n <= Len(b) THEN b[n] ELSE a[n - Len(b)]
      BY <1>5, <3>1
    <3>. QED
      BY <1>2, <3>2
  <2>2. CASE n <= j - 1
    BY <1>1, <1>2, <2>1, <2>2
  <2>3. CASE ~(n <= j - 1)
    <3>1. n - (j - 1) \in 1 .. (Len(s) - j) /\ j + (n - (j - 1)) = n + 1
      BY <1>1, <2>3
    <3>. QED
      BY <1>3, <2>1, <2>3, <3>1
  <2>. QED
    BY <2>2, <2>3
<1>8. b \o a \in Seq(Nat) /\ Len(b \o a) = Len(s) - 1
  BY <1>5, <1>6
<1>. QED
  BY <1>4, <1>7, <1>8

(* Removing a number keeps the others. *)
LEMMA RemoveFirstProperties ==
  ASSUME NEW s \in Seq(Nat), NEW e \in Nat, NEW k \in 1 .. Len(s), s[k] = e
  PROVE  LET t == Dialog!RemoveFirst(s, e)
         IN  /\ t \in Seq(Nat)
             /\ \A n \in 1 .. Len(t) : \E m \in 1 .. Len(s) : t[n] = s[m]
             /\ \A m \in 1 .. Len(s) : s[m] # e => \E n \in 1 .. Len(t) : t[n] = s[m]
<1>. DEFINE I == {i \in 1 .. Len(s) : s[i] = e}
            t == Dialog!RemoveFirst(s, e)
<1>1. PICK i \in I : \A m \in I : i <= m
  <2>1. I \subseteq Nat /\ I # {}
    OBVIOUS
  <2>. QED
    BY <2>1, LeastNatural
<1>2. PICK j \in I : t = Dialog!RemoveAt(s, j)
  <2>1. Dialog!Min(I) \in I
    BY <1>1 DEF Dialog!Min
  <2>2. t = Dialog!RemoveAt(s, Dialog!Min(I))
    BY <1>1 DEF Dialog!RemoveFirst, Dialog!SelectInSeq
  <2>. QED
    BY <2>1, <2>2
<1>3. j \in Nat /\ j >= 1 /\ j <= Len(s) /\ Len(s) \in Nat /\ s[j] = e
  OBVIOUS
<1>. HIDE DEF t
<1>4. /\ t \in Seq(Nat) /\ Len(t) = Len(s) - 1
      /\ \A n \in 1 .. (Len(s) - 1) : t[n] = IF n <= j - 1 THEN s[n] ELSE s[n + 1]
  BY <1>2, RemoveAtProperties
<1>5. ASSUME NEW n \in 1 .. Len(t) PROVE \E m \in 1 .. Len(s) : t[n] = s[m]
  <2>1. n \in 1 .. (Len(s) - 1) /\ n \in 1 .. Len(s) /\ n + 1 \in 1 .. Len(s)
    BY <1>3, <1>4
  <2>. QED
    BY <1>4, <2>1
<1>6. ASSUME NEW m \in 1 .. Len(s), s[m] # e PROVE \E n \in 1 .. Len(t) : t[n] = s[m]
  <2>1. CASE m < j
    <3>1. m \in 1 .. Len(t) /\ m \in 1 .. (Len(s) - 1) /\ m <= j - 1
      BY <1>3, <1>4, <2>1
    <3>. QED
      BY <1>4, <3>1
  <2>2. CASE j < m
    <3>1. /\ m - 1 \in 1 .. Len(t) /\ m - 1 \in 1 .. (Len(s) - 1)
          /\ ~(m - 1 <= j - 1) /\ (m - 1) + 1 = m
      BY <1>3, <1>4, <2>2
    <3>. QED
      BY <1>4, <3>1
  <2>. QED
    BY <1>3, <1>6, <2>1, <2>2
<1>. QED
  BY <1>4, <1>5, <1>6 DEF t
LEMMA CancelledTask ==
  ASSUME NEW L, NEW t \in [id : Nat, link : L, cancelled : BOOLEAN], NEW i
  PROVE  LET u == [t EXCEPT !.cancelled = @ \/ t.id = i]
         IN  /\ u \in [id : Nat, link : L, cancelled : BOOLEAN]
             /\ u.id = t.id
             /\ u.cancelled <=> t.cancelled \/ t.id = i
<1>. DEFINE b == t.cancelled \/ t.id = i
            u == [t EXCEPT !.cancelled = b]
<1>1. b \in BOOLEAN
  OBVIOUS
<1>. HIDE DEF b
<1>2. u \in [id : Nat, link : L, cancelled : BOOLEAN] /\ u.id = t.id /\ u.cancelled = b
  BY <1>1
<1>. QED
  BY <1>2 DEF b

-----------------------------------------------------------------------------
(* The event stream: what a view becomes when it applies a sequence of     *)
(* events, as the chain of the views in between.                           *)
EventAssumptions == Contents \in Nat \ {0}

Tables == UNION {[S -> Nat] : S \in SUBSET Ids}
EventKinds == {"Resync", "Changed", "Update", "Removed"}
EngineEvents == [type : EventKinds, rows : Tables]

IsChain(g, v, s, w) ==
  /\ g[0] = v /\ g[Len(s)] = w
  /\ \A n \in 1 .. Len(s) : g[n] = Events!Applied(g[n - 1], s[n])
Becomes(v, s, w) == \E g : IsChain(g, v, s, w)

LEMMA BecomesAfter ==
  ASSUME NEW s \in Seq(EngineEvents), NEW e \in EngineEvents, NEW v, NEW w, Becomes(v, s, w)
  PROVE  Becomes(v, Append(s, e), Events!Applied(w, e))
<1>. PICK g : IsChain(g, v, s, w)
  BY DEF Becomes
<1>. DEFINE t == Append(s, e)
            k == Len(s) + 1
            h == [n \in 0 .. k |-> IF n = k THEN Events!Applied(w, e) ELSE g[n]]
<1>1. /\ Len(s) \in Nat /\ Len(t) = k /\ k \in Nat /\ t[k] = e
      /\ \A n \in 1 .. Len(s) : t[n] = s[n]
  OBVIOUS
<1>2. g[0] = v /\ g[Len(s)] = w /\ \A n \in 1 .. Len(s) : g[n] = Events!Applied(g[n - 1], s[n])
  BY DEF IsChain
<1>3. h[k] = Events!Applied(w, e) /\ \A n \in 0 .. Len(s) : h[n] = g[n]
  BY <1>1
<1>. HIDE DEF h, t
<1>4. ASSUME NEW n \in 1 .. k PROVE h[n] = Events!Applied(h[n - 1], t[n])
  <2>1. CASE n = k
    <3>1. n - 1 = Len(s) /\ Len(s) \in 0 .. Len(s)
      BY <1>1, <2>1
    <3>. QED
      BY <1>1, <1>2, <1>3, <2>1, <3>1
  <2>2. CASE n # k
    <3>1. n \in 1 .. Len(s) /\ n \in 0 .. Len(s) /\ n - 1 \in 0 .. Len(s)
      BY <1>1, <2>2
    <3>. QED
      BY <1>1, <1>2, <1>3, <3>1
  <2>. QED
    BY <2>1, <2>2
<1>5. h[0] = v
  BY <1>1, <1>2, <1>3
<1>6. IsChain(h, v, t, Events!Applied(w, e))
  BY <1>1, <1>3, <1>4, <1>5 DEF IsChain
<1>. QED
  BY <1>6 DEF Becomes, t

LEMMA BecomesThen ==
  ASSUME NEW s \in Seq(EngineEvents), s # <<>>, NEW v, NEW w, Becomes(v, s, w)
  PROVE  Becomes(Events!Applied(v, Head(s)), Tail(s), w)
<1>. PICK g : IsChain(g, v, s, w)
  BY DEF Becomes
<1>. DEFINE t == Tail(s)
            h == [n \in 0 .. Len(t) |-> g[n + 1]]
<1>1. /\ Len(s) \in Nat \ {0} /\ Len(t) = Len(s) - 1 /\ Len(t) \in Nat
      /\ \A n \in 1 .. Len(t) : t[n] = s[n + 1]
      /\ Head(s) = s[1]
  OBVIOUS
<1>2. g[0] = v /\ g[Len(s)] = w /\ \A n \in 1 .. Len(s) : g[n] = Events!Applied(g[n - 1], s[n])
  BY DEF IsChain
<1>. HIDE DEF t
<1>3. \A n \in 0 .. Len(t) : h[n] = g[n + 1]
  OBVIOUS
<1>. HIDE DEF h
<1>4. h[0] = Events!Applied(v, Head(s))
  <2>1. 1 \in 1 .. Len(s) /\ 0 \in 0 .. Len(t) /\ 1 - 1 = 0 /\ 0 + 1 = 1
    BY <1>1
  <2>. QED
    BY <1>1, <1>2, <1>3, <2>1
<1>5. h[Len(t)] = w
  BY <1>1, <1>2, <1>3
<1>6. ASSUME NEW n \in 1 .. Len(t) PROVE h[n] = Events!Applied(h[n - 1], t[n])
  <2>1. /\ n \in 0 .. Len(t) /\ n - 1 \in 0 .. Len(t) /\ n + 1 \in 1 .. Len(s)
        /\ (n - 1) + 1 = n /\ (n + 1) - 1 = n
    BY <1>1
  <2>2. g[n + 1] = Events!Applied(g[(n + 1) - 1], s[n + 1])
    BY <1>2, <2>1
  <2>. QED
    BY <1>1, <1>3, <2>1, <2>2
<1>7. IsChain(h, Events!Applied(v, Head(s)), t, w)
  BY <1>4, <1>5, <1>6 DEF IsChain
<1>. QED
  BY <1>7 DEF Becomes, t

(* Every view becomes something. *)
LEMMA BecomesSomething ==
  ASSUME NEW s \in Seq(EngineEvents), NEW v
  PROVE  \E w : Becomes(v, s, w)
<1>. DEFINE Upto(g, k) == g[0] = v /\ \A n \in 1 .. k : g[n] = Events!Applied(g[n - 1], s[n])
            T == {k \in 0 .. Len(s) : ~ \E g : Upto(g, k)}
<1>1. T = {}
  <2>. SUFFICES ASSUME T # {} PROVE FALSE
    OBVIOUS
  <2>1. T \in SUBSET Nat
    OBVIOUS
  <2>2. PICK k \in T : \A m \in T : k <= m
    BY <2>1, LeastNatural
  <2>3. k # 0
    <3>1. Upto([n \in {0} |-> v], 0)
      OBVIOUS
    <3>. QED
      BY <3>1
  <2>4. k - 1 \in 0 .. Len(s) /\ k - 1 \notin T /\ k \in 1 .. Len(s)
    <3>1. k \in 0 .. Len(s) /\ Len(s) \in Nat
      OBVIOUS
    <3>. HIDE DEF T
    <3>2. ~(k <= k - 1)
      BY <3>1
    <3>3. k - 1 \notin T
      BY <2>2, <3>2
    <3>. QED
      BY <2>3, <3>1, <3>3
  <2>5. PICK g : Upto(g, k - 1)
    BY <2>4
  <2>. DEFINE h == [n \in 0 .. k |-> IF n = k THEN Events!Applied(g[k - 1], s[k]) ELSE g[n]]
  <2>6. h[k] = Events!Applied(g[k - 1], s[k]) /\ \A n \in 0 .. (k - 1) : h[n] = g[n]
    BY <2>4
  <2>. HIDE DEF h
  <2>7. \A n \in 1 .. k : h[n] = Events!Applied(h[n - 1], s[n])
    <3>. SUFFICES ASSUME NEW n \in 1 .. k PROVE h[n] = Events!Applied(h[n - 1], s[n])
      OBVIOUS
    <3>1. CASE n = k
      <4>1. k - 1 \in 0 .. (k - 1)
        BY <2>4
      <4>. QED
        BY <2>6, <3>1, <4>1
    <3>2. CASE n # k
      <4>1. n \in 1 .. (k - 1) /\ n \in 0 .. (k - 1) /\ n - 1 \in 0 .. (k - 1)
        BY <2>4, <3>2
      <4>. QED
        BY <2>5, <2>6, <4>1
    <3>. QED
      BY <3>1, <3>2
  <2>8. h[0] = v
    BY <2>4, <2>5, <2>6
  <2>9. Upto(h, k)
    BY <2>7, <2>8
  <2>. QED
    BY <2>2, <2>9
<1>2. Len(s) \in 0 .. Len(s)
  OBVIOUS
<1>3. PICK g : Upto(g, Len(s))
  BY <1>1, <1>2
<1>4. IsChain(g, v, s, g[Len(s)])
  BY <1>3 DEF IsChain
<1>. QED
  BY <1>4 DEF Becomes

(* The views in between are those of the recursive function. *)
LEMMA BecomesIsAfter ==
  ASSUME NEW s \in Seq(EngineEvents), NEW v, NEW w, Becomes(v, s, w)
  PROVE  LET after[n \in 0 .. Len(s)] == IF n = 0 THEN v ELSE Events!Applied(after[n - 1], s[n])
         IN  after[Len(s)] = w
<1>. DEFINE after[n \in 0 .. Len(s)] == IF n = 0 THEN v ELSE Events!Applied(after[n - 1], s[n])
            Fits(f) == f = [n \in 0 .. Len(s) |-> IF n = 0 THEN v ELSE Events!Applied(f[n - 1], s[n])]
<1>. PICK g : IsChain(g, v, s, w)
  BY DEF Becomes
<1>0. g[0] = v /\ g[Len(s)] = w /\ \A n \in 1 .. Len(s) : g[n] = Events!Applied(g[n - 1], s[n])
  BY DEF IsChain
<1>. DEFINE f == [n \in 0 .. Len(s) |-> g[n]]
<1>1. Len(s) \in Nat
  OBVIOUS
<1>2. Fits(f)
  <2>1. ASSUME NEW n \in 0 .. Len(s)
        PROVE  g[n] = IF n = 0 THEN v ELSE Events!Applied(f[n - 1], s[n])
    <3>1. CASE n = 0
      BY <1>0, <3>1
    <3>2. CASE n # 0
      <4>1. n \in 1 .. Len(s) /\ n - 1 \in 0 .. Len(s)
        BY <1>1, <3>2
      <4>. QED
        BY <1>0, <3>2, <4>1
    <3>. QED
      BY <3>1, <3>2
  <2>. QED
    BY <2>1
<1>3. Fits(after)
  <2>1. after = CHOOSE h : Fits(h)
    OBVIOUS
  <2>. HIDE DEF Fits, after
  <2>. QED
    BY <1>2, <2>1
<1>. HIDE DEF after, f
<1>4. \A n \in 0 .. Len(s) : after[n] = IF n = 0 THEN v ELSE Events!Applied(after[n - 1], s[n])
  BY <1>3
<1>. HIDE DEF Fits
<1>. DEFINE T == {n \in 0 .. Len(s) : after[n] # g[n]}
<1>5. T = {}
  <2>. SUFFICES ASSUME T # {} PROVE FALSE
    OBVIOUS
  <2>1. T \in SUBSET Nat
    OBVIOUS
  <2>2. PICK n \in T : \A m \in T : n <= m
    BY <2>1, LeastNatural
  <2>3. n # 0
    BY <1>0, <1>1, <1>4, <2>2
  <2>4. n \in 1 .. Len(s) /\ n - 1 \in 0 .. Len(s) /\ n - 1 \notin T
    BY <1>1, <2>1, <2>2, <2>3
  <2>. QED
    BY <1>0, <1>4, <2>2, <2>3, <2>4
<1>6. after[Len(s)] = g[Len(s)]
  BY <1>1, <1>5
<1>. QED
  BY <1>0, <1>6 DEF after

-----------------------------------------------------------------------------
Coming == inbox \o resync \o pending

StreamInv ==
  /\ rows \in Tables
  /\ stream \in {"started", "on", "lagged"} /\ lost \in BOOLEAN
  /\ inbox \in Seq(EngineEvents) /\ resync \in Seq(EngineEvents) /\ pending \in Seq(EngineEvents)
  /\ resync = <<>> \/ Len(resync) = 1
  /\ stream = "started" => pending = <<>> /\ resync = <<>> /\ ~lost
  /\ stream = "lagged" => resync = <<>>
  /\ stream # "started" /\ ~lost => Becomes(view, Coming, rows)

LEMMA AppendedToConcat ==
  ASSUME NEW s \in Seq(EngineEvents), NEW t \in Seq(EngineEvents), NEW e \in EngineEvents
  PROVE  s \o Append(t, e) = Append(s \o t, e)
<1>1. s \o Append(t, e) \in Seq(EngineEvents) /\ Append(s \o t, e) \in Seq(EngineEvents)
  OBVIOUS
<1>2. Len(s \o Append(t, e)) = Len(s) + Len(t) + 1 /\ Len(Append(s \o t, e)) = Len(s) + Len(t) + 1
  OBVIOUS
<1>3. ASSUME NEW n \in 1 .. (Len(s) + Len(t) + 1)
      PROVE  (s \o Append(t, e))[n] = Append(s \o t, e)[n]
  OBVIOUS
<1>. QED
  BY <1>1, <1>2, <1>3, SeqEqual

(* The rows change and an event tells what they have become. *)
LEMMA SentKeepsInv ==
  ASSUME StreamInv, NEW e \in EngineEvents, Events!Send(e), rows' \in Tables,
         rows' = Events!Applied(rows, e), UNCHANGED <<stream, resync, inbox, view>>
  PROVE  StreamInv'
<1>1. CASE stream = "started"
  BY <1>1 DEF StreamInv, Events!Send, Coming
<1>2. CASE stream # "started"
  <2>. DEFINE sent == Append(pending, e)
  <2>1. sent \in Seq(EngineEvents) /\ Len(sent) \in Nat /\ sent # <<>>
    BY DEF StreamInv
  <2>. HIDE DEF sent
  <2>2. \/ pending' = Tail(sent) /\ lost' = TRUE
        \/ pending' = sent /\ lost' = lost
    BY <1>2 DEF Events!Send, sent
  <2>3. CASE lost'
    <3>1. pending' \in Seq(EngineEvents)
      <4>1. Tail(sent) \in Seq(EngineEvents)
        BY <2>1
      <4>. QED
        BY <2>1, <2>2, <4>1
    <3>2. lost' \in BOOLEAN
      BY <2>2 DEF StreamInv
    <3>. QED
      BY <1>2, <2>3, <3>1, <3>2 DEF StreamInv
  <2>4. CASE ~lost'
    <3>1. pending' = Append(pending, e) /\ ~lost
      BY <2>2, <2>4 DEF sent
    <3>2. /\ pending' \in Seq(EngineEvents) /\ Coming \in Seq(EngineEvents)
          /\ Coming' = Append(Coming, e)
      <4>1. /\ inbox \o resync \in Seq(EngineEvents) /\ pending \in Seq(EngineEvents)
            /\ pending' \in Seq(EngineEvents)
        BY <3>1 DEF StreamInv
      <4>2. (inbox \o resync) \o Append(pending, e) = Append((inbox \o resync) \o pending, e)
        BY <4>1, AppendedToConcat
      <4>. QED
        BY <3>1, <4>1, <4>2 DEF Coming
    <3>3. Becomes(view, Append(Coming, e), Events!Applied(rows, e))
      BY <1>2, <3>1, <3>2, BecomesAfter DEF StreamInv
    <3>4. Becomes(view, Coming, rows)'
      BY <3>2, <3>3
    <3>. QED
      BY <1>2, <2>2, <2>4, <3>1, <3>2, <3>4 DEF StreamInv
  <2>. QED
    BY <2>3, <2>4
<1>. QED
  BY <1>1, <1>2

LEMMA ChangesAreTold ==
  ASSUME EventAssumptions, StreamInv
  PROVE  /\ \A S \in SUBSET Ids : Events!Insert(S) \/ Events!Change(S) \/ Events!Remove(S) => StreamInv'
         /\ \A i \in Ids : Events!Progress(i) => StreamInv'
<1>0. /\ DOMAIN rows \subseteq Ids /\ rows = [x \in DOMAIN rows |-> rows[x]]
      /\ \A x \in DOMAIN rows : rows[x] \in Nat
  BY DEF StreamInv, Tables
<1>1. ASSUME NEW r, DOMAIN r \subseteq Ids, r = [x \in DOMAIN r |-> r[x]], \A x \in DOMAIN r : r[x] \in Nat
      PROVE  r \in Tables /\ \A S \in SUBSET Ids : Events!Only(r, S) \in Tables
  <2>1. r \in [DOMAIN r -> Nat]
    BY <1>1
  <2>2. ASSUME NEW S \in SUBSET Ids PROVE Events!Only(r, S) \in [S \cap DOMAIN r -> Nat]
    BY <1>1 DEF Events!Only, Events!Restrict
  <2>3. ASSUME NEW D \in SUBSET Ids, NEW f \in [D -> Nat] PROVE f \in Tables
    BY DEF Tables
  <2>4. r \in Tables
    BY <1>1, <2>1, <2>3
  <2>5. ASSUME NEW S \in SUBSET Ids PROVE Events!Only(r, S) \in Tables
    <3>1. S \cap DOMAIN r \in SUBSET Ids
      OBVIOUS
    <3>. QED
      BY <2>2, <2>3, <3>1
  <2>. QED
    BY <2>4, <2>5
<1>2. ASSUME NEW S \in SUBSET Ids PROVE Events!Changing(S) \in Tables /\ DOMAIN Events!Changing(S) = DOMAIN rows
  <2>1. \A x \in DOMAIN rows : (rows[x] + 1) % Contents \in Nat
    BY <1>0 DEF EventAssumptions
  <2>2. Events!Changing(S) \in [DOMAIN rows -> Nat] /\ DOMAIN Events!Changing(S) = DOMAIN rows
    BY <1>0, <2>1 DEF Events!Changing, Events!Present
  <2>. QED
    BY <1>0, <2>2 DEF Tables
<1>3. \A r \in Tables : /\ DOMAIN r \subseteq Ids /\ r = [x \in DOMAIN r |-> r[x]]
                       /\ \A x \in DOMAIN r : r[x] \in Nat
  BY DEF Tables
<1>4. ASSUME NEW S \in SUBSET Ids, Events!Insert(S) PROVE StreamInv'
  <2>. DEFINE r == Events!Over(rows, [i \in S |-> 0])
              e == Events!Changed(r, S)
  <2>1. /\ S \cap DOMAIN rows = {} /\ rows' = r /\ Events!Send(e) /\ UNCHANGED <<stream, resync, inbox, view>>
    BY <1>4 DEF Events!Insert, Events!Present
  <2>2. /\ DOMAIN r = DOMAIN rows \cup S /\ r = [x \in DOMAIN r |-> r[x]]
        /\ \A x \in DOMAIN rows : r[x] = rows[x]
        /\ \A x \in S : r[x] = 0
    BY <2>1 DEF Events!Over
  <2>. HIDE DEF r
  <2>3. \A x \in DOMAIN r : r[x] \in Nat
    BY <1>0, <2>2
  <2>4. r \in Tables /\ Events!Only(r, S) \in Tables
    BY <1>0, <1>1, <2>2, <2>3
  <2>5. e \in EngineEvents /\ e.type = "Changed" /\ e.rows = Events!Only(r, S)
    BY <2>4 DEF Events!Changed, EngineEvents, EventKinds
  <2>. HIDE DEF e
  <2>6. Events!Applied(rows, e) = Events!Over(Events!Only(r, S), rows)
    BY <2>5 DEF Events!Applied
  <2>7. Events!Over(Events!Only(r, S), rows) = r
    BY <1>0, <2>1, <2>2 DEF Events!Over, Events!Only, Events!Restrict
  <2>. QED
    BY <2>1, <2>4, <2>5, <2>6, <2>7, SentKeepsInv
<1>5. ASSUME NEW S \in SUBSET Ids, NEW r, r = Events!Changing(S)
      PROVE  /\ r \in Tables /\ Events!Only(r, S) \in Tables /\ DOMAIN Events!Only(r, S) = S \cap DOMAIN rows
             /\ Events!Over(Events!Only(r, S), rows) = r
  <2>1. r \in Tables /\ DOMAIN r = DOMAIN rows
    BY <1>2, <1>5
  <2>2. \A x \in DOMAIN rows \ S : r[x] = rows[x]
    BY <1>5 DEF Events!Changing, Events!Present
  <2>3. r = [x \in DOMAIN r |-> r[x]]
    BY <1>3, <2>1
  <2>4. Events!Only(r, S) \in Tables
    BY <1>1, <1>3, <2>1
  <2>5. Events!Over(Events!Only(r, S), rows) = r
    BY <2>1, <2>2, <2>3 DEF Events!Over, Events!Only, Events!Restrict
  <2>. QED
    BY <2>1, <2>4, <2>5 DEF Events!Only, Events!Restrict
<1>6. ASSUME NEW S \in SUBSET Ids, Events!Change(S) PROVE StreamInv'
  <2>. DEFINE r == Events!Changing(S)
              e == Events!Changed(r, S)
  <2>1. rows' = r /\ Events!Send(e) /\ UNCHANGED <<stream, resync, inbox, view>>
    BY <1>6 DEF Events!Change
  <2>. HIDE DEF r
  <2>2. r \in Tables /\ Events!Only(r, S) \in Tables /\ Events!Over(Events!Only(r, S), rows) = r
    BY <1>5 DEF r
  <2>3. e \in EngineEvents /\ e.type = "Changed" /\ e.rows = Events!Only(r, S)
    BY <2>2 DEF Events!Changed, EngineEvents, EventKinds
  <2>. HIDE DEF e
  <2>4. Events!Applied(rows, e) = r
    BY <2>2, <2>3 DEF Events!Applied
  <2>. QED
    BY <2>1, <2>2, <2>3, <2>4, SentKeepsInv
<1>7. ASSUME NEW i \in Ids, Events!Progress(i) PROVE StreamInv'
  <2>. DEFINE r == Events!Changing({i})
              e == [type |-> "Update", rows |-> Events!Only(r, {i})]
  <2>1. rows' = r /\ Events!Send(e) /\ UNCHANGED <<stream, resync, inbox, view>>
    BY <1>7 DEF Events!Progress
  <2>. HIDE DEF r
  <2>2. /\ r \in Tables /\ Events!Only(r, {i}) \in Tables /\ Events!Over(Events!Only(r, {i}), rows) = r
        /\ DOMAIN Events!Only(r, {i}) \subseteq DOMAIN rows
    BY <1>5 DEF r
  <2>3. e \in EngineEvents /\ e.type = "Update" /\ e.rows = Events!Only(r, {i})
    BY <2>2 DEF EngineEvents, EventKinds
  <2>. HIDE DEF e
  <2>4. Events!Applied(rows, e) = r
    BY <2>2, <2>3 DEF Events!Applied
  <2>. QED
    BY <2>1, <2>2, <2>3, <2>4, SentKeepsInv
<1>8. ASSUME NEW S \in SUBSET Ids, Events!Remove(S) PROVE StreamInv'
  <2>. DEFINE r == Events!Only(rows, Events!Present \ S)
              e == [type |-> "Removed", rows |-> Events!Only(rows, S)]
  <2>1. rows' = r /\ Events!Send(e) /\ UNCHANGED <<stream, resync, inbox, view>>
    BY <1>8 DEF Events!Remove
  <2>2. r \in Tables /\ Events!Only(rows, S) \in Tables /\ DOMAIN Events!Only(rows, S) = S \cap DOMAIN rows
    <3>1. Events!Present \ S \in SUBSET Ids
      BY <1>0 DEF Events!Present
    <3>. QED
      BY <1>0, <1>1, <3>1 DEF Events!Only, Events!Restrict
  <2>3. e \in EngineEvents /\ e.type = "Removed" /\ e.rows = Events!Only(rows, S)
    BY <2>2 DEF EngineEvents, EventKinds
  <2>4. r = Events!Only(rows, DOMAIN rows \ (S \cap DOMAIN rows))
    <3>1. DOMAIN rows \ (S \cap DOMAIN rows) = Events!Present \ S
      BY DEF Events!Present
    <3>. QED
      BY <3>1
  <2>. HIDE DEF e, r
  <2>5. Events!Applied(rows, e) = r
    BY <2>2, <2>3, <2>4 DEF Events!Applied
  <2>. QED
    BY <2>1, <2>2, <2>3, <2>5, SentKeepsInv
<1>. QED
  BY <1>4, <1>6, <1>7, <1>8

(* The stream moves events on, in their order. *)
LEMMA MovedKeepsInv ==
  ASSUME StreamInv, NEW a \in EngineEvents, NEW t \in Seq(EngineEvents),
         inbox' = Append(inbox, a), UNCHANGED <<rows, lost, view, stream>>, stream = "on",
         \/ resync = <<a>> /\ resync' = <<>> /\ pending' = pending
         \/ resync = <<>> /\ resync' = <<>> /\ pending = <<a>> \o t /\ pending' = t
  PROVE  StreamInv'
<1>1. /\ inbox \in Seq(EngineEvents) /\ pending \in Seq(EngineEvents) /\ <<a>> \in Seq(EngineEvents)
      /\ inbox \o <<a>> \in Seq(EngineEvents) /\ <<>> \in Seq(EngineEvents)
  BY DEF StreamInv
<1>2. inbox' = inbox \o <<a>>
  BY <1>1, AppendIsConcat
<1>3. Coming' = Coming
  <2>1. CASE resync = <<a>> /\ resync' = <<>> /\ pending' = pending
    <3>1. (inbox \o <<a>>) \o <<>> = inbox \o <<a>>
      BY <1>1, ConcatEmptySeq
    <3>. QED
      BY <1>2, <2>1, <3>1 DEF Coming
  <2>2. CASE resync = <<>> /\ resync' = <<>> /\ pending = <<a>> \o t /\ pending' = t
    <3>1. (inbox \o <<a>>) \o <<>> = inbox \o <<a>> /\ inbox \o <<>> = inbox
      BY <1>1, ConcatEmptySeq
    <3>2. (inbox \o <<a>>) \o t = inbox \o (<<a>> \o t)
      BY <1>1, ConcatAssociative
    <3>. QED
      BY <1>2, <2>2, <3>1, <3>2 DEF Coming
  <2>. QED
    BY <2>1, <2>2
<1>4. inbox' \in Seq(EngineEvents) /\ resync' = <<>> /\ pending' \in Seq(EngineEvents)
  BY <1>1, <1>2
<1>5. resync' \in Seq(EngineEvents)
  BY <1>1, <1>4
<1>6. stream' = "on"
  OBVIOUS
<1>. QED
  BY <1>3, <1>4, <1>5, <1>6 DEF StreamInv

(* A snapshot comes last; whatever the view is by then becomes the rows. *)
LEMMA SnapshotKeepsInv ==
  ASSUME StreamInv, stream' = "on", UNCHANGED <<rows, view>>, pending' = <<>>, lost' = FALSE,
         resync = <<>>,
         \/ inbox' = Append(inbox, Events!Snapshot) /\ resync' = <<>>
         \/ inbox' = inbox /\ resync' = <<Events!Snapshot>>
  PROVE  StreamInv'
<1>. DEFINE e == Events!Snapshot
<1>1. e \in EngineEvents /\ e.type = "Resync" /\ e.rows = rows
  BY DEF Events!Snapshot, EngineEvents, EventKinds, StreamInv
<1>. HIDE DEF e
<1>2. inbox \in Seq(EngineEvents) /\ <<e>> \in Seq(EngineEvents) /\ <<>> \in Seq(EngineEvents)
      /\ Append(inbox, e) \in Seq(EngineEvents) /\ inbox \o <<e>> = Append(inbox, e)
  BY <1>1, AppendIsConcat DEF StreamInv
<1>3. Coming' = Append(inbox, e)
  <2>1. CASE inbox' = Append(inbox, e) /\ resync' = <<>>
    BY <1>2, <2>1, ConcatEmptySeq DEF Coming
  <2>2. CASE inbox' = inbox /\ resync' = <<e>>
    BY <1>2, <2>2, ConcatEmptySeq DEF Coming
  <2>. QED
    BY <2>1, <2>2 DEF e
<1>4. PICK w : Becomes(view, inbox, w)
  BY <1>2, BecomesSomething
<1>5. Events!Applied(w, e) = rows
  BY <1>1 DEF Events!Applied, Events!AppliedSnapshot
<1>6. Becomes(view, Append(inbox, e), rows)
  BY <1>1, <1>2, <1>4, <1>5, BecomesAfter
<1>7. Becomes(view, Coming, rows)'
  BY <1>3, <1>6
<1>8. /\ inbox' \in Seq(EngineEvents) /\ resync' \in Seq(EngineEvents) /\ pending' \in Seq(EngineEvents)
      /\ resync' = <<>> \/ Len(resync') = 1
  <2>1. Len(<<e>>) = 1
    OBVIOUS
  <2>. QED
    BY <1>2, <2>1 DEF e
<1>. QED
  BY <1>7, <1>8 DEF StreamInv

LEMMA StreamNext ==
  ASSUME EventAssumptions, StreamInv, [Events!Next]_(Events!vars)
  PROVE  StreamInv'
<1>1. CASE UNCHANGED Events!vars
  BY <1>1 DEF Events!vars, StreamInv, Coming
<1>2. CASE Events!Start
  BY <1>2, SnapshotKeepsInv DEF Events!Start, StreamInv
<1>3. CASE Events!Resubscribe
  BY <1>3, SnapshotKeepsInv DEF Events!Resubscribe, Events!Deliver, StreamInv
<1>4. CASE Events!Receive
  <2>1. stream = "on" /\ UNCHANGED <<rows, lost, view>>
    BY <1>4 DEF Events!Receive
  <2>2. CASE resync # <<>>
    <3>1. Len(resync) = 1 /\ resync \in Seq(EngineEvents)
      BY <2>2 DEF StreamInv
    <3>2. Head(resync) \in EngineEvents /\ resync = <<Head(resync)>>
      BY <3>1
    <3>3. inbox' = Append(inbox, Head(resync)) /\ resync' = <<>> /\ UNCHANGED <<stream, pending>>
      BY <1>4, <2>2 DEF Events!Receive, Events!Deliver
    <3>4. pending \in Seq(EngineEvents)
      BY DEF StreamInv
    <3>. QED
      BY <2>1, <3>2, <3>3, <3>4, MovedKeepsInv
  <2>3. CASE resync = <<>> /\ lost
    <3>1. stream' = "lagged" /\ UNCHANGED <<pending, resync, inbox>>
      BY <1>4, <2>3 DEF Events!Receive
    <3>. QED
      BY <2>1, <2>3, <3>1 DEF StreamInv, Coming
  <2>4. CASE resync = <<>> /\ ~lost
    <3>1. /\ pending # <<>> /\ inbox' = Append(inbox, Head(pending)) /\ pending' = Tail(pending)
          /\ UNCHANGED <<stream, resync>>
      BY <1>4, <2>4 DEF Events!Receive, Events!Deliver
    <3>2. pending \in Seq(EngineEvents)
      BY DEF StreamInv
    <3>3. /\ Head(pending) \in EngineEvents /\ Tail(pending) \in Seq(EngineEvents)
          /\ pending = <<Head(pending)>> \o Tail(pending)
      BY <3>1, <3>2, HeadTailProperties
    <3>. QED
      BY <2>1, <2>4, <3>1, <3>3, MovedKeepsInv
  <2>. QED
    BY <2>2, <2>3, <2>4 DEF StreamInv
<1>5. CASE Events!Apply
  <2>1. /\ inbox # <<>> /\ view' = Events!Applied(view, Head(inbox)) /\ inbox' = Tail(inbox)
        /\ UNCHANGED <<rows, stream, pending, lost, resync>>
    BY <1>5 DEF Events!Apply
  <2>2. /\ inbox \in Seq(EngineEvents) /\ resync \in Seq(EngineEvents) /\ pending \in Seq(EngineEvents)
    BY DEF StreamInv
  <2>. DEFINE s == resync \o pending
  <2>3. s \in Seq(EngineEvents) /\ Coming = inbox \o s
    BY <2>2, ConcatAssociative DEF Coming
  <2>4. Tail(inbox) \in Seq(EngineEvents) /\ Coming' = Tail(inbox) \o s
    <3>1. Tail(inbox) \in Seq(EngineEvents)
      BY <2>1, <2>2
    <3>2. Coming' = (Tail(inbox) \o resync) \o pending
      BY <2>1 DEF Coming
    <3>3. (Tail(inbox) \o resync) \o pending = Tail(inbox) \o (resync \o pending)
      BY <2>2, <3>1, ConcatAssociative
    <3>. QED
      BY <3>1, <3>2, <3>3
  <2>. HIDE DEF s
  <2>5. /\ inbox \o s \in Seq(EngineEvents) /\ inbox \o s # <<>>
        /\ Head(inbox \o s) = Head(inbox) /\ Tail(inbox \o s) = Tail(inbox) \o s
    <3>1. /\ inbox \o s \in Seq(EngineEvents) /\ Len(inbox \o s) = Len(inbox) + Len(s)
          /\ Len(inbox) \in Nat \ {0} /\ Len(s) \in Nat
      BY <2>1, <2>2, <2>3
    <3>2. inbox \o s # <<>> /\ Head(inbox \o s) = Head(inbox)
      BY <2>1, <2>2, <2>3, <3>1
    <3>. DEFINE t == Tail(inbox \o s)
                u == Tail(inbox) \o s
    <3>3. t \in Seq(EngineEvents) /\ Len(t) = Len(inbox) + Len(s) - 1
      BY <3>1, <3>2
    <3>4. u \in Seq(EngineEvents) /\ Len(u) = Len(inbox) + Len(s) - 1
      BY <2>1, <2>2, <2>3, <2>4
    <3>5. ASSUME NEW n \in 1 .. (Len(inbox) + Len(s) - 1) PROVE t[n] = u[n]
      <4>1. t[n] = (inbox \o s)[n + 1]
        BY <3>1, <3>2
      <4>2. (inbox \o s)[n + 1] = IF n + 1 <= Len(inbox) THEN inbox[n + 1] ELSE s[n + 1 - Len(inbox)]
        BY <2>2, <2>3, <3>1
      <4>3. Len(Tail(inbox)) = Len(inbox) - 1
        BY <2>1, <2>2
      <4>4. u[n] = IF n <= Len(inbox) - 1 THEN Tail(inbox)[n] ELSE s[n - (Len(inbox) - 1)]
        BY <2>3, <2>4, <3>1, <4>3
      <4>5. n <= Len(inbox) - 1 => Tail(inbox)[n] = inbox[n + 1]
        BY <2>1, <2>2, <3>1
      <4>6. n - (Len(inbox) - 1) = n + 1 - Len(inbox) /\ (n + 1 <= Len(inbox) <=> n <= Len(inbox) - 1)
        BY <3>1
      <4>. QED
        BY <4>1, <4>2, <4>4, <4>5, <4>6
    <3>. HIDE DEF t, u
    <3>6. t = u
      BY <3>3, <3>4, <3>5, SeqEqual
    <3>. QED
      BY <3>1, <3>2, <3>6 DEF t, u
  <2>6. ASSUME Becomes(view, Coming, rows) PROVE Becomes(view', Coming', rows')
    BY <2>1, <2>3, <2>4, <2>5, <2>6, BecomesThen
  <2>. QED
    BY <2>1, <2>4, <2>6 DEF StreamInv
<1>. QED
  BY <1>1, <1>2, <1>3, <1>4, <1>5, ChangesAreTold DEF Events!Next

LEMMA StreamSpec == EventAssumptions => (Events!Spec => []Events!ViewFollows)
<1>. SUFFICES ASSUME EventAssumptions PROVE Events!Spec => []Events!ViewFollows
  OBVIOUS
<1>1. Events!Init => StreamInv
  <2>. SUFFICES ASSUME Events!Init PROVE StreamInv
    OBVIOUS
  <2>1. rows \in Tables
    BY DEF Events!Init, Tables
  <2>2. stream = "started" /\ pending = <<>> /\ ~lost /\ resync = <<>> /\ inbox = <<>> /\ lost = FALSE
    BY DEF Events!Init
  <2>3. <<>> \in Seq(EngineEvents)
    OBVIOUS
  <2>. QED
    BY <2>1, <2>2, <2>3 DEF StreamInv
<1>2. StreamInv /\ [Events!Next]_(Events!vars) => StreamInv'
  BY StreamNext
<1>3. StreamInv => Events!ViewFollows
  <2>. SUFFICES ASSUME StreamInv, stream # "started", ~lost
                PROVE  LET after[n \in 0 .. Len(Coming)] ==
                             IF n = 0 THEN view ELSE Events!Applied(after[n - 1], Coming[n])
                       IN  after[Len(Coming)] = rows
    BY DEF Events!ViewFollows, Coming
  <2>1. Coming \in Seq(EngineEvents) /\ Becomes(view, Coming, rows)
    BY DEF StreamInv, Coming
  <2>. QED
    BY <2>1, BecomesIsAfter
<1>. QED
  BY <1>1, <1>2, <1>3, PTL DEF Events!Spec

-----------------------------------------------------------------------------
(* Numbering the requests.                                                  *)

AddAssumptions ==
  /\ IsFiniteSet(Http) /\ IsFiniteSet(Magnets)
  /\ EarlyMemory \in Nat \ {0}

(* The module FiniteSets that AddDialog extends is that of the theorems. *)
LEMMA SameCardinality == \A S : Dialog!Cardinality(S) = Cardinality(S)
  BY Zenon DEF Dialog!Cardinality, Cardinality

(* Requests are numbered from the next number on, each by itself. *)
LEMMA NumbersAreFresh ==
  ASSUME NEW S, IsFiniteSet(S), next \in Nat
  PROVE  LET ids == Dialog!Numbered(S)
         IN  /\ Cardinality(S) \in Nat
             /\ DOMAIN ids = S
             /\ \A l \in S : ids[l] \in Nat /\ next < ids[l] /\ ids[l] <= next + Cardinality(S)
             /\ \A l, k \in S : ids[l] = ids[k] => l = k
<1>. DEFINE n == Cardinality(S)
            s == Dialog!SetToSeq(S)
            P(l) == CHOOSE i \in DOMAIN s : s[i] = l
            ids == Dialog!Numbered(S)
<1>1. n \in Nat /\ ExistsBijection(1 .. n, S)
  BY FS_CardinalityType
<1>2. PICK f \in [1 .. n -> S] : f \in Bijection(1 .. n, S)
  BY <1>1 DEF ExistsBijection, Bijection, Injection
<1>3. s \in [1 .. n -> S] /\ Dialog!IsInjective(s)
  <2>1. Dialog!IsInjective(f)
    BY <1>2 DEF Bijection, Injection, IsInjective, Dialog!IsInjective
  <2>2. s = CHOOSE g \in [1 .. n -> S] : Dialog!IsInjective(g)
    BY SameCardinality DEF Dialog!SetToSeq
  <2>. QED
    BY <2>1, <2>2, <1>2
<1>4. \A l \in S : P(l) \in 1 .. n /\ s[P(l)] = l
  <2>. SUFFICES ASSUME NEW l \in S PROVE \E i \in DOMAIN s : s[i] = l
    BY <1>3
  <2>1. s \in Injection(1 .. n, S)
    BY <1>3 DEF Injection, IsInjective, Dialog!IsInjective
  <2>2. IsFiniteSet(1 .. n) /\ Cardinality(1 .. n) = n
    BY <1>1, FS_Interval
  <2>3. s \in Surjection(1 .. n, S)
    BY <2>1, <2>2, FS_Injection
  <2>. QED
    BY <2>3, <1>3 DEF Surjection
<1>5. ids = [l \in S |-> next + P(l)]
  BY DEF Dialog!Numbered
<1>. HIDE DEF s, P, ids, n
<1>6. \A l \in S : ids[l] \in Nat /\ next < ids[l] /\ ids[l] <= next + n
  BY <1>1, <1>4, <1>5
<1>7. \A l, k \in S : ids[l] = ids[k] => l = k
  <2>. SUFFICES ASSUME NEW l \in S, NEW k \in S, ids[l] = ids[k] PROVE l = k
    OBVIOUS
  <2>1. P(l) = P(k)
    BY <1>1, <1>4, <1>5
  <2>. QED
    BY <2>1, <1>4
<1>. QED
  BY <1>1, <1>5, <1>6, <1>7 DEF n, ids

-----------------------------------------------------------------------------
(* The previews.  A request has one life: it is on its way, runs or has     *)
(* ended.                                                                   *)

Asking(i) == \E c \in commands : c.what = "preview" /\ c.id = i
Cancelling(i) == \E c \in commands : c.what = "cancel" /\ c.id = i
Running(i) == \E t \in tasks : t.id = i
Ended(i) == \E r \in replies : r.id = i
Early(i) == \E n \in 1 .. Len(early) : early[n] = i
Awaited(i) == \E l \in DOMAIN links : links[l].state = "resolving" /\ links[l].request = i

PreviewTypes ==
  /\ next \in Nat
  /\ lines \subseteq Dialog!Links
  /\ \A l \in DOMAIN links :
       links[l] \in [state : Dialog!States \ {"stopped"}, request : Nat]
  /\ commands \subseteq [what : {"cancel", "preview"}, link : Dialog!Links \cup {"none"}, id : Nat]
  /\ early \in Seq(Nat)
  /\ tasks \subseteq [id : Nat, link : Dialog!Links \cup {"none"}, cancelled : BOOLEAN]
  /\ replies \subseteq [id : Nat, state : {"ready", "blocked", "failed", "stopped"}]
  /\ previews \subseteq Nat /\ done \subseteq Nat

(* A closed dialog has no links. *)
ClosedIsEmpty == ~open => DOMAIN links = {}

(* A number is given once. *)
NumbersAreGiven ==
  /\ \A l \in DOMAIN links : links[l].request <= next
  /\ \A c \in commands : c.id <= next
  /\ \A n \in 1 .. Len(early) : early[n] <= next
  /\ \A t \in tasks : t.id <= next
  /\ \A r \in replies : r.id <= next
  /\ \A i \in previews \cup done : i <= next

OneRequestEach ==
  \A l, k \in DOMAIN links :
    /\ links[l].state = "resolving" /\ links[k].state = "resolving"
    /\ links[l].request = links[k].request
    => l = k

OneLife ==
  /\ \A c, d \in commands :
       c.what = "preview" /\ d.what = "preview" /\ c.id = d.id => c = d
  /\ \A t, u \in tasks : t.id = u.id => t = u
  /\ \A i : Asking(i) => ~Running(i) /\ ~Ended(i) /\ i \notin previews \cup done
  /\ \A i : Running(i) => ~Ended(i) /\ i \notin done
  /\ \A t \in tasks : t.cancelled \/ t.id \in previews

(* A preview that nobody waits for is or will be cancelled, before it is    *)
(* started or after, and one that is waited for is not.                     *)
AskedAreWanted ==
  \A c \in commands : c.what = "preview" =>
    Awaited(c.id) \/ Cancelling(c.id) \/ Early(c.id) \/ c.id \in forgotten
RunningAreWanted ==
  \A t \in tasks : t.cancelled \/ Awaited(t.id) \/ Cancelling(t.id) \/ t.id \in forgotten
WantedAreNotStopped ==
  \A i : Awaited(i) =>
    /\ ~Cancelling(i) /\ ~Early(i)
    /\ \A t \in tasks : t.id = i => ~t.cancelled
    /\ \A r \in replies : r.id = i => r.state # "stopped"

DialogInv ==
  /\ PreviewTypes /\ ClosedIsEmpty /\ NumbersAreGiven /\ OneRequestEach /\ OneLife
  /\ AskedAreWanted /\ RunningAreWanted /\ WantedAreNotStopped

(* What becomes of the links when the text changes or the dialog closes:   *)
(* one is kept as it is, is asked for under a new number, or its request is *)
(* cancelled.                                                               *)
Rewritten ==
  /\ next' \in Nat /\ next <= next'
  /\ lines' \subseteq Dialog!Links
  /\ \A l \in DOMAIN links' :
       /\ links'[l] \in [state : Dialog!States \ {"stopped"}, request : Nat]
       /\ links'[l].request <= next'
       /\ links'[l].state = "resolving" =>
            (l \in DOMAIN links /\ links'[l] = links[l]) \/ next < links'[l].request
  /\ \A l, k \in DOMAIN links' :
       links'[l].state = "resolving" /\ links'[k].state = "resolving"
         /\ links'[l].request = links'[k].request /\ next < links'[l].request
       => l = k
  /\ commands \subseteq commands'
  /\ \A l \in DOMAIN links : links[l].state = "resolving" =>
       \/ l \in DOMAIN links' /\ links'[l] = links[l]
       \/ \E c \in commands' : c.what = "cancel" /\ c.id = links[l].request
  /\ \A c \in commands' \ commands :
       /\ c \in [what : {"cancel", "preview"}, link : Dialog!Links \cup {"none"}, id : Nat]
       /\ c.id <= next'
       /\ c.what = "cancel" => c.id <= next /\ ~Awaited(c.id)'
       /\ c.what = "preview" =>
            /\ next < c.id /\ Awaited(c.id)'
            /\ \A d \in commands' \ commands : d.what = "preview" /\ d.id = c.id => c = d
  /\ open' \/ DOMAIN links' = {}

LEMMA RewritingKeepsInv ==
  ASSUME DialogInv, Rewritten, UNCHANGED <<Dialog!engineVars, replies>>
  PROVE  DialogInv'
<1>. USE DEF Dialog!engineVars
<1>1. PreviewTypes'
  BY DEF DialogInv, PreviewTypes, Rewritten
<1>2. ClosedIsEmpty'
  BY DEF ClosedIsEmpty, Rewritten
<1>3. NumbersAreGiven'
  <2>1. \A c \in commands' : c.id <= next'
    <3>. SUFFICES ASSUME NEW c \in commands' PROVE c.id <= next'
      OBVIOUS
    <3>1. CASE c \in commands
      BY <3>1 DEF DialogInv, PreviewTypes, NumbersAreGiven, Rewritten
    <3>2. CASE c \notin commands
      BY <3>2 DEF Rewritten
    <3>. QED
      BY <3>1, <3>2
  <2>2. \A i \in Nat : i <= next => i <= next'
    BY DEF DialogInv, PreviewTypes, Rewritten
  <2>3. \A n \in 1 .. Len(early) : early[n] \in Nat
    BY DEF DialogInv, PreviewTypes
  <2>. QED
    BY <2>1, <2>2, <2>3 DEF DialogInv, PreviewTypes, NumbersAreGiven, Rewritten
<1>4. OneRequestEach'
  <2>. SUFFICES ASSUME NEW l \in DOMAIN links', NEW k \in DOMAIN links',
                       links'[l].state = "resolving", links'[k].state = "resolving",
                       links'[l].request = links'[k].request
                PROVE  l = k
    BY DEF OneRequestEach
  <2>1. CASE next < links'[l].request
    BY <2>1 DEF Rewritten
  <2>2. CASE ~(next < links'[l].request)
    <3>1. l \in DOMAIN links /\ links'[l] = links[l] /\ k \in DOMAIN links /\ links'[k] = links[k]
      BY <2>2 DEF Rewritten
    <3>. QED
      BY <3>1 DEF DialogInv, OneRequestEach
  <2>. QED
    BY <2>1, <2>2
<1>5. \A i : Cancelling(i) => Cancelling(i)'
  BY DEF Cancelling, Rewritten
<1>6. \A i : Awaited(i) => Awaited(i)' \/ Cancelling(i)'
  BY DEF Awaited, Cancelling, Rewritten
<1>7. \A c \in commands' : c.what = "preview" => c \in commands \/ (next < c.id /\ Awaited(c.id)')
  BY DEF Rewritten
<1>8. \A i : Asking(i)' => Asking(i) \/ (next < i /\ i \in Nat)
  BY <1>7, <1>1 DEF Asking, PreviewTypes
<1>9. OneLife'
  <2>1. ASSUME NEW c \in commands', NEW d \in commands',
               c.what = "preview", d.what = "preview", c.id = d.id
        PROVE  c = d
    <3>1. CASE c \in commands /\ d \in commands
      BY <2>1, <3>1 DEF DialogInv, OneLife
    <3>2. CASE c \notin commands /\ d \notin commands
      BY <2>1, <3>2 DEF Rewritten
    <3>3. \A e \in commands : e.id \in Nat /\ e.id <= next
      BY DEF DialogInv, PreviewTypes, NumbersAreGiven
    <3>4. \A e \in commands' \ commands : e.what = "preview" => next < e.id
      BY DEF Rewritten
    <3>5. next \in Nat
      BY DEF DialogInv, PreviewTypes
    <3>6. ~(c \in commands /\ d \notin commands) /\ ~(c \notin commands /\ d \in commands)
      <4>1. ~(c \in commands /\ d \notin commands)
        BY <2>1, <3>3, <3>4, <3>5
      <4>2. ~(d \in commands /\ c \notin commands)
        BY <2>1, <3>3, <3>4, <3>5
      <4>. QED
        BY <4>1, <4>2
    <3>. QED
      BY <3>1, <3>2, <3>6
  <2>2. ASSUME NEW i, Asking(i)' PROVE (~Running(i) /\ ~Ended(i) /\ i \notin previews \cup done)'
    <3>1. CASE Asking(i)
      BY <3>1 DEF DialogInv, OneLife, Running, Ended
    <3>2. CASE next < i /\ i \in Nat
      <4>1. \A t \in tasks : t.id <= next
        BY DEF DialogInv, NumbersAreGiven
      <4>2. \A r \in replies : r.id <= next
        BY DEF DialogInv, NumbersAreGiven
      <4>3. \A j \in previews \cup done : j <= next
        BY DEF DialogInv, NumbersAreGiven
      <4>4. next \in Nat /\ ~(i <= next)
        BY <3>2 DEF DialogInv, PreviewTypes
      <4>. QED
        BY <4>1, <4>2, <4>3, <4>4 DEF Running, Ended
    <3>. QED
      BY <2>2, <1>8, <3>1, <3>2
  <2>3. (\A i : Running(i) => ~Ended(i) /\ i \notin done)'
    BY DEF DialogInv, OneLife, Running, Ended
  <2>4. (/\ \A t, u \in tasks : t.id = u.id => t = u
         /\ \A t \in tasks : t.cancelled \/ t.id \in previews)'
    BY DEF DialogInv, OneLife
  <2>. QED
    BY <2>1, <2>2, <2>3, <2>4 DEF OneLife
<1>10. AskedAreWanted'
  <2>1. \A i : Early(i)' <=> Early(i)
    BY DEF Early
  <2>. QED
    BY <1>5, <1>6, <1>7, <2>1 DEF DialogInv, AskedAreWanted
<1>11. RunningAreWanted'
  BY <1>5, <1>6 DEF DialogInv, RunningAreWanted
<1>12. WantedAreNotStopped'
  <2>. SUFFICES ASSUME NEW i, Awaited(i)'
                PROVE  (/\ ~Cancelling(i) /\ ~Early(i)
                        /\ \A t \in tasks : t.id = i => ~t.cancelled
                        /\ \A r \in replies : r.id = i => r.state # "stopped")'
    BY DEF WantedAreNotStopped
  <2>1. i \in Nat
    BY DEF Awaited, Rewritten
  <2>2. Awaited(i) \/ next < i
    BY DEF Awaited, Rewritten
  <2>3. ASSUME Cancelling(i)' PROVE FALSE
    <3>1. PICK c \in commands' : c.what = "cancel" /\ c.id = i
      BY <2>3 DEF Cancelling
    <3>2. c \in commands
      BY <3>1 DEF Rewritten
    <3>3. Cancelling(i) /\ c.id <= next /\ next \in Nat
      BY <3>1, <3>2 DEF Cancelling, DialogInv, NumbersAreGiven, PreviewTypes
    <3>. QED
      BY <2>1, <2>2, <3>1, <3>3 DEF DialogInv, WantedAreNotStopped
  <2>4. CASE Awaited(i)
    BY <2>3, <2>4 DEF DialogInv, WantedAreNotStopped, Early
  <2>5. CASE next < i
    <3>1. \A t \in tasks : t.id <= next
      BY DEF DialogInv, NumbersAreGiven
    <3>2. \A r \in replies : r.id <= next
      BY DEF DialogInv, NumbersAreGiven
    <3>3. \A n \in 1 .. Len(early) : early[n] <= next
      BY DEF DialogInv, NumbersAreGiven
    <3>4. next \in Nat /\ ~(i <= next)
      BY <2>1, <2>5 DEF DialogInv, PreviewTypes
    <3>. QED
      BY <2>3, <3>1, <3>2, <3>3, <3>4 DEF Early
  <2>. QED
    BY <2>2, <2>4, <2>5
<1>. QED
  BY <1>1, <1>2, <1>3, <1>4, <1>9, <1>10, <1>11, <1>12 DEF DialogInv

(* `sync_links`, of the text of an open dialog or of a new one. *)
LEMMA SyncingRewrites ==
  ASSUME AddAssumptions, DialogInv, NEW T \in SUBSET Dialog!Links, NEW old,
         old = links \/ (DOMAIN old = {} /\ DOMAIN links = {}),
         Dialog!SyncLinks(T, old), open'
  PROVE  Rewritten
<1>. DEFINE A == Dialog!Asks(T, old)
            ids == Dialog!Numbered(A)
            Kept == Dialog!Kept(T, old)
            Fresh == Dialog!Fresh(T, old)
            Up == Dialog!GivesUp(T, old)
            Old == Dialog!Cancelled(T, old)
<1>1. IsFiniteSet(A) /\ A \subseteq Dialog!Links
  <2>1. IsFiniteSet(Dialog!Links)
    BY FS_Union DEF AddAssumptions, Dialog!Links
  <2>2. A \subseteq Dialog!Links
    BY DEF Dialog!Asks, Dialog!Fresh
  <2>. QED
    BY <2>1, <2>2, FS_Subset
<1>2. next \in Nat
  BY DEF DialogInv, PreviewTypes
<1>3. /\ Cardinality(A) \in Nat
      /\ DOMAIN ids = A
      /\ \A l \in A : ids[l] \in Nat /\ next < ids[l] /\ ids[l] <= next + Cardinality(A)
      /\ \A l, k \in A : ids[l] = ids[k] => l = k
  BY <1>1, <1>2, NumbersAreFresh
<1>4. /\ next' = next + Cardinality(A)
      /\ lines' = T
      /\ links' = Dialog!Synced(T, old, ids)
      /\ commands' = commands \cup Dialog!Cancel(Old) \cup Dialog!Ask(ids)
  BY <1>3, SameCardinality DEF Dialog!SyncLinks
<1>5. next' \in Nat /\ next <= next'
  BY <1>2, <1>3, <1>4
<1>6. /\ DOMAIN links' = Kept \cup Fresh
      /\ \A l \in Up : links'[l] = Dialog!Unasked
      /\ \A l \in Kept \ Up : links'[l] = links[l]
      /\ \A l \in A : links'[l] = [state |-> "resolving", request |-> ids[l]]
      /\ \A l \in Fresh \ A : links'[l] = Dialog!Unasked
      /\ Up \subseteq Kept /\ Kept \subseteq DOMAIN links /\ Kept \subseteq DOMAIN old
      /\ A \subseteq Fresh /\ Fresh \cap DOMAIN old = {}
  <2>1. /\ Up \subseteq Kept /\ Kept \subseteq DOMAIN links /\ Kept \subseteq DOMAIN old
        /\ A \subseteq Fresh /\ Fresh \cap DOMAIN old = {}
    BY DEF Dialog!GivesUp, Dialog!Kept, Dialog!Asks, Dialog!Fresh
  <2>2. links' = [l \in Kept \cup Fresh |->
                    IF l \in Up THEN Dialog!Unasked
                    ELSE IF l \in DOMAIN old THEN old[l]
                    ELSE IF l \in A THEN [state |-> "resolving", request |-> ids[l]]
                    ELSE Dialog!Unasked]
    BY <1>4 DEF Dialog!Synced
  <2>3. Kept # {} => old = links
    BY <2>1
  <2>. HIDE DEF A, ids, Kept, Fresh, Up
  <2>. QED
    BY <2>1, <2>2, <2>3
<1>7. Old = {links[l].request : l \in {k \in (DOMAIN links \ Kept) \cup Up : links[k].state = "resolving"}}
  <2>1. CASE old = links
    BY <2>1 DEF Dialog!Cancelled
  <2>2. CASE DOMAIN old = {} /\ DOMAIN links = {}
    BY <2>2, <1>6 DEF Dialog!Cancelled
  <2>. QED
    BY <2>1, <2>2
<1>8. \A l \in DOMAIN links : /\ links[l] \in [state : Dialog!States \ {"stopped"}, request : Nat]
                              /\ links[l].request \in Nat /\ links[l].request <= next
  <2>1. \A l \in DOMAIN links : links[l] \in [state : Dialog!States \ {"stopped"}, request : Nat]
    BY DEF DialogInv, PreviewTypes
  <2>. QED
    BY <2>1 DEF DialogInv, NumbersAreGiven
<1>9. Dialog!Unasked \in [state : Dialog!States \ {"stopped"}, request : Nat]
      /\ Dialog!Unasked.state # "resolving" /\ Dialog!Unasked.request = 0
  BY DEF Dialog!Unasked, Dialog!States
<1>10. \A l \in A : LET r == [state |-> "resolving", request |-> ids[l]]
                    IN r \in [state : Dialog!States \ {"stopped"}, request : Nat]
  BY <1>3 DEF Dialog!States
<1>11. \A c \in Dialog!Cancel(Old) :
         /\ c \in [what : {"cancel", "preview"}, link : Dialog!Links \cup {"none"}, id : Nat]
         /\ c.what = "cancel" /\ c.id \in Old /\ c.id <= next
  <2>1. \A i \in Old : i \in Nat /\ i <= next
    <3>. HIDE DEF A, ids, Kept, Fresh, Up, Old
    <3>. QED
      BY <1>6, <1>7, <1>8
  <2>. HIDE DEF Old
  <2>. QED
    BY <2>1 DEF Dialog!Cancel
<1>12. \A c \in Dialog!Ask(ids) :
         /\ c \in [what : {"cancel", "preview"}, link : Dialog!Links \cup {"none"}, id : Nat]
         /\ c.what = "preview" /\ c.link \in A /\ c.id = ids[c.link]
         /\ c = [what |-> "preview", link |-> c.link, id |-> c.id]
  <2>1. \A c \in Dialog!Ask(ids) : \E l \in A : c = [what |-> "preview", link |-> l, id |-> ids[l]]
    BY <1>3 DEF Dialog!Ask
  <2>. HIDE DEF A, ids
  <2>2. A \subseteq Dialog!Links /\ \A l \in A : ids[l] \in Nat
    BY <1>1, <1>3
  <2>. QED
    BY <2>1, <2>2
<1>. HIDE DEF A, ids, Kept, Fresh, Up, Old
<1>13. lines' \subseteq Dialog!Links
  BY <1>4
<1>14. \A l \in DOMAIN links' :
         /\ links'[l] \in [state : Dialog!States \ {"stopped"}, request : Nat]
         /\ links'[l].request <= next'
         /\ links'[l].state = "resolving" =>
              \/ l \in Kept \ Up /\ l \in DOMAIN links /\ links'[l] = links[l]
              \/ l \in A /\ next < links'[l].request /\ links'[l].request = ids[l]
  <2>. SUFFICES ASSUME NEW l \in DOMAIN links'
                PROVE  /\ links'[l] \in [state : Dialog!States \ {"stopped"}, request : Nat]
                       /\ links'[l].request <= next'
                       /\ links'[l].state = "resolving" =>
                            \/ l \in Kept \ Up /\ l \in DOMAIN links /\ links'[l] = links[l]
                            \/ l \in A /\ next < links'[l].request /\ links'[l].request = ids[l]
    OBVIOUS
  <2>1. CASE l \in Up \cup (Fresh \ A)
    <3>1. links'[l] = Dialog!Unasked
      BY <1>6, <2>1
    <3>. QED
      BY <1>5, <1>9, <3>1
  <2>2. CASE l \in Kept \ Up
    <3>1. l \in DOMAIN links /\ links'[l] = links[l]
      BY <1>6, <2>2
    <3>2. links[l].request <= next'
      BY <3>1, <1>2, <1>5, <1>8
    <3>. QED
      BY <1>8, <2>2, <3>1, <3>2
  <2>3. CASE l \in A
    <3>1. links'[l] = [state |-> "resolving", request |-> ids[l]]
      BY <1>6, <2>3
    <3>2. ids[l] \in Nat /\ next < ids[l] /\ ids[l] <= next'
      BY <1>3, <1>4, <2>3
    <3>. QED
      BY <1>10, <2>3, <3>1, <3>2
  <2>. QED
    BY <1>6, <2>1, <2>2, <2>3
<1>15. \A l, k \in DOMAIN links' :
         links'[l].state = "resolving" /\ links'[k].state = "resolving"
           /\ links'[l].request = links'[k].request /\ next < links'[l].request
         => l = k
  <2>. SUFFICES ASSUME NEW l \in DOMAIN links', NEW k \in DOMAIN links',
                       links'[l].state = "resolving", links'[k].state = "resolving",
                       links'[l].request = links'[k].request, next < links'[l].request
                PROVE  l = k
    OBVIOUS
  <2>1. l \in A /\ k \in A /\ ids[l] = ids[k]
    BY <1>2, <1>8, <1>14
  <2>. QED
    BY <1>3, <2>1
<1>16. \A l \in DOMAIN links : links[l].state = "resolving" =>
         \/ l \in DOMAIN links' /\ links'[l] = links[l]
         \/ \E c \in commands' : c.what = "cancel" /\ c.id = links[l].request
  <2>. SUFFICES ASSUME NEW l \in DOMAIN links, links[l].state = "resolving", l \notin Kept \ Up
                PROVE  \E c \in commands' : c.what = "cancel" /\ c.id = links[l].request
    BY <1>6
  <2>1. links[l].request \in Old
    BY <1>7
  <2>2. [what |-> "cancel", link |-> "none", id |-> links[l].request] \in commands'
    BY <2>1, <1>4 DEF Dialog!Cancel
  <2>. QED
    BY <2>2
<1>17. \A c \in commands' \ commands :
         /\ c \in [what : {"cancel", "preview"}, link : Dialog!Links \cup {"none"}, id : Nat]
         /\ c.id <= next'
         /\ c.what = "cancel" => c.id <= next /\ ~Awaited(c.id)'
         /\ c.what = "preview" =>
              /\ next < c.id /\ Awaited(c.id)'
              /\ \A d \in commands' \ commands : d.what = "preview" /\ d.id = c.id => c = d
  <2>. SUFFICES ASSUME NEW c \in commands' \ commands
       PROVE  /\ c \in [what : {"cancel", "preview"}, link : Dialog!Links \cup {"none"}, id : Nat]
              /\ c.id <= next'
              /\ c.what = "cancel" => c.id <= next /\ ~Awaited(c.id)'
              /\ c.what = "preview" =>
                   /\ next < c.id /\ Awaited(c.id)'
                   /\ \A d \in commands' \ commands : d.what = "preview" /\ d.id = c.id => c = d
    OBVIOUS
  <2>1. CASE c \in Dialog!Cancel(Old)
    <3>1. c.id \in Nat /\ c.id <= next /\ c.id <= next'
      BY <1>2, <1>5, <1>11, <2>1
    <3>2. ~Awaited(c.id)'
      <4>. SUFFICES ASSUME NEW l \in DOMAIN links', links'[l].state = "resolving",
                           links'[l].request = c.id
                    PROVE  FALSE
        BY DEF Awaited
      <4>1. l \in Kept \ Up /\ l \in DOMAIN links /\ links'[l] = links[l]
        BY <1>2, <1>14, <3>1
      <4>2. PICK k \in (DOMAIN links \ Kept) \cup Up : links[k].state = "resolving" /\ links[k].request = c.id
        BY <1>7, <1>11, <2>1
      <4>3. k \in DOMAIN links
        BY <1>6
      <4>4. l = k
        BY <4>1, <4>2, <4>3 DEF DialogInv, OneRequestEach
      <4>. QED
        BY <4>1, <4>4
    <3>. QED
      BY <1>11, <2>1, <3>1, <3>2
  <2>2. CASE c \in Dialog!Ask(ids)
    <3>1. c.link \in A /\ c.id = ids[c.link] /\ c.what = "preview"
      BY <1>12, <2>2
    <3>2. c.id \in Nat /\ next < c.id /\ c.id <= next'
      BY <1>3, <1>4, <3>1
    <3>3. Awaited(c.id)'
      <4>1. c.link \in DOMAIN links' /\ links'[c.link] = [state |-> "resolving", request |-> c.id]
        BY <1>6, <3>1
      <4>. QED
        BY <4>1 DEF Awaited
    <3>4. ASSUME NEW d \in commands' \ commands, d.what = "preview", d.id = c.id PROVE c = d
      <4>1. d \in Dialog!Ask(ids)
        BY <1>4, <1>11, <3>4
      <4>2. d.link \in A /\ d.id = ids[d.link]
        BY <1>12, <4>1
      <4>3. d.link = c.link
        BY <1>3, <3>1, <3>4, <4>2
      <4>. QED
        BY <1>12, <2>2, <3>4, <4>1, <4>3
    <3>. QED
      BY <1>12, <2>2, <3>1, <3>2, <3>3, <3>4
  <2>. QED
    BY <1>4, <2>1, <2>2
<1>18. commands \subseteq commands'
  BY <1>4
<1>. QED
  BY <1>5, <1>13, <1>14, <1>15, <1>16, <1>17, <1>18 DEF Rewritten

(* `close_overlay` and the end of a submission: every request is cancelled. *)
LEMMA ClosingRewrites ==
  ASSUME DialogInv, Dialog!Closed, next' = next,
         commands' = commands \cup Dialog!Cancel(Dialog!Requests(links))
  PROVE  Rewritten
<1>1. DOMAIN links' = {} /\ lines' = {}
  BY DEF Dialog!Closed
<1>2. next \in Nat /\ next' \in Nat /\ next <= next'
  BY DEF DialogInv, PreviewTypes
<1>3. \A l \in DOMAIN links : links[l].request \in Nat /\ links[l].request <= next
  BY DEF DialogInv, PreviewTypes, NumbersAreGiven
<1>4. \A c \in commands' \ commands :
         /\ c \in [what : {"cancel", "preview"}, link : Dialog!Links \cup {"none"}, id : Nat]
         /\ c.id <= next /\ c.what = "cancel"
  BY <1>3 DEF Dialog!Cancel, Dialog!Requests
<1>5. \A i : ~Awaited(i)'
  BY <1>1 DEF Awaited
<1>6. \A l \in DOMAIN links : links[l].state = "resolving" =>
         \E c \in commands' : c.what = "cancel" /\ c.id = links[l].request
  <2>. SUFFICES ASSUME NEW l \in DOMAIN links, links[l].state = "resolving"
                PROVE  \E c \in commands' : c.what = "cancel" /\ c.id = links[l].request
    OBVIOUS
  <2>1. [what |-> "cancel", link |-> "none", id |-> links[l].request] \in commands'
    BY DEF Dialog!Cancel, Dialog!Requests
  <2>. QED
    BY <2>1
<1>. QED
  BY <1>1, <1>2, <1>4, <1>5, <1>6 DEF Rewritten

-----------------------------------------------------------------------------
LEMMA PreviewedKeepsInv ==
  ASSUME DialogInv, NEW r \in replies, Dialog!Previewed(r)
  PROVE  DialogInv'
<1>. DEFINE W == Dialog!Waits(r)
<1>1. /\ replies' = replies \ {r}
      /\ UNCHANGED <<open, lines, commands, previews, early, forgotten, tasks, done, next>>
  BY DEF Dialog!Previewed, Dialog!engineVars
<1>2. r \in [id : Nat, state : {"ready", "blocked", "failed", "stopped"}]
  BY DEF DialogInv, PreviewTypes
<1>3. W = {l \in DOMAIN links : links[l].request = r.id /\ links[l].state = "resolving"}
  BY DEF Dialog!Waits
<1>4. \A l \in DOMAIN links : links[l] \in [state : Dialog!States \ {"stopped"}, request : Nat]
  BY DEF DialogInv, PreviewTypes
<1>5. W # {} => r.state \in {"ready", "blocked", "failed"}
  BY <1>2, <1>3 DEF DialogInv, WantedAreNotStopped, Awaited
<1>6. /\ DOMAIN links' \subseteq DOMAIN links
      /\ \A l \in DOMAIN links \ W : l \in DOMAIN links' /\ links'[l] = links[l]
      /\ \A l \in DOMAIN links' \cap W : links'[l] = [state |-> r.state, request |-> r.id]
  <2>1. CASE links' = [l \in DOMAIN links \ W |-> links[l]]
    BY <2>1
  <2>2. CASE links' = [l \in DOMAIN links |->
                         IF l \in W THEN [links[l] EXCEPT !.state = r.state] ELSE links[l]]
    <3>1. \A l \in W : [links[l] EXCEPT !.state = r.state] = [state |-> r.state, request |-> r.id]
      BY <1>3, <1>4
    <3>. HIDE DEF W
    <3>. QED
      BY <1>3, <2>2, <3>1
  <2>. QED
    BY <2>1, <2>2 DEF Dialog!Previewed
<1>. HIDE DEF W
<1>7. \A i : Awaited(i)' <=> Awaited(i) /\ i # r.id
  <2>1. \A l \in DOMAIN links' :
           links'[l].state = "resolving" => l \in DOMAIN links \ W
    BY <1>5, <1>6
  <2>. QED
    BY <1>3, <1>6, <2>1 DEF Awaited
<1>8. /\ \A i : Asking(i)' <=> Asking(i)
      /\ \A i : Cancelling(i)' <=> Cancelling(i)
      /\ \A i : Early(i)' <=> Early(i)
      /\ \A i : Running(i)' <=> Running(i)
      /\ \A i : Ended(i)' => Ended(i)
      /\ Ended(r.id)
  BY <1>1 DEF Asking, Cancelling, Early, Running, Ended
<1>9. PreviewTypes'
  <2>1. \A l \in DOMAIN links' : links'[l] \in [state : Dialog!States \ {"stopped"}, request : Nat]
    <3>. SUFFICES ASSUME NEW l \in DOMAIN links'
                  PROVE  links'[l] \in [state : Dialog!States \ {"stopped"}, request : Nat]
      OBVIOUS
    <3>1. CASE l \in W
      <4>1. [state |-> r.state, request |-> r.id] \in [state : Dialog!States \ {"stopped"}, request : Nat]
        BY <1>2, <1>5, <3>1 DEF Dialog!States
      <4>. QED
        BY <1>6, <3>1, <4>1
    <3>2. CASE l \notin W
      BY <1>4, <1>6, <3>2
    <3>. QED
      BY <3>1, <3>2
  <2>. QED
    BY <1>1, <2>1 DEF DialogInv, PreviewTypes
<1>10. ClosedIsEmpty'
  BY <1>1, <1>6 DEF DialogInv, ClosedIsEmpty
<1>11. NumbersAreGiven'
  <2>1. r.id <= next
    BY DEF DialogInv, NumbersAreGiven
  <2>2. \A l \in DOMAIN links' : links'[l].request <= next
    BY <1>6, <2>1 DEF DialogInv, NumbersAreGiven
  <2>. QED
    BY <1>1, <2>2 DEF DialogInv, NumbersAreGiven
<1>12. OneRequestEach'
  <2>1. \A l \in DOMAIN links' : links'[l].state = "resolving" =>
           l \in DOMAIN links /\ links'[l] = links[l]
    BY <1>5, <1>6
  <2>. QED
    BY <2>1 DEF DialogInv, OneRequestEach
<1>13. OneLife'
  BY <1>1, <1>8 DEF DialogInv, OneLife
<1>14. ~Asking(r.id) /\ ~Running(r.id)
  BY <1>8 DEF DialogInv, OneLife
<1>15. AskedAreWanted'
  BY <1>1, <1>7, <1>8, <1>14 DEF DialogInv, AskedAreWanted, Asking
<1>16. RunningAreWanted'
  BY <1>1, <1>7, <1>8, <1>14 DEF DialogInv, RunningAreWanted, Running
<1>17. WantedAreNotStopped'
  BY <1>1, <1>7, <1>8 DEF DialogInv, WantedAreNotStopped
<1>. QED
  BY <1>9, <1>10, <1>11, <1>12, <1>13, <1>15, <1>16, <1>17 DEF DialogInv

LEMMA StartPreviewKeepsInv ==
  ASSUME AddAssumptions, DialogInv, NEW c \in commands, Dialog!StartPreview(c)
  PROVE  DialogInv'
<1>1. /\ c.what = "preview" /\ commands' = commands \ {c}
      /\ UNCHANGED <<open, lines, links, forgotten, done, next>>
  BY DEF Dialog!StartPreview, Dialog!dialogVars
<1>2. /\ c.id \in Nat /\ c.link \in Dialog!Links \cup {"none"} /\ c.id <= next
      /\ early \in Seq(Nat)
  BY DEF DialogInv, PreviewTypes, NumbersAreGiven
<1>3. Dialog!Contains(early, c.id) <=> Early(c.id)
  BY DEF Dialog!Contains, Early
<1>4. /\ Asking(c.id) /\ ~Running(c.id) /\ ~Ended(c.id) /\ c.id \notin previews \cup done
      /\ \A i : Asking(i)' <=> Asking(i) /\ i # c.id
      /\ \A i : Cancelling(i)' <=> Cancelling(i)
      /\ \A i : Awaited(i)' <=> Awaited(i)
  <2>1. Asking(c.id)
    BY <1>1 DEF Asking
  <2>2. \A d \in commands : d.what = "preview" /\ d.id = c.id => d = c
    BY <1>1 DEF DialogInv, OneLife
  <2>3. \A i : Asking(i)' <=> Asking(i) /\ i # c.id
    BY <1>1, <2>2 DEF Asking
  <2>4. \A i : Cancelling(i)' <=> Cancelling(i)
    BY <1>1 DEF Cancelling
  <2>5. \A i : Awaited(i)' <=> Awaited(i)
    BY <1>1 DEF Awaited
  <2>. QED
    BY <2>1, <2>3, <2>4, <2>5 DEF DialogInv, OneLife
<1>5. CASE Early(c.id)
  <2>. DEFINE r0 == [id |-> c.id, state |-> "stopped"]
  <2>1. /\ early' = Dialog!RemoveFirst(early, c.id)
        /\ replies' = replies \cup {r0}
        /\ UNCHANGED <<previews, tasks>>
    BY <1>3, <1>5 DEF Dialog!StartPreview, Dialog!Reply
  <2>2. PICK k \in 1 .. Len(early) : early[k] = c.id
    BY <1>5 DEF Early
  <2>3. /\ early' \in Seq(Nat)
        /\ \A n \in 1 .. Len(early') : \E m \in 1 .. Len(early) : early'[n] = early[m]
        /\ \A m \in 1 .. Len(early) :
             early[m] # c.id => \E n \in 1 .. Len(early') : early'[n] = early[m]
    BY <1>2, <2>1, <2>2, RemoveFirstProperties
  <2>4. /\ \A i : Early(i)' => Early(i)
        /\ \A i : Early(i) => i = c.id \/ Early(i)'
    BY <2>3 DEF Early
  <2>5. \A i : Running(i)' <=> Running(i)
    BY <2>1 DEF Running
  <2>6. \A i : Ended(i)' <=> Ended(i) \/ i = c.id
    <3>1. r0.id = c.id
      OBVIOUS
    <3>. HIDE DEF r0
    <3>. QED
      BY <2>1, <3>1 DEF Ended
  <2>7. ~Awaited(c.id)
    BY <1>5 DEF DialogInv, WantedAreNotStopped
  <2>8. PreviewTypes'
    <3>1. [id |-> c.id, state |-> "stopped"] \in [id : Nat, state : {"ready", "blocked", "failed", "stopped"}]
      BY <1>2
    <3>. QED
      BY <1>1, <2>1, <2>3, <3>1 DEF DialogInv, PreviewTypes
  <2>9. ClosedIsEmpty' /\ OneRequestEach'
    BY <1>1 DEF DialogInv, ClosedIsEmpty, OneRequestEach
  <2>10. NumbersAreGiven'
    <3>1. \A n \in 1 .. Len(early') : early'[n] <= next
      BY <2>3 DEF DialogInv, NumbersAreGiven
    <3>2. \A r \in replies' : r.id <= next
      BY <1>2, <2>1 DEF DialogInv, NumbersAreGiven
    <3>. QED
      BY <1>1, <2>1, <3>1, <3>2 DEF DialogInv, NumbersAreGiven
  <2>11. OneLife'
    <3>1. \A i : Asking(i)' => (~Running(i) /\ ~Ended(i) /\ i \notin previews \cup done)'
      BY <1>1, <1>4, <2>1, <2>5, <2>6 DEF DialogInv, OneLife
    <3>2. \A i : Running(i)' => (~Ended(i) /\ i \notin done)'
      BY <1>1, <1>4, <2>5, <2>6 DEF DialogInv, OneLife
    <3>. QED
      BY <1>1, <2>1, <3>1, <3>2 DEF DialogInv, OneLife
  <2>12. AskedAreWanted'
    <3>. SUFFICES ASSUME NEW d \in commands', d.what = "preview"
                  PROVE  (Awaited(d.id) \/ Cancelling(d.id) \/ Early(d.id) \/ d.id \in forgotten)'
      BY DEF AskedAreWanted
    <3>1. d \in commands /\ d.id # c.id
      BY <1>1 DEF DialogInv, OneLife
    <3>. QED
      BY <1>1, <1>4, <2>4, <3>1 DEF DialogInv, AskedAreWanted
  <2>13. RunningAreWanted'
    BY <1>1, <1>4, <2>1 DEF DialogInv, RunningAreWanted
  <2>14. WantedAreNotStopped'
    BY <1>4, <2>1, <2>4, <2>7 DEF DialogInv, WantedAreNotStopped
  <2>. QED
    BY <2>8, <2>9, <2>10, <2>11, <2>12, <2>13, <2>14 DEF DialogInv
<1>6. CASE ~Early(c.id)
  <2>. DEFINE t == [id |-> c.id, link |-> c.link, cancelled |-> FALSE]
  <2>1. /\ previews' = previews \cup {c.id} /\ tasks' = tasks \cup {t}
        /\ UNCHANGED <<early, replies>>
    BY <1>3, <1>6 DEF Dialog!StartPreview
  <2>2. /\ \A i : Early(i)' <=> Early(i)
        /\ \A i : Ended(i)' <=> Ended(i)
        /\ \A i : Running(i)' <=> Running(i) \/ i = c.id
    <3>1. t.id = c.id
      OBVIOUS
    <3>. HIDE DEF t
    <3>. QED
      BY <2>1, <3>1 DEF Early, Ended, Running
  <2>3. PreviewTypes'
    <3>1. t \in [id : Nat, link : Dialog!Links \cup {"none"}, cancelled : BOOLEAN]
      BY <1>2
    <3>. HIDE DEF t
    <3>. QED
      BY <1>1, <1>2, <2>1, <3>1 DEF DialogInv, PreviewTypes
  <2>4. ClosedIsEmpty' /\ OneRequestEach'
    BY <1>1 DEF DialogInv, ClosedIsEmpty, OneRequestEach
  <2>5. NumbersAreGiven'
    BY <1>1, <1>2, <2>1 DEF DialogInv, NumbersAreGiven
  <2>6. OneLife'
    <3>1. \A i : Asking(i)' => (~Running(i) /\ ~Ended(i) /\ i \notin previews \cup done)'
      BY <1>1, <1>4, <2>1, <2>2 DEF DialogInv, OneLife
    <3>2. \A i : Running(i)' => (~Ended(i) /\ i \notin done)'
      BY <1>1, <1>4, <2>2 DEF DialogInv, OneLife
    <3>3. \A u \in tasks : u.id # c.id
      BY <1>4 DEF Running
    <3>4. \A u, v \in tasks' : u.id = v.id => u = v
      <4>1. t.id = c.id
        OBVIOUS
      <4>. HIDE DEF t
      <4>. QED
        BY <2>1, <3>3, <4>1 DEF DialogInv, OneLife
    <3>. QED
      BY <1>1, <2>1, <3>1, <3>2, <3>4 DEF DialogInv, OneLife
  <2>7. AskedAreWanted'
    BY <1>1, <1>4, <2>2 DEF DialogInv, AskedAreWanted
  <2>8. RunningAreWanted'
    <3>1. Awaited(c.id) \/ Cancelling(c.id) \/ c.id \in forgotten
      BY <1>1, <1>6 DEF DialogInv, AskedAreWanted
    <3>. QED
      BY <1>1, <1>4, <2>1, <3>1 DEF DialogInv, RunningAreWanted
  <2>9. WantedAreNotStopped'
    BY <1>4, <2>1, <2>2 DEF DialogInv, WantedAreNotStopped
  <2>. QED
    BY <2>3, <2>4, <2>5, <2>6, <2>7, <2>8, <2>9 DEF DialogInv
<1>. QED
  BY <1>5, <1>6

LEMMA CancelPreviewKeepsInv ==
  ASSUME AddAssumptions, DialogInv, NEW c \in commands, Dialog!CancelPreview(c)
  PROVE  DialogInv'
<1>1. /\ c.what = "cancel" /\ commands' = commands \ {c}
      /\ UNCHANGED <<open, lines, links, done, replies, next>>
  BY DEF Dialog!CancelPreview, Dialog!dialogVars
<1>2. /\ c.id \in Nat /\ c.id <= next /\ early \in Seq(Nat)
      /\ forgotten \subseteq forgotten'
  BY DEF DialogInv, PreviewTypes, NumbersAreGiven, Dialog!CancelPreview, Dialog!Remember
<1>3. /\ \A i : Asking(i)' <=> Asking(i)
      /\ \A i : Cancelling(i) => i = c.id \/ Cancelling(i)'
      /\ \A i : Cancelling(i)' => Cancelling(i)
      /\ \A i : Awaited(i)' <=> Awaited(i)
      /\ \A i : Ended(i)' <=> Ended(i)
  BY <1>1 DEF Asking, Cancelling, Awaited, Ended
<1>4. ~Awaited(c.id)
  BY <1>1 DEF DialogInv, WantedAreNotStopped, Cancelling
<1>5. ClosedIsEmpty' /\ OneRequestEach'
  BY <1>1 DEF DialogInv, ClosedIsEmpty, OneRequestEach
<1>6. CASE c.id \in previews
  <2>1. /\ previews' = previews \ {c.id}
        /\ tasks' = {[t EXCEPT !.cancelled = @ \/ t.id = c.id] : t \in tasks}
        /\ UNCHANGED <<early, forgotten>>
    BY <1>6 DEF Dialog!CancelPreview
  <2>2. \A t \in tasks : /\ t \in [id : Nat, link : Dialog!Links \cup {"none"}, cancelled : BOOLEAN]
                         /\ t.id <= next
    BY DEF DialogInv, PreviewTypes, NumbersAreGiven
  <2>. DEFINE Warned(t) == [t EXCEPT !.cancelled = @ \/ t.id = c.id]
  <2>3. \A t \in tasks :
          /\ Warned(t) \in [id : Nat, link : Dialog!Links \cup {"none"}, cancelled : BOOLEAN]
          /\ Warned(t).id = t.id /\ (Warned(t).cancelled <=> t.cancelled \/ t.id = c.id)
    BY <2>2, CancelledTask
  <2>4. /\ \A t \in tasks : Warned(t) \in tasks'
        /\ \A u \in tasks' : \E t \in tasks : u = Warned(t)
    BY <2>1
  <2>. HIDE DEF Warned
  <2>5. /\ \A i : Running(i)' <=> Running(i)
        /\ \A i : Early(i)' <=> Early(i)
    BY <2>1, <2>3, <2>4 DEF Running, Early
  <2>6. PreviewTypes'
    <3>1. \A u \in tasks' : u \in [id : Nat, link : Dialog!Links \cup {"none"}, cancelled : BOOLEAN]
      BY <2>3, <2>4
    <3>. QED
      BY <1>1, <2>1, <3>1 DEF DialogInv, PreviewTypes
  <2>7. NumbersAreGiven'
    <3>1. \A u \in tasks' : u.id <= next
      BY <2>2, <2>3, <2>4
    <3>. QED
      BY <1>1, <2>1, <3>1 DEF DialogInv, NumbersAreGiven
  <2>8. OneLife'
    <3>1. \A u, v \in tasks' : u.id = v.id => u = v
      <4>. SUFFICES ASSUME NEW u \in tasks', NEW v \in tasks', u.id = v.id PROVE u = v
        OBVIOUS
      <4>1. PICK t \in tasks : u.id = t.id /\ u = Warned(t)
        BY <2>3, <2>4
      <4>2. PICK s \in tasks : v.id = s.id /\ v = Warned(s)
        BY <2>3, <2>4
      <4>3. t = s
        BY <4>1, <4>2 DEF DialogInv, OneLife
      <4>. QED
        BY <4>1, <4>2, <4>3
    <3>2. \A u \in tasks' : u.cancelled \/ u.id \in previews'
      BY <2>1, <2>3, <2>4 DEF DialogInv, OneLife
    <3>. QED
      BY <1>1, <1>3, <2>1, <2>5, <3>1, <3>2 DEF DialogInv, OneLife
  <2>9. ~Asking(c.id)
    BY <1>6 DEF DialogInv, OneLife
  <2>10. AskedAreWanted'
    BY <1>1, <1>3, <2>1, <2>5, <2>9 DEF DialogInv, AskedAreWanted, Asking
  <2>11. RunningAreWanted'
    <3>. SUFFICES ASSUME NEW u \in tasks', ~u.cancelled
                  PROVE  (Awaited(u.id) \/ Cancelling(u.id) \/ u.id \in forgotten)'
      BY DEF RunningAreWanted
    <3>1. PICK t \in tasks : u.id = t.id /\ ~t.cancelled /\ t.id # c.id
      BY <2>3, <2>4
    <3>. QED
      BY <1>3, <2>1, <3>1 DEF DialogInv, RunningAreWanted
  <2>12. WantedAreNotStopped'
    <3>1. \A i : Awaited(i)' => \A u \in tasks' : u.id = i => ~u.cancelled
      BY <1>3, <1>4, <2>3, <2>4 DEF DialogInv, WantedAreNotStopped
    <3>. QED
      BY <1>1, <1>3, <2>5, <3>1 DEF DialogInv, WantedAreNotStopped
  <2>. QED
    BY <1>5, <2>6, <2>7, <2>8, <2>10, <2>11, <2>12 DEF DialogInv
<1>7. CASE c.id \notin previews
  <2>1. Dialog!Remember(c.id) /\ UNCHANGED <<previews, tasks>>
    BY <1>7 DEF Dialog!CancelPreview
  <2>2. /\ early' \in Seq(Nat)
        /\ Early(c.id)'
        /\ \A i : Early(i)' => Early(i) \/ i = c.id
        /\ \A i : Early(i) => Early(i)' \/ i \in forgotten'
    <3>1. CASE Len(early) = EarlyMemory
      <4>. DEFINE r == Tail(early)
      <4>1. early' = Append(r, c.id) /\ forgotten' = forgotten \cup {Head(early)} /\ early # <<>>
        BY <2>1, <3>1 DEF Dialog!Remember, AddAssumptions
      <4>2. /\ r \in Seq(Nat) /\ Len(r) = Len(early) - 1 /\ Len(early) \in Nat \ {0}
            /\ \A n \in 1 .. Len(r) : r[n] = early[n + 1]
            /\ Head(early) = early[1]
        BY <1>2, <4>1
      <4>. HIDE DEF r
      <4>3. /\ early' \in Seq(Nat) /\ Len(early') = Len(r) + 1
            /\ \A n \in 1 .. Len(r) : early'[n] = r[n]
            /\ early'[Len(r) + 1] = c.id
        BY <1>2, <4>1, <4>2
      <4>4. Early(c.id)'
        BY <4>2, <4>3 DEF Early
      <4>5. ASSUME NEW i, Early(i)' PROVE Early(i) \/ i = c.id
        <5>1. PICK n \in 1 .. Len(early') : early'[n] = i
          BY <4>5 DEF Early
        <5>2. CASE n = Len(r) + 1
          BY <4>3, <5>1, <5>2
        <5>3. CASE n # Len(r) + 1
          <6>1. n \in 1 .. Len(r) /\ n + 1 \in 1 .. Len(early)
            BY <4>2, <4>3, <5>3
          <6>. QED
            BY <4>2, <4>3, <5>1, <6>1 DEF Early
        <5>. QED
          BY <5>2, <5>3
      <4>6. ASSUME NEW i, Early(i) PROVE Early(i)' \/ i \in forgotten'
        <5>1. PICK n \in 1 .. Len(early) : early[n] = i
          BY <4>6 DEF Early
        <5>2. CASE n = 1
          BY <4>1, <4>2, <5>1, <5>2
        <5>3. CASE n # 1
          <6>1. n - 1 \in 1 .. Len(r) /\ n - 1 \in 1 .. Len(early') /\ (n - 1) + 1 = n
            BY <4>2, <4>3, <5>3
          <6>. QED
            BY <4>2, <4>3, <5>1, <6>1 DEF Early
        <5>. QED
          BY <5>2, <5>3
      <4>. QED
        BY <4>3, <4>4, <4>5, <4>6
    <3>2. CASE Len(early) # EarlyMemory
      <4>1. early' = Append(early, c.id) /\ forgotten' = forgotten
        BY <2>1, <3>2 DEF Dialog!Remember
      <4>2. /\ early' \in Seq(Nat) /\ Len(early') = Len(early) + 1 /\ Len(early) \in Nat
            /\ \A n \in 1 .. Len(early) : early'[n] = early[n]
            /\ early'[Len(early) + 1] = c.id
        BY <1>2, <4>1
      <4>3. Early(c.id)'
        BY <4>2 DEF Early
      <4>4. \A i : Early(i)' => Early(i) \/ i = c.id
        <5>1. \A n \in 1 .. Len(early') : n \in 1 .. Len(early) \/ n = Len(early) + 1
          BY <4>2
        <5>. QED
          BY <4>2, <5>1 DEF Early
      <4>5. \A i : Early(i) => Early(i)'
        <5>1. \A n \in 1 .. Len(early) : n \in 1 .. Len(early')
          BY <4>2
        <5>. QED
          BY <4>2, <5>1 DEF Early
      <4>. QED
        BY <4>2, <4>3, <4>4, <4>5
    <3>. QED
      BY <3>1, <3>2
  <2>3. \A i : Running(i)' <=> Running(i)
    BY <2>1 DEF Running
  <2>4. PreviewTypes'
    BY <1>1, <2>1, <2>2 DEF DialogInv, PreviewTypes
  <2>5. NumbersAreGiven'
    <3>1. \A n \in 1 .. Len(early') : early'[n] <= next
      BY <1>2, <2>2 DEF DialogInv, NumbersAreGiven, Early
    <3>. QED
      BY <1>1, <2>1, <3>1 DEF DialogInv, NumbersAreGiven
  <2>6. OneLife'
    BY <1>1, <1>3, <2>1, <2>3 DEF DialogInv, OneLife
  <2>7. AskedAreWanted'
    BY <1>1, <1>2, <1>3, <2>2 DEF DialogInv, AskedAreWanted
  <2>8. RunningAreWanted'
    <3>1. \A t \in tasks : t.id = c.id => t.cancelled
      BY <1>7 DEF DialogInv, OneLife
    <3>. QED
      BY <1>2, <1>3, <2>1, <3>1 DEF DialogInv, RunningAreWanted
  <2>9. WantedAreNotStopped'
    BY <1>1, <1>3, <1>4, <2>1, <2>2 DEF DialogInv, WantedAreNotStopped
  <2>. QED
    BY <1>5, <2>4, <2>5, <2>6, <2>7, <2>8, <2>9 DEF DialogInv
<1>. QED
  BY <1>6, <1>7

LEMMA EndPreviewKeepsInv ==
  ASSUME DialogInv, NEW t \in tasks, Dialog!EndPreview(t)
  PROVE  DialogInv'
<1>1. PICK state \in {"ready", "failed", "blocked", "stopped"} :
        /\ replies' = replies \cup {[id |-> t.id, state |-> state]}
        /\ state = "stopped" => t.cancelled
  BY DEF Dialog!EndPreview, Dialog!Reply
<1>. DEFINE r0 == [id |-> t.id, state |-> state]
<1>2. /\ tasks' = tasks \ {t} /\ done' = done \cup {t.id}
      /\ UNCHANGED <<open, lines, links, commands, previews, early, forgotten, next>>
  BY DEF Dialog!EndPreview, Dialog!dialogVars
<1>3. t.id \in Nat /\ t.id <= next
  BY DEF DialogInv, PreviewTypes, NumbersAreGiven
<1>4. r0 \in [id : Nat, state : {"ready", "blocked", "failed", "stopped"}] /\ r0.id = t.id /\ r0.state = state
  BY <1>3
<1>5. replies' = replies \cup {r0}
  BY <1>1
<1>. HIDE DEF r0
<1>6. /\ \A i : Asking(i)' <=> Asking(i)
      /\ \A i : Cancelling(i)' <=> Cancelling(i)
      /\ \A i : Awaited(i)' <=> Awaited(i)
      /\ \A i : Early(i)' <=> Early(i)
      /\ \A i : Ended(i)' <=> Ended(i) \/ i = t.id
  BY <1>2, <1>4, <1>5 DEF Asking, Cancelling, Awaited, Early, Ended
<1>7. /\ Running(t.id) /\ ~Asking(t.id)
      /\ \A i : Running(i)' => Running(i) /\ i # t.id
  <2>1. Running(t.id)
    BY DEF Running
  <2>2. \A i : Running(i)' => Running(i) /\ i # t.id
    BY <1>2 DEF Running, DialogInv, OneLife
  <2>. QED
    BY <2>1, <2>2 DEF DialogInv, OneLife
<1>8. PreviewTypes'
  BY <1>2, <1>3, <1>4, <1>5 DEF DialogInv, PreviewTypes
<1>9. ClosedIsEmpty' /\ OneRequestEach'
  BY <1>2 DEF DialogInv, ClosedIsEmpty, OneRequestEach
<1>10. NumbersAreGiven'
  BY <1>2, <1>3, <1>4, <1>5 DEF DialogInv, NumbersAreGiven
<1>11. OneLife'
  <2>1. \A i : Asking(i)' => (~Running(i) /\ ~Ended(i) /\ i \notin previews \cup done)'
    BY <1>2, <1>6, <1>7 DEF DialogInv, OneLife
  <2>2. \A i : Running(i)' => (~Ended(i) /\ i \notin done)'
    BY <1>2, <1>6, <1>7 DEF DialogInv, OneLife
  <2>. QED
    BY <1>2, <2>1, <2>2 DEF DialogInv, OneLife
<1>12. AskedAreWanted'
  BY <1>2, <1>6 DEF DialogInv, AskedAreWanted
<1>13. RunningAreWanted'
  BY <1>2, <1>6 DEF DialogInv, RunningAreWanted
<1>14. WantedAreNotStopped'
  <2>1. \A i : Awaited(i) => \A r \in replies' : r.id = i => r.state # "stopped"
    BY <1>1, <1>4, <1>5 DEF DialogInv, WantedAreNotStopped
  <2>. QED
    BY <1>2, <1>6, <2>1 DEF DialogInv, WantedAreNotStopped
<1>. QED
  BY <1>8, <1>9, <1>10, <1>11, <1>12, <1>13, <1>14 DEF DialogInv

LEMMA PreviewDoneKeepsInv ==
  ASSUME DialogInv, NEW i \in done, Dialog!PreviewDone(i)
  PROVE  DialogInv'
<1>1. /\ done' = done \ {i} /\ previews' = previews \ {i}
      /\ UNCHANGED <<open, lines, links, commands, early, forgotten, tasks, replies, next>>
  BY DEF Dialog!PreviewDone, Dialog!dialogVars
<1>2. \A j : /\ Asking(j)' <=> Asking(j)
             /\ Cancelling(j)' <=> Cancelling(j)
             /\ Awaited(j)' <=> Awaited(j)
             /\ Early(j)' <=> Early(j)
             /\ Running(j)' <=> Running(j)
             /\ Ended(j)' <=> Ended(j)
  BY <1>1 DEF Asking, Cancelling, Awaited, Early, Running, Ended
<1>3. PreviewTypes' /\ ClosedIsEmpty' /\ NumbersAreGiven' /\ OneRequestEach'
  BY <1>1 DEF DialogInv, PreviewTypes, ClosedIsEmpty, NumbersAreGiven, OneRequestEach
<1>4. OneLife'
  <2>1. \A t \in tasks : t.id # i
    BY DEF DialogInv, OneLife, Running
  <2>. QED
    BY <1>1, <1>2, <2>1 DEF DialogInv, OneLife
<1>5. AskedAreWanted' /\ RunningAreWanted' /\ WantedAreNotStopped'
  BY <1>1, <1>2 DEF DialogInv, AskedAreWanted, RunningAreWanted, WantedAreNotStopped
<1>. QED
  BY <1>3, <1>4, <1>5 DEF DialogInv

(* The links, commands and previews stay as they are. *)
LEMMA NoPreviewKeepsInv ==
  ASSUME DialogInv,
         UNCHANGED <<open, lines, links, commands, previews, early, forgotten, tasks, replies, done, next>>
  PROVE  DialogInv'
<1>1. \A j : /\ Asking(j)' <=> Asking(j)
             /\ Cancelling(j)' <=> Cancelling(j)
             /\ Awaited(j)' <=> Awaited(j)
             /\ Early(j)' <=> Early(j)
             /\ Running(j)' <=> Running(j)
             /\ Ended(j)' <=> Ended(j)
  BY DEF Asking, Cancelling, Awaited, Early, Running, Ended
<1>2. PreviewTypes' /\ ClosedIsEmpty' /\ NumbersAreGiven' /\ OneRequestEach'
  BY DEF DialogInv, PreviewTypes, ClosedIsEmpty, NumbersAreGiven, OneRequestEach
<1>3. OneLife' /\ AskedAreWanted' /\ RunningAreWanted' /\ WantedAreNotStopped'
  BY <1>1 DEF DialogInv, OneLife, AskedAreWanted, RunningAreWanted, WantedAreNotStopped
<1>. QED
  BY <1>2, <1>3 DEF DialogInv

LEMMA DialogNext ==
  ASSUME AddAssumptions, DialogInv, [Dialog!Next]_(Dialog!vars)
  PROVE  DialogInv'
<1>1. CASE Dialog!Open
  <2>1. PICK T \in SUBSET Dialog!Links : Dialog!SyncLinks(T, [l \in {} |-> Dialog!Unasked])
    BY <1>1 DEF Dialog!Open
  <2>2. DOMAIN links = {}
    BY <1>1 DEF Dialog!Open, DialogInv, ClosedIsEmpty
  <2>3. open' /\ UNCHANGED <<Dialog!engineVars, replies>>
    BY <1>1 DEF Dialog!Open
  <2>4. DOMAIN [l \in {} |-> Dialog!Unasked] = {}
    OBVIOUS
  <2>5. Rewritten
    BY <2>1, <2>2, <2>3, <2>4, SyncingRewrites
  <2>. QED
    BY <2>3, <2>5, RewritingKeepsInv
<1>2. ASSUME NEW T \in SUBSET Dialog!Links, Dialog!Edit(T) PROVE DialogInv'
  <2>1. Dialog!SyncLinks(T, links) /\ open' /\ UNCHANGED <<Dialog!engineVars, replies>>
    BY <1>2 DEF Dialog!Edit
  <2>2. Rewritten
    BY <2>1, SyncingRewrites
  <2>. QED
    BY <2>1, <2>2, RewritingKeepsInv
<1>3. CASE Dialog!Close
  <2>1. /\ Dialog!Closed /\ next' = next /\ UNCHANGED <<Dialog!engineVars, replies>>
        /\ commands' = commands \cup Dialog!Cancel(Dialog!Requests(links))
    BY <1>3 DEF Dialog!Close, Dialog!CancelAll
  <2>2. Rewritten
    BY <2>1, ClosingRewrites
  <2>. QED
    BY <2>1, <2>2, RewritingKeepsInv
<1>4. ASSUME NEW s \in submissions, Dialog!AddSubmitted(s) PROVE DialogInv'
  <2>1. UNCHANGED <<Dialog!engineVars, replies>>
    BY <1>4 DEF Dialog!AddSubmitted
  <2>2. CASE ~open
    <3>1. UNCHANGED <<Dialog!dialogVars, commands, next>>
      BY <1>4, <2>2 DEF Dialog!AddSubmitted
    <3>. QED
      BY <2>1, <3>1, NoPreviewKeepsInv DEF Dialog!dialogVars, Dialog!engineVars
  <2>3. CASE open
    <3>1. CASE /\ Dialog!Closed
               /\ commands' = commands \cup Dialog!Cancel(Dialog!Requests(links))
               /\ UNCHANGED <<dialogs, next>>
      <4>1. Rewritten
        BY <3>1, ClosingRewrites
      <4>. QED
        BY <2>1, <4>1, RewritingKeepsInv
    <3>2. CASE \E T \in SUBSET Dialog!Links : Dialog!SyncLinks(T, links) /\ UNCHANGED <<open, dialogs>>
      <4>1. PICK T \in SUBSET Dialog!Links : Dialog!SyncLinks(T, links) /\ UNCHANGED <<open, dialogs>>
        BY <3>2
      <4>2. Rewritten
        BY <2>3, <4>1, SyncingRewrites
      <4>. QED
        BY <2>1, <4>2, RewritingKeepsInv
    <3>3. lines \subseteq Dialog!Links
      BY DEF DialogInv, PreviewTypes
    <3>. QED
      BY <1>4, <2>3, <3>1, <3>2, <3>3 DEF Dialog!AddSubmitted
  <2>. QED
    BY <2>2, <2>3
<1>5. CASE Dialog!Submit \/ \E s \in submissions : Dialog!AddItems(s)
  BY <1>5, NoPreviewKeepsInv DEF Dialog!Submit, Dialog!AddItems, Dialog!dialogVars, Dialog!engineVars
<1>6. CASE UNCHANGED Dialog!vars
  BY <1>6, NoPreviewKeepsInv DEF Dialog!vars, Dialog!dialogVars, Dialog!engineVars
<1>. QED
  BY <1>1, <1>2, <1>3, <1>4, <1>5, <1>6, PreviewedKeepsInv, StartPreviewKeepsInv,
     CancelPreviewKeepsInv, EndPreviewKeepsInv, PreviewDoneKeepsInv DEF Dialog!Next

(* Whatever the order in which requests and cancels arrive, however the     *)
(* text changes and the dialog is closed: a preview that nobody waits for   *)
(* is or will be cancelled, and nobody who waits is told otherwise.         *)
LEMMA DialogSpec ==
  ASSUME AddAssumptions
  PROVE  Dialog!Spec => []Dialog!NoOrphanPreviews
<1>1. Dialog!Init => DialogInv
  <2>. SUFFICES ASSUME Dialog!Init PROVE DialogInv
    OBVIOUS
  <2>. USE DEF Dialog!Init
  <2>1. PreviewTypes /\ ClosedIsEmpty /\ NumbersAreGiven /\ OneRequestEach
    BY DEF PreviewTypes, ClosedIsEmpty, NumbersAreGiven, OneRequestEach
  <2>2. OneLife /\ AskedAreWanted /\ RunningAreWanted /\ WantedAreNotStopped
    BY DEF OneLife, AskedAreWanted, RunningAreWanted, WantedAreNotStopped, Asking, Running, Awaited
  <2>. QED
    BY <2>1, <2>2 DEF DialogInv
<1>2. DialogInv => Dialog!NoOrphanPreviews
  <2>. SUFFICES ASSUME DialogInv PROVE Dialog!NoOrphanPreviews
    OBVIOUS
  <2>1. \A i : Awaited(i) => i \in Dialog!Requests(links)
    BY DEF Awaited, Dialog!Requests
  <2>2. \A l \in DOMAIN links : links[l].state # "stopped"
    BY DEF DialogInv, PreviewTypes
  <2>. QED
    BY <2>1, <2>2 DEF DialogInv, RunningAreWanted, Cancelling, Dialog!NoOrphanPreviews
<1>3. DialogInv /\ [Dialog!Next]_(Dialog!vars) => DialogInv'
  BY DialogNext
<1>. QED
  BY <1>1, <1>2, <1>3, PTL DEF Dialog!Spec

-----------------------------------------------------------------------------
(* One instance: queues of launches.                                        *)

LaunchesOf(s) == {s[n].launch : n \in 1 .. Len(s)}
Distinct(s) == \A m, n \in 1 .. Len(s) : s[m].launch = s[n].launch => m = n

Connections == [launch : Processes, serves : BOOLEAN]
Elements(s) == {s[n] : n \in 1 .. Len(s)}

LEMMA AppendedSet ==
  ASSUME NEW S, NEW s \in Seq(S), NEW e \in S
  PROVE  /\ Append(s, e) \in Seq(S)
         /\ Elements(Append(s, e)) = Elements(s) \cup {e}
         /\ LaunchesOf(Append(s, e)) = LaunchesOf(s) \cup {e.launch}
         /\ Distinct(s) /\ e.launch \notin LaunchesOf(s) => Distinct(Append(s, e))
         /\ Processing!IsInjective(s) /\ e \notin Elements(s) => Processing!IsInjective(Append(s, e))
<1>. DEFINE t == Append(s, e)
<1>1. /\ t \in Seq(S) /\ Len(t) = Len(s) + 1 /\ Len(s) \in Nat
      /\ \A n \in 1 .. Len(s) : t[n] = s[n]
      /\ t[Len(s) + 1] = e
      /\ DOMAIN s = 1 .. Len(s) /\ DOMAIN t = 1 .. Len(t)
  OBVIOUS
<1>. HIDE DEF t
<1>2. 1 .. Len(t) = (1 .. Len(s)) \cup {Len(s) + 1} /\ Len(s) + 1 \notin 1 .. Len(s)
  BY <1>1
<1>3. Elements(t) = Elements(s) \cup {e}
  BY <1>1, <1>2 DEF Elements
<1>4. LaunchesOf(t) = LaunchesOf(s) \cup {e.launch}
  BY <1>1, <1>2 DEF LaunchesOf
<1>5. Distinct(s) /\ e.launch \notin LaunchesOf(s) => Distinct(t)
  BY <1>1, <1>2 DEF Distinct, LaunchesOf
<1>6. Processing!IsInjective(s) /\ e \notin Elements(s) => Processing!IsInjective(t)
  BY <1>1, <1>2 DEF Processing!IsInjective, Elements
<1>. QED
  BY <1>1, <1>3, <1>4, <1>5, <1>6 DEF t

LEMMA HeadAndTail ==
  ASSUME NEW S, NEW s \in Seq(S), s # <<>>
  PROVE  /\ Head(s) \in S /\ Tail(s) \in Seq(S)
         /\ Elements(s) = Elements(Tail(s)) \cup {Head(s)}
         /\ LaunchesOf(s) = LaunchesOf(Tail(s)) \cup {Head(s).launch}
         /\ Distinct(s) => Distinct(Tail(s)) /\ Head(s).launch \notin LaunchesOf(Tail(s))
<1>. DEFINE t == Tail(s)
<1>1. /\ t \in Seq(S) /\ Len(s) \in Nat \ {0} /\ Len(t) = Len(s) - 1
      /\ \A n \in 1 .. Len(t) : t[n] = s[n + 1]
      /\ Head(s) = s[1] /\ s[1] \in S
  OBVIOUS
<1>. HIDE DEF t
<1>2. /\ \A n \in 1 .. Len(t) : n + 1 \in 1 .. Len(s)
      /\ \A n \in 1 .. Len(s) : n = 1 \/ (n - 1 \in 1 .. Len(t) /\ s[n] = t[n - 1])
      /\ 1 \in 1 .. Len(s)
  BY <1>1
<1>3. Elements(s) = Elements(t) \cup {Head(s)}
  BY <1>1, <1>2 DEF Elements
<1>4. LaunchesOf(s) = LaunchesOf(t) \cup {Head(s).launch}
  <2>1. \A n \in 1 .. Len(s) : s[n].launch \in LaunchesOf(t) \cup {Head(s).launch}
    BY <1>1, <1>2 DEF LaunchesOf
  <2>2. \A n \in 1 .. Len(t) : t[n].launch \in LaunchesOf(s)
    BY <1>1, <1>2 DEF LaunchesOf
  <2>3. Head(s).launch \in LaunchesOf(s)
    BY <1>1, <1>2 DEF LaunchesOf
  <2>. QED
    BY <2>1, <2>2, <2>3 DEF LaunchesOf
<1>5. ASSUME Distinct(s) PROVE Distinct(t) /\ Head(s).launch \notin LaunchesOf(t)
  <2>1. ASSUME NEW m \in 1 .. Len(t), NEW n \in 1 .. Len(t), t[m].launch = t[n].launch PROVE m = n
    <3>1. m + 1 = n + 1
      BY <1>1, <1>2, <1>5, <2>1 DEF Distinct
    <3>. QED
      BY <3>1
  <2>2. ASSUME NEW m \in 1 .. Len(t), t[m].launch = s[1].launch PROVE FALSE
    <3>1. m + 1 = 1
      BY <1>1, <1>2, <1>5, <2>2 DEF Distinct
    <3>. QED
      BY <3>1
  <2>. QED
    BY <1>1, <2>1, <2>2 DEF Distinct, LaunchesOf
<1>. QED
  BY <1>1, <1>3, <1>4, <1>5 DEF t

LEMMA EmptyQueue ==
  /\ Elements(<<>>) = {} /\ LaunchesOf(<<>>) = {} /\ Distinct(<<>>)
  /\ Processing!IsInjective(<<>>)
  BY DEF Elements, LaunchesOf, Distinct, Processing!IsInjective

LEMMA ToSetIsElements == ASSUME NEW S, NEW s \in Seq(S) PROVE Processing!ToSet(s) = Elements(s)
  BY DEF Processing!ToSet, Elements

-----------------------------------------------------------------------------
Phases ==
  {"idle", "acquiring", "locked", "starting", "open", "broken", "quitting", "gone",
   "forwarding", "waiting", "forwarded", "failed"}
Hands == {<<>>} \cup {<<h>> : h \in [conn : Connections, step : {"read", "checked", "sent"}]}

InstanceTypes ==
  /\ phase \in [Processes -> Phases]
  /\ accepting \in [Processes -> BOOLEAN]
  /\ DOMAIN peer = Processes
  /\ backlog \in [Processes -> Seq(Connections)]
  /\ hand \in [Processes -> Hands]
  /\ channel \in [Processes -> Seq(Connections)]
  /\ opened \in [Processes -> Seq(Processes)]
  /\ dropped \in [Processes -> SUBSET Connections]

(* Only a process that listens has launches, only one that opens them has   *)
(* opened any.                                                              *)
Quiet ==
  \A i \in Processes :
    /\ ~Processing!Listening(i) => backlog[i] = <<>> /\ hand[i] = <<>> /\ channel[i] = <<>>
    /\ phase[i] \notin {"open", "broken", "quitting", "gone"} => opened[i] = <<>>

(* Once a process refuses launches it does so for good; while it accepts    *)
(* them, all that wait for it were served when they connected.              *)
AcceptsWhileServing ==
  \A i \in Processes :
    /\ phase[i] \in {"broken", "quitting"} => ~accepting[i]
    /\ accepting[i] => \A c \in Elements(backlog[i]) : c.serves
    /\ hand[i] # <<>> => (hand[i][1].step = "read" /\ accepting[i] => hand[i][1].conn.serves)
    /\ hand[i] # <<>> => (hand[i][1].step # "read" => hand[i][1].conn.serves)
    /\ \A c \in Elements(channel[i]) \cup dropped[i] : c.serves

(* A launch is in one place of an instance; one that was sent is still in   *)
(* the listener's hand.                                                     *)
InOnePlace ==
  \A i \in Processes :
    /\ Distinct(backlog[i]) /\ Distinct(channel[i]) /\ Processing!IsInjective(opened[i])
    /\ LaunchesOf(backlog[i]) \cap (LaunchesOf(channel[i]) \cup Elements(opened[i])) = {}
    /\ LaunchesOf(channel[i]) \cap Elements(opened[i]) = {}
    /\ i \notin LaunchesOf(backlog[i]) \cup LaunchesOf(channel[i])
    /\ hand[i] # <<>> =>
         LET p == hand[i][1].conn.launch
         IN  /\ p # i /\ p \notin LaunchesOf(backlog[i])
             /\ hand[i][1].step # "sent" => p \notin LaunchesOf(channel[i]) \cup Elements(opened[i])

(* It connects to no instance that has it already. *)
Held(i) ==
  LaunchesOf(backlog[i]) \cup LaunchesOf(channel[i]) \cup Elements(opened[i])
    \cup {h.conn.launch : h \in Elements(hand[i])}
ConnectsOnce ==
  \A i \in Processes : Processing!Listening(i) =>
    \A p \in Held(i) \ {i} :
      \/ phase[p] \in {"forwarded", "failed", "gone"}
      \/ phase[p] = "waiting" /\ peer[p] = i

(* What is told to the client is so. *)
With(i, c) == c.launch \in Elements(opened[i]) \/ c \in Elements(channel[i]) \cup dropped[i]
SentIsWith ==
  \A i \in Processes :
    hand[i] # <<>> => (hand[i][1].step = "sent" => With(i, hand[i][1].conn))
Launched(p) == [launch |-> p, serves |-> TRUE]
ForwardedIsWith ==
  \A p \in Processes : phase[p] = "forwarded" => peer[p] \in Processes /\ With(peer[p], Launched(p))

InstanceInv ==
  /\ InstanceTypes /\ Quiet /\ AcceptsWhileServing /\ InOnePlace /\ ConnectsOnce
  /\ SentIsWith /\ ForwardedIsWith

-----------------------------------------------------------------------------
LEMMA ElementsAreOf ==
  ASSUME NEW S, NEW s \in Seq(S)
  PROVE  Elements(s) \subseteq S
<1>1. \A n \in 1 .. Len(s) : s[n] \in S
  OBVIOUS
<1>. QED
  BY <1>1 DEF Elements

LEMMA HeldAreProcesses ==
  ASSUME InstanceTypes, NEW i \in Processes
  PROVE  Held(i) \subseteq Processes
<1>1. \A c \in Connections : c.launch \in Processes
  BY DEF Connections
<1>2. ASSUME NEW s \in Seq(Connections) PROVE LaunchesOf(s) \subseteq Processes
  <2>1. \A n \in 1 .. Len(s) : s[n] \in Connections
    OBVIOUS
  <2>. QED
    BY <1>1, <2>1 DEF LaunchesOf
<1>3. Elements(opened[i]) \subseteq Processes
  BY ElementsAreOf DEF InstanceTypes
<1>4. {h.conn.launch : h \in Elements(hand[i])} \subseteq Processes
  BY <1>1 DEF InstanceTypes, Elements, Hands
<1>. QED
  BY <1>2, <1>3, <1>4 DEF Held, InstanceTypes

(* A process moves on, and may refuse launches from now on. *)
LEMMA MovingKeepsInv ==
  ASSUME InstanceInv, NEW p \in Processes, NEW to \in Phases \ {"forwarded"},
         phase' = [phase EXCEPT ![p] = to],
         accepting' = accepting \/ accepting' = [accepting EXCEPT ![p] = FALSE],
         UNCHANGED <<peer, backlog, hand, channel, opened, dropped>>,
         Processing!Listening(p) => to \in {"open", "broken", "quitting"},
         to \in {"broken", "quitting"} => ~accepting'[p],
         phase[p] \notin {"forwarded", "failed", "gone"},
         to = "starting" => phase[p] = "locked",
         phase[p] = "waiting" => to = "failed" \/ ~Processing!Listening(peer[p])
  PROVE  InstanceInv'
<1>1. phase \in [Processes -> Phases] /\ accepting \in [Processes -> BOOLEAN]
  BY DEF InstanceInv, InstanceTypes
<1>2. /\ phase' \in [Processes -> Phases] /\ accepting' \in [Processes -> BOOLEAN]
      /\ phase'[p] = to
      /\ \A q \in Processes \ {p} : phase'[q] = phase[q] /\ accepting'[q] = accepting[q]
      /\ \A q \in Processes : accepting'[q] => accepting[q]
  BY <1>1
<1>3. InstanceTypes'
  BY <1>2 DEF InstanceInv, InstanceTypes
<1>4. Quiet'
  BY <1>1, <1>2 DEF InstanceInv, Quiet, Processing!Listening
<1>5. AcceptsWhileServing'
  <2>1. \A i \in Processes : phase'[i] \in {"broken", "quitting"} => ~accepting'[i]
    BY <1>1, <1>2 DEF InstanceInv, AcceptsWhileServing
  <2>. QED
    BY <1>2, <2>1 DEF InstanceInv, AcceptsWhileServing
<1>6. InOnePlace' /\ SentIsWith'
  BY DEF InstanceInv, InOnePlace, SentIsWith, With
<1>7. ConnectsOnce'
  <2>. SUFFICES ASSUME NEW i \in Processes, Processing!Listening(i)', NEW q \in Held(i) \ {i}
                PROVE  phase'[q] \in {"forwarded", "failed", "gone"} \/ (phase'[q] = "waiting" /\ peer[q] = i)
    BY DEF ConnectsOnce, Held
  <2>1. Processing!Listening(i)
    <3>1. CASE i # p
      BY <1>2, <3>1 DEF Processing!Listening
    <3>2. CASE i = p /\ ~Processing!Listening(i)
      <4>1. phase[p] # "open" /\ phase[p] # "broken" /\ phase[p] # "quitting" /\ phase[p] # "gone"
        BY <3>2 DEF Processing!Listening
      <4>2. Held(i) = {}
        BY <3>2, <4>1, EmptyQueue DEF InstanceInv, Quiet, Held
      <4>. QED
        BY <4>2
    <3>. QED
      BY <3>1, <3>2
  <2>2. phase[q] \in {"forwarded", "failed", "gone"} \/ (phase[q] = "waiting" /\ peer[q] = i)
    BY <2>1 DEF InstanceInv, ConnectsOnce
  <2>3. q \in Processes
    BY HeldAreProcesses DEF InstanceInv
  <2>4. CASE q = p
    BY <1>2, <2>1, <2>2, <2>4
  <2>5. CASE q # p
    BY <1>2, <2>2, <2>3, <2>5
  <2>. QED
    BY <2>4, <2>5
<1>8. ForwardedIsWith'
  BY <1>2 DEF InstanceInv, ForwardedIsWith, With
<1>. QED
  BY <1>3, <1>4, <1>5, <1>6, <1>7, <1>8 DEF InstanceInv

-----------------------------------------------------------------------------
(* What one instance keeps to itself. *)
InOnePlaceOf(i) ==
  /\ Distinct(backlog[i]) /\ Distinct(channel[i]) /\ Processing!IsInjective(opened[i])
  /\ LaunchesOf(backlog[i]) \cap (LaunchesOf(channel[i]) \cup Elements(opened[i])) = {}
  /\ LaunchesOf(channel[i]) \cap Elements(opened[i]) = {}
  /\ i \notin LaunchesOf(backlog[i]) \cup LaunchesOf(channel[i])
  /\ hand[i] # <<>> =>
       LET p == hand[i][1].conn.launch
       IN  /\ p # i /\ p \notin LaunchesOf(backlog[i])
           /\ hand[i][1].step # "sent" => p \notin LaunchesOf(channel[i]) \cup Elements(opened[i])
ServedWhen(i) ==
  /\ phase[i] \in {"broken", "quitting"} => ~accepting[i]
  /\ accepting[i] => \A c \in Elements(backlog[i]) : c.serves
  /\ hand[i] # <<>> => (hand[i][1].step = "read" /\ accepting[i] => hand[i][1].conn.serves)
  /\ hand[i] # <<>> => (hand[i][1].step # "read" => hand[i][1].conn.serves)
  /\ \A c \in Elements(channel[i]) \cup dropped[i] : c.serves
QuietOf(i) ==
  /\ ~Processing!Listening(i) => backlog[i] = <<>> /\ hand[i] = <<>> /\ channel[i] = <<>>
  /\ phase[i] \notin {"open", "broken", "quitting", "gone"} => opened[i] = <<>>

(* A step within an instance i, which may answer the client q that waits   *)
(* for it. *)
Within(i) ==
  /\ \A j \in Processes \ {i} :
       /\ backlog'[j] = backlog[j] /\ hand'[j] = hand[j] /\ channel'[j] = channel[j]
       /\ opened'[j] = opened[j] /\ dropped'[j] = dropped[j]
  /\ UNCHANGED <<accepting, peer>>

LEMMA WithinKeepsInv ==
  ASSUME InstanceInv, InstanceTypes', NEW i \in Processes, Within(i), Processing!Listening(i),
         phase'[i] = phase[i],
         NEW q \in Processes,
         \A j \in Processes \ {q} : phase'[j] = phase[j],
         \/ phase'[q] = phase[q]
         \/ /\ phase[q] = "waiting" /\ peer[q] = i
            /\ \/ phase'[q] = "forwarded" /\ With(i, Launched(q))'
               \/ phase'[q] = "failed"
               \/ phase'[q] = "forwarding" /\ q \notin Held(i)',
         Held(i)' \subseteq Held(i),
         \A c : With(i, c) => With(i, c)',
         QuietOf(i)', ServedWhen(i)', InOnePlaceOf(i)',
         (hand[i] # <<>> => (hand[i][1].step = "sent" => With(i, hand[i][1].conn)))'
  PROVE  InstanceInv'
<1>1. \A j \in Processes : \A c : With(j, c) => With(j, c)'
  BY DEF Within, With
<1>2. \A j \in Processes : Processing!Listening(j)' <=> Processing!Listening(j)
  BY DEF Processing!Listening
<1>3. Quiet'
  BY <1>2 DEF InstanceInv, Quiet, QuietOf, Within
<1>4. AcceptsWhileServing'
  <2>. SUFFICES ASSUME NEW j \in Processes PROVE ServedWhen(j)'
    BY DEF AcceptsWhileServing, ServedWhen
  <2>1. ServedWhen(j)
    BY DEF InstanceInv, AcceptsWhileServing, ServedWhen
  <2>2. phase'[j] \in {"broken", "quitting"} => phase[j] \in {"broken", "quitting"}
    OBVIOUS
  <2>. QED
    BY <2>1, <2>2 DEF Within, ServedWhen
<1>5. InOnePlace'
  <2>. SUFFICES ASSUME NEW j \in Processes PROVE InOnePlaceOf(j)'
    BY DEF InOnePlace, InOnePlaceOf
  <2>1. InOnePlaceOf(j)
    BY DEF InstanceInv, InOnePlace, InOnePlaceOf
  <2>. QED
    BY <2>1 DEF Within, InOnePlaceOf
<1>6. ConnectsOnce'
  <2>. SUFFICES ASSUME NEW j \in Processes, Processing!Listening(j), NEW p \in Held(j)' \ {j}
                PROVE  phase'[p] \in {"forwarded", "failed", "gone"} \/ (phase'[p] = "waiting" /\ peer[p] = j)
    BY <1>2 DEF ConnectsOnce, Within
  <2>1. p \in Held(j)
    BY DEF Within, Held
  <2>2. p \in Processes
    BY <2>1, HeldAreProcesses DEF InstanceInv
  <2>3. phase[p] \in {"forwarded", "failed", "gone"} \/ (phase[p] = "waiting" /\ peer[p] = j)
    BY <2>1 DEF InstanceInv, ConnectsOnce
  <2>. QED
    BY <2>2, <2>3
<1>7. SentIsWith'
  BY <1>1 DEF InstanceInv, SentIsWith, Within, With
<1>8. ForwardedIsWith'
  <2>. SUFFICES ASSUME NEW p \in Processes, phase'[p] = "forwarded"
                PROVE  peer[p] \in Processes
                       /\ ((Launched(p).launch \in Elements(opened'[peer[p]]))
                          \/ Launched(p) \in Elements(channel'[peer[p]]) \cup dropped'[peer[p]])
    BY DEF ForwardedIsWith, Within, With
  <2>1. CASE phase[p] = "forwarded"
    <3>1. peer[p] \in Processes /\ With(peer[p], Launched(p))
      BY <2>1 DEF InstanceInv, ForwardedIsWith
    <3>2. PICK j \in Processes : j = peer[p]
      BY <3>1
    <3>3. With(j, Launched(p))
      BY <3>1, <3>2
    <3>4. (With(j, Launched(p)))'
      BY <1>1, <3>3 DEF Launched
    <3>. QED
      BY <3>2, <3>4 DEF With
  <2>2. CASE phase[p] # "forwarded"
    <3>1. p = q /\ peer[p] = i /\ With(i, Launched(q))'
      BY <2>2
    <3>. QED
      BY <3>1 DEF With
  <2>. QED
    BY <2>1, <2>2
<1>. QED
  BY <1>3, <1>4, <1>5, <1>6, <1>7, <1>8 DEF InstanceInv

LEMMA OfInstance ==
  ASSUME InstanceInv, NEW i \in Processes
  PROVE  /\ QuietOf(i) /\ ServedWhen(i) /\ InOnePlaceOf(i)
         /\ backlog[i] \in Seq(Connections) /\ channel[i] \in Seq(Connections)
         /\ opened[i] \in Seq(Processes) /\ dropped[i] \subseteq Connections
         /\ hand[i] = <<>> \/ \E h \in [conn : Connections, step : {"read", "checked", "sent"}] :
                                hand[i] = <<h>> /\ hand[i] # <<>>
<1>1. QuietOf(i) /\ ServedWhen(i) /\ InOnePlaceOf(i)
  BY DEF InstanceInv, Quiet, QuietOf, AcceptsWhileServing, ServedWhen, InOnePlace, InOnePlaceOf
<1>. QED
  BY <1>1 DEF InstanceInv, InstanceTypes, Hands

-----------------------------------------------------------------------------
LEMMA AcceptKeepsInv ==
  ASSUME InstanceInv, NEW i \in Processes, Processing!Accept(i)
  PROVE  InstanceInv'
<1>. DEFINE c == Head(backlog[i])
            h == [conn |-> c, step |-> "read"]
<1>1. /\ Processing!Listening(i) /\ hand[i] = <<>> /\ backlog[i] # <<>>
      /\ hand' = [hand EXCEPT ![i] = <<h>>]
      /\ backlog' = [backlog EXCEPT ![i] = Tail(backlog[i])]
      /\ UNCHANGED <<phase, accepting, peer, channel, opened, dropped>>
  BY DEF Processing!Accept, Processing!clientVars
<1>2. /\ phase \in [Processes -> Phases] /\ hand \in [Processes -> Hands]
      /\ backlog \in [Processes -> Seq(Connections)] /\ backlog[i] \in Seq(Connections)
  BY DEF InstanceInv, InstanceTypes
<1>3. /\ c \in Connections /\ Tail(backlog[i]) \in Seq(Connections)
      /\ Elements(backlog[i]) = Elements(Tail(backlog[i])) \cup {c}
      /\ LaunchesOf(backlog[i]) = LaunchesOf(Tail(backlog[i])) \cup {c.launch}
      /\ Distinct(backlog[i]) => Distinct(Tail(backlog[i])) /\ c.launch \notin LaunchesOf(Tail(backlog[i]))
  BY <1>1, <1>2, HeadAndTail
<1>4. h \in [conn : Connections, step : {"read", "checked", "sent"}] /\ h.conn = c /\ h.step = "read"
  BY <1>3
<1>. HIDE DEF h, c
<1>5. <<h>> \in Hands /\ <<h>> # <<>> /\ <<h>>[1] = h /\ Elements(<<h>>) = {h}
  BY <1>4 DEF Hands, Elements
<1>6. /\ hand' \in [Processes -> Hands] /\ hand'[i] = <<h>> /\ backlog'[i] = Tail(backlog[i])
      /\ backlog' \in [Processes -> Seq(Connections)]
      /\ \A j \in Processes \ {i} : hand'[j] = hand[j] /\ backlog'[j] = backlog[j]
  BY <1>1, <1>2, <1>3, <1>5
<1>7. InstanceTypes'
  BY <1>1, <1>6 DEF InstanceInv, InstanceTypes
<1>8. Within(i)
  BY <1>1, <1>6 DEF Within
<1>9. Held(i)' \subseteq Held(i)
  BY <1>1, <1>3, <1>4, <1>5, <1>6 DEF Held
<1>10. \A d : With(i, d) => With(i, d)'
  BY <1>1 DEF With
<1>11. QuietOf(i) /\ ServedWhen(i) /\ InOnePlaceOf(i)
  BY OfInstance
<1>12. QuietOf(i)'
  BY <1>1, <1>11 DEF QuietOf, Processing!Listening
<1>13. ServedWhen(i)'
  BY <1>1, <1>3, <1>4, <1>5, <1>6, <1>11 DEF ServedWhen
<1>14. InOnePlaceOf(i)'
  BY <1>1, <1>3, <1>4, <1>5, <1>6, <1>11 DEF InOnePlaceOf
<1>15. (hand[i] # <<>> => (hand[i][1].step = "sent" => With(i, hand[i][1].conn)))'
  BY <1>4, <1>5, <1>6
<1>. QED
  BY <1>1, <1>7, <1>8, <1>9, <1>10, <1>12, <1>13, <1>14, <1>15, WithinKeepsInv

(* The listener closes the connection, without an acknowledgement. *)
LEMMA RefuseKeepsInv ==
  ASSUME InstanceInv, NEW i \in Processes, Processing!Listening(i), hand[i] # <<>>,
         hand[i][1].step # "sent", Processing!Refuse(i),
         UNCHANGED <<accepting, peer, late, backlog, opened, dropped>>
  PROVE  InstanceInv'
<1>. PICK h \in [conn : Connections, step : {"read", "checked", "sent"}] : hand[i] = <<h>>
  BY OfInstance
<1>. DEFINE q == h.conn.launch
<1>1. hand[i][1] = h /\ Processing!Client(i) = q /\ q \in Processes /\ Elements(hand[i]) = {h}
  BY DEF Processing!Client, Connections, Elements
<1>. HIDE DEF q
<1>2. /\ phase \in [Processes -> Phases] /\ hand \in [Processes -> Hands]
  BY DEF InstanceInv, InstanceTypes
<1>3. hand' = [hand EXCEPT ![i] = <<>>] /\ UNCHANGED <<accepting, peer, backlog, channel, opened, dropped>>
  BY DEF Processing!Refuse
<1>4. /\ hand' \in [Processes -> Hands] /\ hand'[i] = <<>>
      /\ \A j \in Processes \ {i} : hand'[j] = hand[j]
  BY <1>2, <1>3 DEF Hands
<1>5. QuietOf(i) /\ ServedWhen(i) /\ InOnePlaceOf(i)
  BY OfInstance
<1>6. q # i /\ q \notin LaunchesOf(backlog[i]) \cup LaunchesOf(channel[i]) \cup Elements(opened[i])
  BY <1>1, <1>5 DEF InOnePlaceOf, q
<1>7. /\ phase' \in [Processes -> Phases] /\ phase'[i] = phase[i]
      /\ \A j \in Processes \ {q} : phase'[j] = phase[j]
      /\ \/ phase'[q] = phase[q]
         \/ phase[q] = "waiting" /\ peer[q] = i /\ phase'[q] \in {"failed", "forwarding"}
  BY <1>1, <1>2, <1>6 DEF Processing!Refuse, Processing!StillWaits, Processing!AfterError, Phases
<1>8. InstanceTypes'
  BY <1>3, <1>4, <1>7 DEF InstanceInv, InstanceTypes
<1>9. Within(i)
  BY <1>3, <1>4 DEF Within
<1>10. Elements(<<>>) = {}
  BY EmptyQueue
<1>11. Held(i)' \subseteq Held(i) /\ q \notin Held(i)'
  BY <1>3, <1>4, <1>6, <1>10 DEF Held
<1>12. \A d : With(i, d) => With(i, d)'
  BY <1>3 DEF With
<1>13. QuietOf(i)'
  BY <1>3, <1>4, <1>5, <1>7 DEF QuietOf, Processing!Listening
<1>14. ServedWhen(i)'
  BY <1>3, <1>4, <1>5, <1>7 DEF ServedWhen
<1>15. InOnePlaceOf(i)'
  BY <1>3, <1>4, <1>5 DEF InOnePlaceOf
<1>16. (hand[i] # <<>> => (hand[i][1].step = "sent" => With(i, hand[i][1].conn)))'
  BY <1>4
<1>. QED
  BY <1>1, <1>7, <1>8, <1>9, <1>11, <1>12, <1>13, <1>14, <1>15, <1>16, WithinKeepsInv

LEMMA CheckKeepsInv ==
  ASSUME InstanceInv, NEW i \in Processes, Processing!Check(i)
  PROVE  InstanceInv'
<1>1. /\ Processing!Listening(i) /\ hand[i] # <<>> /\ hand[i][1].step = "read"
      /\ UNCHANGED <<accepting, peer, late, backlog, opened, dropped>>
  BY DEF Processing!Check, Processing!At, Processing!clientVars
<1>2. CASE ~accepting[i]
  <2>1. Processing!Refuse(i)
    BY <1>2 DEF Processing!Check
  <2>. QED
    BY <1>1, <2>1, RefuseKeepsInv
<1>3. CASE accepting[i]
  <2>. PICK h \in [conn : Connections, step : {"read", "checked", "sent"}] : hand[i] = <<h>>
    BY <1>1, OfInstance
  <2>. DEFINE g == [h EXCEPT !.step = "checked"]
  <2>1. /\ g \in [conn : Connections, step : {"read", "checked", "sent"}]
        /\ g.conn = h.conn /\ g.step = "checked" /\ h.step = "read"
    BY <1>1
  <2>2. [hand[i] EXCEPT ![1] = g] = <<g>>
    OBVIOUS
  <2>3. hand' = [hand EXCEPT ![i] = <<g>>] /\ UNCHANGED <<phase, channel>>
    BY <1>3, <2>2 DEF Processing!Check
  <2>. HIDE DEF g
  <2>4. <<g>> \in Hands /\ <<g>> # <<>> /\ <<g>>[1] = g /\ Elements(<<g>>) = {g} /\ Elements(hand[i]) = {h}
        /\ hand[i][1] = h
    BY <2>1 DEF Hands, Elements
  <2>5. /\ phase \in [Processes -> Phases] /\ hand \in [Processes -> Hands]
    BY DEF InstanceInv, InstanceTypes
  <2>6. /\ hand' \in [Processes -> Hands] /\ hand'[i] = <<g>>
        /\ \A j \in Processes \ {i} : hand'[j] = hand[j]
    BY <2>3, <2>4, <2>5
  <2>7. QuietOf(i) /\ ServedWhen(i) /\ InOnePlaceOf(i)
    BY OfInstance
  <2>8. InstanceTypes'
    BY <1>1, <2>3, <2>6 DEF InstanceInv, InstanceTypes
  <2>9. Within(i)
    BY <1>1, <2>3, <2>6 DEF Within
  <2>10. Held(i)' \subseteq Held(i)
    BY <1>1, <2>1, <2>3, <2>4, <2>6 DEF Held
  <2>11. \A d : With(i, d) => With(i, d)'
    BY <1>1, <2>3 DEF With
  <2>12. QuietOf(i)'
    BY <1>1, <2>3, <2>7 DEF QuietOf, Processing!Listening
  <2>13. ServedWhen(i)'
    BY <1>1, <1>3, <2>1, <2>3, <2>4, <2>6, <2>7 DEF ServedWhen
  <2>14. InOnePlaceOf(i)'
    BY <1>1, <2>1, <2>3, <2>4, <2>6, <2>7 DEF InOnePlaceOf
  <2>15. (hand[i] # <<>> => (hand[i][1].step = "sent" => With(i, hand[i][1].conn)))'
    BY <2>1, <2>4, <2>6
  <2>. QED
    BY <1>1, <2>3, <2>8, <2>9, <2>10, <2>11, <2>12, <2>13, <2>14, <2>15, WithinKeepsInv
<1>. QED
  BY <1>2, <1>3

LEMMA SendKeepsInv ==
  ASSUME InstanceInv, NEW i \in Processes, Processing!Send(i)
  PROVE  InstanceInv'
<1>1. /\ Processing!Listening(i) /\ hand[i] # <<>> /\ hand[i][1].step = "checked"
      /\ UNCHANGED <<accepting, peer, late, backlog, opened, dropped>>
  BY DEF Processing!Send, Processing!At, Processing!clientVars
<1>2. CASE ~(Len(channel[i]) < ChannelSize)
  <2>1. Processing!Refuse(i)
    BY <1>2 DEF Processing!Send
  <2>. QED
    BY <1>1, <2>1, RefuseKeepsInv
<1>3. CASE Len(channel[i]) < ChannelSize
  <2>. PICK h \in [conn : Connections, step : {"read", "checked", "sent"}] : hand[i] = <<h>>
    BY <1>1, OfInstance
  <2>. DEFINE g == [h EXCEPT !.step = "sent"]
              ch == Append(channel[i], h.conn)
  <2>1. /\ g \in [conn : Connections, step : {"read", "checked", "sent"}]
        /\ g.conn = h.conn /\ g.step = "sent" /\ h.step = "checked" /\ hand[i][1] = h
        /\ h.conn \in Connections
    BY <1>1
  <2>2. [hand[i] EXCEPT ![1] = g] = <<g>>
    OBVIOUS
  <2>3. hand' = [hand EXCEPT ![i] = <<g>>] /\ UNCHANGED phase /\ channel' = [channel EXCEPT ![i] = ch]
    BY <1>3, <2>2 DEF Processing!Send
  <2>4. channel[i] \in Seq(Connections)
    BY OfInstance
  <2>5. /\ ch \in Seq(Connections)
        /\ Elements(ch) = Elements(channel[i]) \cup {h.conn}
        /\ LaunchesOf(ch) = LaunchesOf(channel[i]) \cup {h.conn.launch}
        /\ Distinct(channel[i]) /\ h.conn.launch \notin LaunchesOf(channel[i]) => Distinct(ch)
    BY <2>1, <2>4, AppendedSet
  <2>. HIDE DEF g, ch
  <2>6. <<g>> \in Hands /\ <<g>> # <<>> /\ <<g>>[1] = g /\ Elements(<<g>>) = {g} /\ Elements(hand[i]) = {h}
    BY <2>1 DEF Hands, Elements
  <2>7. /\ phase \in [Processes -> Phases] /\ hand \in [Processes -> Hands]
        /\ channel \in [Processes -> Seq(Connections)]
    BY DEF InstanceInv, InstanceTypes
  <2>8. /\ hand' \in [Processes -> Hands] /\ hand'[i] = <<g>>
        /\ channel' \in [Processes -> Seq(Connections)] /\ channel'[i] = ch
        /\ \A j \in Processes \ {i} : hand'[j] = hand[j] /\ channel'[j] = channel[j]
    BY <2>3, <2>5, <2>6, <2>7
  <2>9. QuietOf(i) /\ ServedWhen(i) /\ InOnePlaceOf(i)
    BY OfInstance
  <2>10. InstanceTypes'
    BY <1>1, <2>3, <2>8 DEF InstanceInv, InstanceTypes
  <2>11. Within(i)
    BY <1>1, <2>3, <2>8 DEF Within
  <2>12. Held(i)' \subseteq Held(i)
    BY <1>1, <2>1, <2>5, <2>6, <2>8 DEF Held
  <2>13. \A d : With(i, d) => With(i, d)'
    BY <1>1, <2>5, <2>8 DEF With
  <2>14. QuietOf(i)'
    BY <1>1, <2>3, <2>9 DEF QuietOf, Processing!Listening
  <2>15. ServedWhen(i)'
    BY <1>1, <2>1, <2>3, <2>5, <2>6, <2>8, <2>9 DEF ServedWhen
  <2>16. InOnePlaceOf(i)'
    <3>1. /\ h.conn.launch # i /\ h.conn.launch \notin LaunchesOf(backlog[i])
          /\ h.conn.launch \notin LaunchesOf(channel[i]) \cup Elements(opened[i])
      BY <1>1, <2>1, <2>9 DEF InOnePlaceOf
    <3>. QED
      BY <1>1, <2>1, <2>5, <2>6, <2>8, <2>9, <3>1 DEF InOnePlaceOf
  <2>17. (hand[i] # <<>> => (hand[i][1].step = "sent" => With(i, hand[i][1].conn)))'
    BY <2>1, <2>5, <2>6, <2>8 DEF With
  <2>. QED
    BY <1>1, <2>3, <2>10, <2>11, <2>12, <2>13, <2>14, <2>15, <2>16, <2>17, WithinKeepsInv
<1>. QED
  BY <1>2, <1>3

LEMMA AcknowledgeKeepsInv ==
  ASSUME InstanceInv, NEW i \in Processes, Processing!Acknowledge(i)
  PROVE  InstanceInv'
<1>1. /\ Processing!Listening(i) /\ hand[i] # <<>> /\ hand[i][1].step = "sent"
      /\ hand' = [hand EXCEPT ![i] = <<>>]
      /\ UNCHANGED <<accepting, peer, late, backlog, channel, opened, dropped>>
  BY DEF Processing!Acknowledge, Processing!Acknowledges, Processing!At, Processing!clientVars
<1>. PICK h \in [conn : Connections, step : {"read", "checked", "sent"}] : hand[i] = <<h>>
  BY <1>1, OfInstance
<1>. DEFINE q == h.conn.launch
<1>2. /\ hand[i][1] = h /\ Processing!Client(i) = q /\ q \in Processes
      /\ h.conn \in Connections /\ Elements(hand[i]) = {h}
  BY DEF Processing!Client, Connections, Elements
<1>3. With(i, h.conn)
  BY <1>1, <1>2 DEF InstanceInv, SentIsWith
<1>4. QuietOf(i) /\ ServedWhen(i) /\ InOnePlaceOf(i)
  BY OfInstance
<1>5. h.conn.serves /\ h.conn = Launched(q)
  BY <1>1, <1>2, <1>4 DEF ServedWhen, Launched, Connections
<1>. HIDE DEF q
<1>6. With(i, Launched(q))'
  BY <1>1, <1>3, <1>5 DEF With, Launched
<1>7. /\ phase \in [Processes -> Phases] /\ hand \in [Processes -> Hands]
  BY DEF InstanceInv, InstanceTypes
<1>8. /\ hand' \in [Processes -> Hands] /\ hand'[i] = <<>>
      /\ \A j \in Processes \ {i} : hand'[j] = hand[j]
  BY <1>1, <1>7 DEF Hands
<1>9. q # i
  BY <1>1, <1>2, <1>4 DEF InOnePlaceOf, q
<1>10. /\ phase' \in [Processes -> Phases] /\ phase'[i] = phase[i]
      /\ \A j \in Processes \ {q} : phase'[j] = phase[j]
      /\ \/ phase'[q] = phase[q]
         \/ phase[q] = "waiting" /\ peer[q] = i /\ phase'[q] = "forwarded"
  BY <1>2, <1>7, <1>9 DEF Processing!Acknowledge, Processing!StillWaits, Phases
<1>11. InstanceTypes'
  BY <1>1, <1>8, <1>10 DEF InstanceInv, InstanceTypes
<1>12. Within(i)
  BY <1>1, <1>8 DEF Within
<1>13. Elements(<<>>) = {}
  BY EmptyQueue
<1>14. Held(i)' \subseteq Held(i)
  BY <1>1, <1>8, <1>13 DEF Held
<1>15. \A d : With(i, d) => With(i, d)'
  BY <1>1 DEF With
<1>16. QuietOf(i)'
  BY <1>1, <1>4, <1>8, <1>10 DEF QuietOf, Processing!Listening
<1>17. ServedWhen(i)'
  BY <1>1, <1>4, <1>8, <1>10 DEF ServedWhen
<1>18. InOnePlaceOf(i)'
  BY <1>1, <1>4, <1>8 DEF InOnePlaceOf
<1>19. (hand[i] # <<>> => (hand[i][1].step = "sent" => With(i, hand[i][1].conn)))'
  BY <1>8
<1>. QED
  BY <1>1, <1>2, <1>6, <1>10, <1>11, <1>12, <1>14, <1>15, <1>16, <1>17, <1>18, <1>19, WithinKeepsInv

LEMMA ReceiveKeepsInv ==
  ASSUME InstanceInv, NEW i \in Processes, Processing!Receive(i)
  PROVE  InstanceInv'
<1>. DEFINE c == Head(channel[i])
<1>1. /\ phase[i] \in {"open", "broken", "quitting"} /\ channel[i] # <<>>
      /\ channel' = [channel EXCEPT ![i] = Tail(channel[i])]
      /\ \/ /\ phase[i] = "open"
            /\ opened' = [opened EXCEPT ![i] = Append(opened[i], c.launch)]
            /\ UNCHANGED dropped
         \/ /\ dropped' = [dropped EXCEPT ![i] = dropped[i] \cup {c}]
            /\ UNCHANGED opened
      /\ UNCHANGED <<phase, accepting, peer, backlog, hand>>
  BY DEF Processing!Receive, Processing!clientVars
<1>2. QuietOf(i) /\ ServedWhen(i) /\ InOnePlaceOf(i) /\ channel[i] \in Seq(Connections)
      /\ opened[i] \in Seq(Processes) /\ dropped[i] \subseteq Connections
  BY OfInstance
<1>3. /\ c \in Connections /\ Tail(channel[i]) \in Seq(Connections)
      /\ Elements(channel[i]) = Elements(Tail(channel[i])) \cup {c}
      /\ LaunchesOf(channel[i]) = LaunchesOf(Tail(channel[i])) \cup {c.launch}
      /\ Distinct(channel[i]) => Distinct(Tail(channel[i])) /\ c.launch \notin LaunchesOf(Tail(channel[i]))
  BY <1>1, <1>2, HeadAndTail
<1>4. c.launch \in Processes
  BY <1>3 DEF Connections
<1>5. /\ Append(opened[i], c.launch) \in Seq(Processes)
      /\ Elements(Append(opened[i], c.launch)) = Elements(opened[i]) \cup {c.launch}
      /\ Processing!IsInjective(opened[i]) /\ c.launch \notin Elements(opened[i])
           => Processing!IsInjective(Append(opened[i], c.launch))
  BY <1>2, <1>4, AppendedSet
<1>. HIDE DEF c
<1>6. c.launch \in LaunchesOf(channel[i]) /\ c \in Elements(channel[i])
  BY <1>3
<1>7. /\ c.launch \notin Elements(opened[i]) /\ c.launch \notin LaunchesOf(backlog[i])
      /\ c.launch # i /\ c.serves
  BY <1>2, <1>6 DEF InOnePlaceOf, ServedWhen
<1>8. /\ channel \in [Processes -> Seq(Connections)] /\ opened \in [Processes -> Seq(Processes)]
      /\ dropped \in [Processes -> SUBSET Connections] /\ phase \in [Processes -> Phases]
  BY DEF InstanceInv, InstanceTypes
<1>9. /\ channel' \in [Processes -> Seq(Connections)] /\ channel'[i] = Tail(channel[i])
      /\ opened' \in [Processes -> Seq(Processes)]
      /\ dropped' \in [Processes -> SUBSET Connections]
      /\ \A j \in Processes \ {i} : channel'[j] = channel[j] /\ opened'[j] = opened[j] /\ dropped'[j] = dropped[j]
  <2>1. channel' \in [Processes -> Seq(Connections)] /\ channel'[i] = Tail(channel[i])
    BY <1>1, <1>3, <1>8
  <2>2. opened' \in [Processes -> Seq(Processes)]
    BY <1>1, <1>5, <1>8
  <2>3. dropped[i] \cup {c} \in SUBSET Connections
    BY <1>2, <1>3
  <2>4. dropped' \in [Processes -> SUBSET Connections]
    BY <1>1, <1>8, <2>3
  <2>. QED
    BY <1>1, <1>8, <2>1, <2>2, <2>4
<1>10. \/ /\ phase[i] = "open" /\ opened'[i] = Append(opened[i], c.launch) /\ dropped'[i] = dropped[i]
       \/ /\ dropped'[i] = dropped[i] \cup {c} /\ opened'[i] = opened[i]
  BY <1>1, <1>8
<1>11. /\ Elements(opened[i]) \subseteq Elements(opened'[i])
       /\ Elements(opened'[i]) \subseteq Elements(opened[i]) \cup {c.launch}
       /\ Processing!IsInjective(opened'[i])
       /\ dropped[i] \subseteq dropped'[i] /\ dropped'[i] \subseteq dropped[i] \cup {c}
       /\ c.launch \in Elements(opened'[i]) \/ c \in dropped'[i]
  <2>1. Processing!IsInjective(opened[i])
    BY <1>2 DEF InOnePlaceOf
  <2>. QED
    BY <1>5, <1>7, <1>10, <2>1
<1>12. InstanceTypes'
  BY <1>1, <1>9 DEF InstanceInv, InstanceTypes
<1>13. Within(i)
  BY <1>1, <1>9 DEF Within
<1>14. Held(i)' \subseteq Held(i)
  BY <1>1, <1>3, <1>9, <1>11 DEF Held
<1>15. \A d : With(i, d) => With(i, d)'
  BY <1>3, <1>9, <1>11 DEF With
<1>16. QuietOf(i)'
  BY <1>1, <1>2 DEF QuietOf, Processing!Listening
<1>17. ServedWhen(i)'
  BY <1>1, <1>2, <1>3, <1>7, <1>9, <1>11 DEF ServedWhen
<1>18. InOnePlaceOf(i)'
  BY <1>1, <1>2, <1>3, <1>7, <1>9, <1>11 DEF InOnePlaceOf
<1>19. (hand[i] # <<>> => (hand[i][1].step = "sent" => With(i, hand[i][1].conn)))'
  <2>1. hand[i] # <<>> => (hand[i][1].step = "sent" => With(i, hand[i][1].conn))
    BY DEF InstanceInv, SentIsWith
  <2>. SUFFICES ASSUME hand[i] # <<>>, hand[i][1].step = "sent"
                PROVE  With(i, hand[i][1].conn)'
    BY <1>1
  <2>2. PICK d : d = hand[i][1].conn /\ With(i, d)
    BY <2>1
  <2>3. With(i, d)'
    BY <1>15, <2>2
  <2>. QED
    BY <1>1, <2>2, <2>3 DEF With
<1>20. Processing!Listening(i)
  BY <1>1 DEF Processing!Listening
<1>. QED
  BY <1>1, <1>12, <1>13, <1>14, <1>15, <1>16, <1>17, <1>18, <1>19, <1>20, WithinKeepsInv

-----------------------------------------------------------------------------
(* The application of a process opens its own launch. *)
LEMMA OpenKeepsInv ==
  ASSUME InstanceInv, NEW p \in Processes, Processing!Open(p)
  PROVE  InstanceInv'
<1>1. /\ phase[p] = "starting" /\ phase' = [phase EXCEPT ![p] = "open"]
      /\ opened' = [opened EXCEPT ![p] = Append(opened[p], p)]
      /\ UNCHANGED <<accepting, peer, backlog, hand, channel, dropped>>
  BY DEF Processing!Open, Processing!Moves, Processing!clientVars
<1>2. /\ phase \in [Processes -> Phases] /\ opened \in [Processes -> Seq(Processes)]
      /\ opened[p] \in Seq(Processes)
  BY DEF InstanceInv, InstanceTypes
<1>3. opened[p] = <<>>
  BY <1>1 DEF InstanceInv, Quiet
<1>4. /\ Append(opened[p], p) \in Seq(Processes)
      /\ Elements(Append(opened[p], p)) = {p}
      /\ Processing!IsInjective(Append(opened[p], p))
  <2>1. /\ Append(opened[p], p) \in Seq(Processes)
        /\ Elements(Append(opened[p], p)) = Elements(opened[p]) \cup {p}
        /\ Processing!IsInjective(opened[p]) /\ p \notin Elements(opened[p])
             => Processing!IsInjective(Append(opened[p], p))
    BY <1>2, AppendedSet
  <2>2. Elements(opened[p]) = {} /\ Processing!IsInjective(opened[p])
    BY <1>3, EmptyQueue
  <2>. QED
    BY <2>1, <2>2
<1>5. /\ phase' \in [Processes -> Phases] /\ phase'[p] = "open"
      /\ opened' \in [Processes -> Seq(Processes)] /\ opened'[p] = Append(opened[p], p)
      /\ \A j \in Processes \ {p} : phase'[j] = phase[j] /\ opened'[j] = opened[j]
  BY <1>1, <1>2, <1>4 DEF Phases
<1>6. \A j \in Processes : Processing!Listening(j)' <=> Processing!Listening(j)
  BY <1>1, <1>5 DEF Processing!Listening
<1>7. InstanceTypes'
  BY <1>1, <1>5 DEF InstanceInv, InstanceTypes
<1>8. Quiet'
  BY <1>1, <1>5, <1>6 DEF InstanceInv, Quiet
<1>9. AcceptsWhileServing'
  <2>1. \A j \in Processes : phase'[j] \in {"broken", "quitting"} => ~accepting'[j]
    BY <1>1, <1>5 DEF InstanceInv, AcceptsWhileServing
  <2>. QED
    BY <1>1, <2>1 DEF InstanceInv, AcceptsWhileServing
<1>10. InOnePlace'
  <2>. SUFFICES ASSUME NEW j \in Processes PROVE InOnePlaceOf(j)'
    BY DEF InOnePlace, InOnePlaceOf
  <2>1. InOnePlaceOf(j)
    BY OfInstance
  <2>2. CASE j # p
    BY <1>1, <1>5, <2>1, <2>2 DEF InOnePlaceOf
  <2>3. CASE j = p
    <3>1. p \notin LaunchesOf(backlog[p]) \cup LaunchesOf(channel[p])
      BY <2>1, <2>3 DEF InOnePlaceOf
    <3>. QED
      BY <1>1, <1>4, <1>5, <2>1, <2>3, <3>1 DEF InOnePlaceOf
  <2>. QED
    BY <2>2, <2>3
<1>11. ConnectsOnce'
  <2>. SUFFICES ASSUME NEW j \in Processes, Processing!Listening(j), NEW q \in Held(j)' \ {j}
                PROVE  phase'[q] \in {"forwarded", "failed", "gone"} \/ (phase'[q] = "waiting" /\ peer[q] = j)
    BY <1>1, <1>6 DEF ConnectsOnce
  <2>1. q \in Held(j)
    BY <1>1, <1>4, <1>5 DEF Held
  <2>2. q \in Processes
    BY <2>1, HeldAreProcesses DEF InstanceInv
  <2>3. phase[q] \in {"forwarded", "failed", "gone"} \/ (phase[q] = "waiting" /\ peer[q] = j)
    BY <2>1 DEF InstanceInv, ConnectsOnce
  <2>. QED
    BY <1>1, <1>5, <2>2, <2>3
<1>12. \A j \in Processes : \A c : With(j, c) => With(j, c)'
  BY <1>1, <1>3, <1>5, EmptyQueue DEF With
<1>13. SentIsWith'
  <2>. SUFFICES ASSUME NEW j \in Processes, hand[j] # <<>>, hand[j][1].step = "sent"
                PROVE  With(j, hand[j][1].conn)'
    BY <1>1 DEF SentIsWith
  <2>1. PICK d : d = hand[j][1].conn /\ With(j, d)
    BY DEF InstanceInv, SentIsWith
  <2>2. With(j, d)'
    BY <1>12, <2>1
  <2>. QED
    BY <1>1, <2>1, <2>2 DEF With
<1>14. ForwardedIsWith'
  <2>. SUFFICES ASSUME NEW q \in Processes, phase'[q] = "forwarded"
                PROVE  peer[q] \in Processes
                       /\ (q \in Elements(opened'[peer[q]])
                          \/ Launched(q) \in Elements(channel'[peer[q]]) \cup dropped'[peer[q]])
    BY <1>1 DEF ForwardedIsWith, With, Launched
  <2>1. phase[q] = "forwarded"
    BY <1>5
  <2>2. PICK j \in Processes : j = peer[q] /\ With(j, Launched(q))
    BY <2>1 DEF InstanceInv, ForwardedIsWith
  <2>3. (With(j, Launched(q)))'
    BY <1>12, <2>2 DEF Launched
  <2>. QED
    BY <2>2, <2>3 DEF With, Launched
<1>. QED
  BY <1>7, <1>8, <1>9, <1>10, <1>11, <1>13, <1>14 DEF InstanceInv

(* A launch connects to the instance that is bound. *)
LEMMA ConnectKeepsInv ==
  ASSUME InstanceInv, NEW p \in Processes, Processing!Connect(p)
  PROVE  InstanceInv'
<1>. DEFINE c == [launch |-> p, serves |-> Processing!Serves(endpoint)]
<1>1. /\ phase[p] = "forwarding" /\ phase' = [phase EXCEPT ![p] = "waiting"]
      /\ endpoint \in Processes /\ Processing!Listening(endpoint)
      /\ backlog' = [backlog EXCEPT ![endpoint] = Append(backlog[endpoint], c)]
      /\ peer' = [peer EXCEPT ![p] = endpoint]
      /\ UNCHANGED <<accepting, hand, channel, opened, dropped>>
  BY DEF Processing!Connect, Processing!Moves, Processing!Listeners
<1>2. PICK i \in Processes : i = endpoint
  BY <1>1
<1>3. /\ c \in Connections /\ c.launch = p
      /\ c.serves = (phase[i] \in {"starting", "open"})
  <2>1. Processing!Serves(endpoint) = (phase[i] \in {"starting", "open"})
    BY <1>2 DEF Processing!Serves
  <2>2. c = [launch |-> p, serves |-> (phase[i] \in {"starting", "open"})]
    BY <2>1
  <2>. HIDE DEF c
  <2>3. (phase[i] \in {"starting", "open"}) \in BOOLEAN
    OBVIOUS
  <2>. QED
    BY <2>2, <2>3 DEF Connections
<1>4. p # i /\ p \notin Held(i)
  <2>1. p # i
    BY <1>1, <1>2 DEF Processing!Listening
  <2>2. ~(p \in Held(i) \ {i})
    BY <1>1, <1>2 DEF InstanceInv, ConnectsOnce
  <2>. QED
    BY <2>1, <2>2
<1>5. /\ phase \in [Processes -> Phases] /\ backlog \in [Processes -> Seq(Connections)]
      /\ backlog[i] \in Seq(Connections) /\ DOMAIN peer = Processes
  BY DEF InstanceInv, InstanceTypes
<1>. DEFINE b == Append(backlog[i], c)
<1>. HIDE DEF c
<1>6. /\ b \in Seq(Connections)
      /\ Elements(b) = Elements(backlog[i]) \cup {c}
      /\ LaunchesOf(b) = LaunchesOf(backlog[i]) \cup {p}
      /\ Distinct(backlog[i]) /\ p \notin LaunchesOf(backlog[i]) => Distinct(b)
  BY <1>3, <1>5, AppendedSet
<1>7. backlog' = [backlog EXCEPT ![i] = b] /\ peer' = [peer EXCEPT ![p] = i]
  BY <1>1, <1>2
<1>. HIDE DEF b
<1>8. /\ phase' \in [Processes -> Phases] /\ phase'[p] = "waiting"
      /\ backlog' \in [Processes -> Seq(Connections)] /\ backlog'[i] = b
      /\ DOMAIN peer' = Processes /\ peer'[p] = i
      /\ \A j \in Processes \ {p} : phase'[j] = phase[j] /\ peer'[j] = peer[j]
      /\ \A j \in Processes \ {i} : backlog'[j] = backlog[j]
  BY <1>1, <1>5, <1>6, <1>7 DEF Phases
<1>9. \A j \in Processes : Processing!Listening(j)' <=> Processing!Listening(j)
  BY <1>1, <1>8 DEF Processing!Listening
<1>10. InstanceTypes'
  BY <1>1, <1>8 DEF InstanceInv, InstanceTypes
<1>11. Quiet'
  BY <1>1, <1>2, <1>8, <1>9 DEF InstanceInv, Quiet
<1>12. AcceptsWhileServing'
  <2>. SUFFICES ASSUME NEW j \in Processes PROVE ServedWhen(j)'
    BY DEF AcceptsWhileServing, ServedWhen
  <2>1. ServedWhen(j)
    BY OfInstance
  <2>2. phase'[j] \in {"broken", "quitting"} => phase[j] \in {"broken", "quitting"}
    BY <1>8
  <2>3. CASE j # i
    BY <1>1, <1>8, <2>1, <2>2, <2>3 DEF ServedWhen
  <2>4. CASE j = i
    <3>1. accepting[i] => c.serves
      BY <1>1, <1>2, <1>3, <2>1, <2>4 DEF ServedWhen, Processing!Listening
    <3>. QED
      BY <1>1, <1>6, <1>8, <2>1, <2>2, <2>4, <3>1 DEF ServedWhen
  <2>. QED
    BY <2>3, <2>4
<1>13. InOnePlace'
  <2>. SUFFICES ASSUME NEW j \in Processes PROVE InOnePlaceOf(j)'
    BY DEF InOnePlace, InOnePlaceOf
  <2>1. InOnePlaceOf(j)
    BY OfInstance
  <2>2. CASE j # i
    BY <1>1, <1>8, <2>1, <2>2 DEF InOnePlaceOf
  <2>3. CASE j = i
    <3>1. p \notin LaunchesOf(backlog[i]) \cup LaunchesOf(channel[i]) \cup Elements(opened[i])
      BY <1>4 DEF Held
    <3>2. hand[i] # <<>> => hand[i][1].conn.launch # p
      <4>. SUFFICES ASSUME hand[i] # <<>> PROVE hand[i][1].conn.launch \in Held(i)
        BY <1>4
      <4>1. hand[i][1] \in Elements(hand[i])
        BY DEF InstanceInv, InstanceTypes, Hands, Elements
      <4>. QED
        BY <4>1 DEF Held
    <3>3. Distinct(b)
      BY <1>6, <2>1, <2>3, <3>1 DEF InOnePlaceOf
    <3>4. LaunchesOf(b) \cap (LaunchesOf(channel[i]) \cup Elements(opened[i])) = {}
      BY <1>6, <2>1, <2>3, <3>1 DEF InOnePlaceOf
    <3>5. i \notin LaunchesOf(b) \cup LaunchesOf(channel[i])
      BY <1>4, <1>6, <2>1, <2>3 DEF InOnePlaceOf
    <3>6. hand[i] # <<>> => hand[i][1].conn.launch \notin LaunchesOf(b)
      BY <1>6, <2>1, <2>3, <3>2 DEF InOnePlaceOf
    <3>7. backlog'[j] = b /\ hand'[j] = hand[i] /\ channel'[j] = channel[i] /\ opened'[j] = opened[i]
      BY <1>1, <1>8, <2>3
    <3>. QED
      BY <2>1, <2>3, <3>3, <3>4, <3>5, <3>6, <3>7 DEF InOnePlaceOf
  <2>. QED
    BY <2>2, <2>3
<1>14. ConnectsOnce'
  <2>. SUFFICES ASSUME NEW j \in Processes, Processing!Listening(j), NEW q \in Held(j)' \ {j}
                PROVE  phase'[q] \in {"forwarded", "failed", "gone"} \/ (phase'[q] = "waiting" /\ peer'[q] = j)
    BY <1>9 DEF ConnectsOnce
  <2>1. q \in Held(j) \/ (q = p /\ j = i)
    BY <1>1, <1>6, <1>8 DEF Held
  <2>2. CASE q = p /\ j = i
    BY <1>8, <2>2
  <2>3. CASE q \in Held(j)
    <3>1. q \in Processes
      BY <2>3, HeldAreProcesses DEF InstanceInv
    <3>2. phase[q] \in {"forwarded", "failed", "gone"} \/ (phase[q] = "waiting" /\ peer[q] = j)
      BY <2>3 DEF InstanceInv, ConnectsOnce
    <3>. QED
      BY <1>1, <1>8, <3>1, <3>2
  <2>. QED
    BY <2>1, <2>2, <2>3
<1>15. SentIsWith'
  BY <1>1 DEF InstanceInv, SentIsWith, With
<1>16. ForwardedIsWith'
  <2>. SUFFICES ASSUME NEW q \in Processes, phase'[q] = "forwarded"
                PROVE  peer'[q] \in Processes
                       /\ (q \in Elements(opened[peer'[q]])
                          \/ Launched(q) \in Elements(channel[peer'[q]]) \cup dropped[peer'[q]])
    BY <1>1 DEF ForwardedIsWith, With, Launched
  <2>1. q # p /\ phase[q] = "forwarded" /\ peer'[q] = peer[q]
    BY <1>8
  <2>. QED
    BY <2>1 DEF InstanceInv, ForwardedIsWith, With, Launched
<1>. QED
  BY <1>10, <1>11, <1>12, <1>13, <1>14, <1>15, <1>16 DEF InstanceInv

(* A process ends: what its application was still to open is dropped. *)
LEMMA EndKeepsInv ==
  ASSUME InstanceInv, NEW p \in Processes, Processing!Ends(p),
         phase[p] \notin {"idle", "forwarded", "failed", "gone"}
  PROVE  InstanceInv'
<1>1. channel[p] \in Seq(Connections) /\ Processing!ToSet(channel[p]) = Elements(channel[p])
      /\ Elements(channel[p]) \subseteq Connections /\ dropped[p] \subseteq Connections
  BY OfInstance, ToSetIsElements, ElementsAreOf
<1>2. /\ phase' = [phase EXCEPT ![p] = "gone"]
      /\ dropped' = [dropped EXCEPT ![p] = dropped[p] \cup Elements(channel[p])]
      /\ backlog' = [backlog EXCEPT ![p] = <<>>]
      /\ hand' = [hand EXCEPT ![p] = <<>>]
      /\ channel' = [channel EXCEPT ![p] = <<>>]
      /\ UNCHANGED <<accepting, peer, opened>>
  BY <1>1 DEF Processing!Ends, Processing!Moves, Processing!clientVars
<1>3. /\ phase \in [Processes -> Phases] /\ dropped \in [Processes -> SUBSET Connections]
      /\ backlog \in [Processes -> Seq(Connections)] /\ channel \in [Processes -> Seq(Connections)]
      /\ hand \in [Processes -> Hands]
  BY DEF InstanceInv, InstanceTypes
<1>4. <<>> \in Seq(Connections) /\ <<>> \in Hands /\ "gone" \in Phases
      /\ dropped[p] \cup Elements(channel[p]) \in SUBSET Connections
  BY <1>1 DEF Hands, Phases
<1>5. /\ phase' \in [Processes -> Phases] /\ phase'[p] = "gone"
      /\ dropped' \in [Processes -> SUBSET Connections]
      /\ dropped'[p] = dropped[p] \cup Elements(channel[p])
      /\ backlog' \in [Processes -> Seq(Connections)] /\ backlog'[p] = <<>>
      /\ hand' \in [Processes -> Hands] /\ hand'[p] = <<>>
      /\ channel' \in [Processes -> Seq(Connections)] /\ channel'[p] = <<>>
  BY <1>2, <1>3, <1>4
<1>6. \A j \in Processes \ {p} :
        /\ phase'[j] = phase[j] /\ dropped'[j] = dropped[j]
        /\ backlog'[j] = backlog[j] /\ hand'[j] = hand[j] /\ channel'[j] = channel[j]
  BY <1>2, <1>3
<1>7. InstanceTypes'
  BY <1>2, <1>5 DEF InstanceInv, InstanceTypes
<1>8. Quiet'
  BY <1>2, <1>5, <1>6 DEF InstanceInv, Quiet, Processing!Listening
<1>9. AcceptsWhileServing'
  <2>. SUFFICES ASSUME NEW j \in Processes PROVE ServedWhen(j)'
    BY DEF AcceptsWhileServing, ServedWhen
  <2>1. ServedWhen(j)
    BY OfInstance
  <2>2. CASE j # p
    BY <1>2, <1>6, <2>1, <2>2 DEF ServedWhen
  <2>3. CASE j = p
    BY <1>2, <1>5, <2>1, <2>3, EmptyQueue DEF ServedWhen
  <2>. QED
    BY <2>2, <2>3
<1>10. InOnePlace'
  <2>. SUFFICES ASSUME NEW j \in Processes PROVE InOnePlaceOf(j)'
    BY DEF InOnePlace, InOnePlaceOf
  <2>1. InOnePlaceOf(j)
    BY OfInstance
  <2>2. CASE j # p
    BY <1>2, <1>6, <2>1, <2>2 DEF InOnePlaceOf
  <2>3. CASE j = p
    BY <1>2, <1>5, <2>1, <2>3, EmptyQueue DEF InOnePlaceOf
  <2>. QED
    BY <2>2, <2>3
<1>11. ConnectsOnce'
  <2>. SUFFICES ASSUME NEW j \in Processes, Processing!Listening(j)', NEW q \in Held(j)' \ {j}
                PROVE  phase'[q] \in {"forwarded", "failed", "gone"} \/ (phase'[q] = "waiting" /\ peer[q] = j)
    BY <1>2 DEF ConnectsOnce
  <2>1. j # p /\ Processing!Listening(j)
    BY <1>5, <1>6 DEF Processing!Listening
  <2>2. q \in Held(j)
    BY <1>2, <1>6, <2>1 DEF Held
  <2>3. q \in Processes
    BY <2>2, HeldAreProcesses DEF InstanceInv
  <2>4. phase[q] \in {"forwarded", "failed", "gone"} \/ (phase[q] = "waiting" /\ peer[q] = j)
    BY <2>1, <2>2 DEF InstanceInv, ConnectsOnce
  <2>. QED
    BY <1>5, <1>6, <2>3, <2>4
<1>12. \A j \in Processes : \A c : With(j, c) => With(j, c)'
  BY <1>2, <1>5, <1>6 DEF With
<1>13. SentIsWith'
  <2>. SUFFICES ASSUME NEW j \in Processes, hand'[j] # <<>>, hand'[j][1].step = "sent"
                PROVE  \/ hand'[j][1].conn.launch \in Elements(opened'[j])
                       \/ hand'[j][1].conn \in Elements(channel'[j]) \cup dropped'[j]
    BY DEF SentIsWith, With
  <2>1. hand'[j] = hand[j]
    BY <1>5, <1>6
  <2>2. PICK d : d = hand[j][1].conn /\ With(j, d)
    BY <2>1 DEF InstanceInv, SentIsWith
  <2>3. With(j, d)'
    BY <1>12, <2>2
  <2>. QED
    BY <2>1, <2>2, <2>3 DEF With
<1>14. ForwardedIsWith'
  <2>. SUFFICES ASSUME NEW q \in Processes, phase'[q] = "forwarded"
                PROVE  peer[q] \in Processes
                       /\ (q \in Elements(opened'[peer[q]])
                          \/ Launched(q) \in Elements(channel'[peer[q]]) \cup dropped'[peer[q]])
    BY <1>2 DEF ForwardedIsWith, With, Launched
  <2>1. phase[q] = "forwarded"
    BY <1>5, <1>6
  <2>2. PICK j \in Processes : j = peer[q] /\ With(j, Launched(q))
    BY <2>1 DEF InstanceInv, ForwardedIsWith
  <2>3. (With(j, Launched(q)))'
    BY <1>12, <2>2 DEF Launched
  <2>. QED
    BY <2>2, <2>3 DEF With, Launched
<1>. QED
  BY <1>7, <1>8, <1>9, <1>10, <1>11, <1>13, <1>14 DEF InstanceInv

-----------------------------------------------------------------------------
LEMMA InstanceInit == Processing!Init => InstanceInv
<1>. SUFFICES ASSUME Processing!Init PROVE InstanceInv
  OBVIOUS
<1>1. /\ phase = [p \in Processes |-> "idle"] /\ accepting = [p \in Processes |-> TRUE]
      /\ DOMAIN peer = Processes
      /\ backlog = [p \in Processes |-> <<>>] /\ hand = [p \in Processes |-> <<>>]
      /\ channel = [p \in Processes |-> <<>>] /\ opened = [p \in Processes |-> <<>>]
      /\ dropped = [p \in Processes |-> {}]
  BY DEF Processing!Init
<1>2. InstanceTypes
  BY <1>1 DEF InstanceTypes, Phases, Hands
<1>3. Quiet
  BY <1>1 DEF Quiet
<1>4. AcceptsWhileServing
  BY <1>1, EmptyQueue DEF AcceptsWhileServing
<1>5. InOnePlace
  BY <1>1, EmptyQueue DEF InOnePlace
<1>6. ConnectsOnce
  BY <1>1 DEF ConnectsOnce, Processing!Listening
<1>7. SentIsWith /\ ForwardedIsWith
  BY <1>1 DEF SentIsWith, ForwardedIsWith
<1>. QED
  BY <1>2, <1>3, <1>4, <1>5, <1>6, <1>7 DEF InstanceInv

LEMMA InstanceNext == InstanceInv /\ [Processing!Next]_(Processing!vars) => InstanceInv'
<1>. SUFFICES ASSUME InstanceInv, [Processing!Next]_(Processing!vars) PROVE InstanceInv'
  OBVIOUS
<1>1. ASSUME UNCHANGED <<phase, accepting, peer, backlog, hand, channel, opened, dropped>>
      PROVE  InstanceInv'
  BY <1>1 DEF InstanceInv, InstanceTypes, Quiet, Processing!Listening, AcceptsWhileServing, InOnePlace,
     ConnectsOnce, Held, SentIsWith, ForwardedIsWith, With
<1>2. CASE UNCHANGED Processing!vars
  BY <1>1, <1>2 DEF Processing!vars, Processing!clientVars, Processing!serverVars
<1>3. ASSUME NEW p \in Processes, Processing!Start(p) \/ Processing!Acquire(p) \/ Processing!Bind(p)
      PROVE  InstanceInv'
  <2>1. PICK to \in {"acquiring", "locked", "forwarding", "starting"} :
          /\ phase' = [phase EXCEPT ![p] = to]
          /\ phase[p] \in {"idle", "acquiring", "locked"} /\ (to = "starting" => phase[p] = "locked")
    BY <1>3 DEF Processing!Start, Processing!Acquire, Processing!Bind, Processing!Moves
  <2>2. UNCHANGED <<accepting, peer, backlog, hand, channel, opened, dropped>>
    BY <1>3 DEF Processing!Start, Processing!Acquire, Processing!Bind, Processing!clientVars,
       Processing!serverVars
  <2>3. to \in Phases \ {"forwarded"} /\ to \notin {"broken", "quitting"} /\ ~Processing!Listening(p)
    BY <2>1 DEF Phases, Processing!Listening
  <2>. QED
    BY <2>1, <2>2, <2>3, MovingKeepsInv
<1>4. ASSUME NEW p \in Processes, Processing!StartupProblem(p) \/ Processing!Quit(p)
      PROVE  InstanceInv'
  <2>1. PICK to \in {"broken", "quitting"} :
          /\ phase' = [phase EXCEPT ![p] = to] /\ phase[p] \in {"starting", "open", "broken"}
    BY <1>4 DEF Processing!StartupProblem, Processing!Quit, Processing!Moves
  <2>2. accepting' = [accepting EXCEPT ![p] = FALSE]
        /\ UNCHANGED <<peer, backlog, hand, channel, opened, dropped>>
    BY <1>4 DEF Processing!StartupProblem, Processing!Quit, Processing!RejectActivations,
       Processing!clientVars, Processing!serverVars
  <2>3. to \in Phases \ {"forwarded"}
    BY DEF Phases
  <2>4. ~accepting'[p]
    BY <2>2 DEF InstanceInv, InstanceTypes
  <2>. QED
    BY <2>1, <2>2, <2>3, <2>4, MovingKeepsInv
<1>5. ASSUME NEW p \in Processes,
             Processing!NoPeer(p) \/ Processing!Reset(p) \/ Processing!NoAnswer(p)
      PROVE  InstanceInv'
  <2>1. PICK to \in {"failed", "forwarding"} :
          /\ phase' = [phase EXCEPT ![p] = to] /\ phase[p] \in {"forwarding", "waiting"}
          /\ phase[p] = "waiting" => to = "failed" \/ ~Processing!Listening(peer[p])
    BY <1>5 DEF Processing!NoPeer, Processing!Reset, Processing!NoAnswer, Processing!TimesOut,
       Processing!AfterError, Processing!Moves
  <2>2. UNCHANGED <<accepting, peer, backlog, hand, channel, opened, dropped>>
    BY <1>5 DEF Processing!NoPeer, Processing!Reset, Processing!NoAnswer, Processing!clientVars,
       Processing!serverVars
  <2>3. to \in Phases \ {"forwarded"} /\ to \notin {"broken", "quitting", "starting"}
        /\ ~Processing!Listening(p)
    BY <2>1 DEF Phases, Processing!Listening
  <2>. QED
    BY <2>1, <2>2, <2>3, MovingKeepsInv
<1>6. ASSUME NEW p \in Processes, Processing!Expire(p) PROVE InstanceInv'
  BY <1>1, <1>6 DEF Processing!Expire, Processing!serverVars
<1>7. ASSUME NEW p \in Processes, Processing!Exit(p) \/ Processing!Kill(p) PROVE InstanceInv'
  <2>1. phase[p] \notin {"idle", "forwarded", "failed", "gone"} /\ Processing!Ends(p)
    BY <1>7 DEF Processing!Exit, Processing!Kill, Processing!Alive, Processing!Listening
  <2>. QED
    BY <2>1, EndKeepsInv
<1>. QED
  BY <1>2, <1>3, <1>4, <1>5, <1>6, <1>7, OpenKeepsInv, ConnectKeepsInv, AcceptKeepsInv, CheckKeepsInv,
     SendKeepsInv, AcknowledgeKeepsInv, ReceiveKeepsInv DEF Processing!Next

LEMMA ServedIsOpened == InstanceInv => Processing!ForwardedIsOpened
<1>. SUFFICES ASSUME InstanceInv PROVE Processing!ForwardedIsOpened
  OBVIOUS
<1>1. \A i \in Processes : /\ Processing!ToSet(opened[i]) = Elements(opened[i])
                           /\ Processing!ToSet(channel[i]) = Elements(channel[i])
  BY OfInstance, ToSetIsElements
<1>2. ASSUME NEW p \in Processes, phase[p] = "forwarded"
      PROVE  \/ p \in Processing!ToSet(opened[peer[p]])
             \/ Launched(p) \in Processing!ToSet(channel[peer[p]]) \cup dropped[peer[p]]
  BY <1>1, <1>2 DEF InstanceInv, ForwardedIsWith, With, Launched
<1>3. \A i \in Processes : \A c \in Processing!ToSet(channel[i]) \cup dropped[i] : c.serves
  BY <1>1 DEF InstanceInv, AcceptsWhileServing
<1>4. \A i \in Processes : Processing!IsInjective(opened[i])
  BY DEF InstanceInv, InOnePlace
<1>. QED
  BY <1>2, <1>3, <1>4 DEF Processing!ForwardedIsOpened, Launched

LEMMA InstanceSpec == Processing!Spec => []Processing!ForwardedIsOpened
<1>. QED
  BY InstanceInit, InstanceNext, ServedIsOpened, PTL DEF Processing!Spec

-----------------------------------------------------------------------------
(* The settings.  Those of the file are valid; typed numbers are natural,  *)
(* and a number in a unit of bytes is no less than the least limit.        *)
Kinds == {"ratio", "days", "both", "forever", "never"}
Policies == [kind : Kinds, ratio : Nat, days : Nat]
AllSettings == [limit : Nat, port : Nat, seed : Policies, switch : BOOLEAN]
ValidSettings == {s \in AllSettings : Drafting!Validate(s)}
Numbers == Nat \cup {Drafting!Bad}

DraftAssumptions ==
  /\ Given \subseteq ValidSettings /\ Texts \subseteq Numbers
  /\ Unit \in Nat \ {0} /\ MinLimit \in Nat /\ MinLimit <= Unit
  /\ MaxPort \in Nat /\ MaxDays \in Nat
  /\ DefaultLimit \in Nat /\ DefaultRatio \in Nat /\ DefaultDays \in Nat

Drafts ==
  [open : {TRUE}, limitOn : BOOLEAN, limit : Numbers, port : Numbers,
   seed : {"automatically", "forever", "never"}, ratio : Numbers, days : Numbers]

Last(s) == s[Len(s)]
InOrder ==
  /\ unsent = {}
  /\ queued = <<>> => engineSettings = settings
  /\ queued # <<>> => Last(queued) = settings

DraftInv ==
  /\ settings \in ValidSettings /\ engineSettings \in ValidSettings
  /\ queued \in Seq(ValidSettings)
  /\ \A c \in unsent : c[2] \in ValidSettings
  /\ draft = Drafting!NoDraft \/ draft \in Drafts
  /\ overflowed \in BOOLEAN
  /\ ~overflowed => InOrder

LEMMA ScaledIsEnough ==
  ASSUME NEW n \in Nat \ {0}, NEW u \in Nat PROVE n * u \in Nat /\ n * u >= u
<1>1. PICK k \in Nat : n = k + 1
  <2>1. n - 1 \in Nat /\ n = (n - 1) + 1
    OBVIOUS
  <2>. QED
    BY <2>1
<1>2. k * u \in Nat
  OBVIOUS
<1>3. n * u = k * u + u
  BY <1>1
<1>. QED
  BY <1>2, <1>3

(* What is made of a valid draft is valid. *)
LEMMA AppliedIsValid ==
  ASSUME DraftAssumptions, NEW d \in Drafts, NEW s \in ValidSettings
  PROVE  Drafting!Apply(d, s) \in ValidSettings
<1>. DEFINE limit == IF ~d.limitOn THEN 0 ELSE IF d.limit > 0 THEN d.limit * Unit ELSE s.limit
            port == IF Drafting!ValidPort(d.port) THEN d.port ELSE s.port
            seed == CASE d.seed = "forever" -> Drafting!SeedForever
                      [] d.seed = "never" -> Drafting!NeverSeed
                      [] d.seed = "automatically" /\ d.ratio # Drafting!Bad /\ d.days \in 0 .. MaxDays ->
                           Drafting!SeedPolicy("both", d.ratio, d.days)
                      [] OTHER -> s.seed
            t == [s EXCEPT !.limit = limit, !.port = port, !.seed = seed]
<1>1. t = Drafting!Apply(d, s)
  BY DEF Drafting!Apply, Drafting!NoLimit
<1>2. /\ s \in AllSettings /\ s.limit \in Nat /\ s.port \in Nat /\ s.seed \in Policies
      /\ s.limit = 0 \/ s.limit >= MinLimit
      /\ s.port # 0
      /\ s.seed.kind \in {"ratio", "both"} => s.seed.ratio >= 0
  BY DEF ValidSettings, AllSettings, Drafting!Validate, Drafting!NoLimit
<1>3. limit \in Nat /\ (limit = 0 \/ limit >= MinLimit)
  <2>1. d.limit \in Numbers /\ Unit \in Nat /\ MinLimit \in Nat /\ MinLimit <= Unit
    BY DEF Drafts, DraftAssumptions
  <2>2. d.limit > 0 => d.limit \in Nat \ {0}
    BY <2>1 DEF Numbers, Drafting!Bad
  <2>3. d.limit > 0 => d.limit * Unit \in Nat /\ d.limit * Unit >= Unit
    BY <2>1, <2>2, ScaledIsEnough
  <2>. QED
    BY <1>2, <2>1, <2>3
<1>4. port \in Nat /\ port # 0
  BY <1>2 DEF Drafting!ValidPort, DraftAssumptions
<1>5. seed \in Policies /\ (seed.kind \in {"ratio", "both"} => seed.ratio >= 0)
  <2>1. d.ratio \in Numbers
    BY DEF Drafts
  <2>2. d.ratio # Drafting!Bad => d.ratio \in Nat
    BY <2>1 DEF Numbers
  <2>3. d.days \in 0 .. MaxDays => d.days \in Nat
    <3>1. MaxDays \in Nat
      BY DEF DraftAssumptions
    <3>2. 0 .. MaxDays \subseteq Nat
      BY <3>1
    <3>. QED
      BY <3>2
  <2>4. ASSUME d.seed = "forever" \/ d.seed = "never"
        PROVE  seed \in Policies /\ seed.kind \notin {"ratio", "both"}
    <3>1. PICK kind \in {"forever", "never"} : seed = [kind |-> kind, ratio |-> 0, days |-> 0]
      BY <2>4 DEF Drafting!SeedForever, Drafting!NeverSeed, Drafting!SeedPolicy
    <3>. HIDE DEF seed
    <3>. QED
      BY <3>1 DEF Policies, Kinds
  <2>5. CASE /\ d.seed = "automatically"
             /\ d.ratio # Drafting!Bad /\ d.days \in 0 .. MaxDays
    <3>1. seed = [kind |-> "both", ratio |-> d.ratio, days |-> d.days]
      BY <2>5 DEF Drafting!SeedPolicy
    <3>. HIDE DEF seed
    <3>. QED
      BY <2>2, <2>3, <2>5, <3>1 DEF Policies, Kinds
  <2>6. CASE /\ d.seed = "automatically"
             /\ ~(d.ratio # Drafting!Bad /\ d.days \in 0 .. MaxDays)
    BY <1>2, <2>6
  <2>7. d.seed \in {"automatically", "forever", "never"}
    BY DEF Drafts
  <2>. QED
    BY <2>4, <2>5, <2>6, <2>7
<1>. HIDE DEF limit, port, seed
<1>6. t \in AllSettings /\ t.limit = limit /\ t.port = port /\ t.seed = seed
  BY <1>2, <1>3, <1>4, <1>5 DEF AllSettings
<1>. HIDE DEF t
<1>7. Drafting!Validate(t)
  BY <1>3, <1>4, <1>5, <1>6 DEF Drafting!Validate, Drafting!NoLimit
<1>. QED
  BY <1>1, <1>6, <1>7 DEF ValidSettings

LEMMA DraftIsValid ==
  ASSUME DraftAssumptions, NEW s \in ValidSettings
  PROVE  Drafting!DraftOf(s) \in Drafts
<1>. DEFINE policy == s.seed
            on == s.limit # Drafting!NoLimit
            limit == (IF s.limit = Drafting!NoLimit THEN DefaultLimit ELSE s.limit) \div Unit
            seed == Drafting!Choice(policy)
            ratio == IF policy.kind \in {"ratio", "both"} THEN policy.ratio ELSE DefaultRatio
            days == IF policy.kind \in {"days", "both"} THEN policy.days ELSE DefaultDays
<1>1. Drafting!DraftOf(s) =
        [open |-> TRUE, limitOn |-> on, limit |-> limit, port |-> s.port, seed |-> seed,
         ratio |-> ratio, days |-> days]
  BY DEF Drafting!DraftOf
<1>2. s.limit \in Nat /\ s.port \in Nat /\ s.seed \in Policies
  BY DEF ValidSettings, AllSettings
<1>3. on \in BOOLEAN /\ s.port \in Numbers
  BY <1>2 DEF Numbers
<1>4. limit \in Numbers
  BY <1>2 DEF DraftAssumptions, Numbers
<1>5. seed \in {"automatically", "forever", "never"}
  BY <1>2 DEF Drafting!Choice
<1>6. ratio \in Numbers /\ days \in Numbers
  BY <1>2 DEF DraftAssumptions, Numbers, Policies
<1>. HIDE DEF on, limit, seed, ratio, days
<1>. QED
  BY <1>1, <1>3, <1>4, <1>5, <1>6 DEF Drafts

LEMMA LastOfAppended ==
  ASSUME NEW S, NEW s \in Seq(S), NEW e \in S
  PROVE  Append(s, e) \in Seq(S) /\ Append(s, e) # <<>> /\ Last(Append(s, e)) = e
BY DEF Last

LEMMA LastOfTail ==
  ASSUME NEW S, NEW s \in Seq(S), s # <<>>
  PROVE  /\ Tail(s) \in Seq(S) /\ Head(s) \in S
         /\ Tail(s) # <<>> => Last(Tail(s)) = Last(s)
         /\ Tail(s) = <<>> => Head(s) = Last(s)
<1>. DEFINE t == Tail(s)
<1>1. /\ t \in Seq(S) /\ Len(s) \in Nat \ {0} /\ Len(t) = Len(s) - 1
      /\ \A n \in 1 .. Len(t) : t[n] = s[n + 1]
      /\ Head(s) = s[1] /\ s[1] \in S
  OBVIOUS
<1>. HIDE DEF t
<1>2. t = <<>> <=> Len(t) = 0
  BY <1>1
<1>3. t # <<>> => t[Len(t)] = s[Len(s)]
  BY <1>1, <1>2
<1>4. t = <<>> => s[1] = s[Len(s)]
  BY <1>1, <1>2
<1>. QED
  BY <1>1, <1>3, <1>4 DEF Last, t

(* The window takes other settings and sends them to the engine. *)
LEMMA ApplyingKeepsInv ==
  ASSUME DraftInv, NEW to \in ValidSettings, Drafting!ApplyConfig(to),
         draft' = Drafting!NoDraft \/ draft' \in Drafts, UNCHANGED engineSettings
  PROVE  DraftInv'
<1>1. CASE to = settings
  BY <1>1 DEF DraftInv, Drafting!ApplyConfig, InOrder
<1>2. CASE to # settings /\ Len(queued) < CommandQueue
  <2>1. settings' = to /\ queued' = Append(queued, to) /\ UNCHANGED <<unsent, overflowed>>
    BY <1>2 DEF Drafting!ApplyConfig, Drafting!Command
  <2>2. queued' \in Seq(ValidSettings) /\ queued' # <<>> /\ Last(queued') = to
    BY <2>1, LastOfAppended DEF DraftInv
  <2>. QED
    BY <2>1, <2>2 DEF DraftInv, InOrder
<1>3. CASE to # settings /\ ~(Len(queued) < CommandQueue)
  <2>1. /\ settings' = to /\ unsent' = unsent \cup {<<edits, to>>} /\ overflowed' = TRUE
        /\ queued' = queued
    BY <1>3 DEF Drafting!ApplyConfig, Drafting!Command
  <2>2. \A c \in unsent' : c[2] \in ValidSettings
    BY <2>1 DEF DraftInv
  <2>. QED
    BY <2>1, <2>2 DEF DraftInv
<1>. QED
  BY <1>1, <1>2, <1>3

LEMMA DraftNext ==
  ASSUME DraftAssumptions, DraftInv, [Drafting!Next]_(Drafting!vars)
  PROVE  DraftInv'
<1>1. CASE UNCHANGED Drafting!vars
  BY <1>1 DEF Drafting!vars, DraftInv, InOrder
<1>2. CASE Drafting!OpenSettings
  <2>1. draft' \in Drafts
    BY <1>2, DraftIsValid DEF Drafting!OpenSettings, DraftInv
  <2>. QED
    BY <1>2, <2>1 DEF Drafting!OpenSettings, DraftInv, InOrder
<1>3. ASSUME draft.open PROVE draft \in Drafts
  BY <1>3 DEF DraftInv, Drafting!NoDraft
<1>4. CASE Drafting!EditDraft
  <2>1. PICK text \in Numbers :
          draft' \in {[draft EXCEPT !.limit = text], [draft EXCEPT !.port = text],
                      [draft EXCEPT !.ratio = text], [draft EXCEPT !.days = text]}
    BY <1>4 DEF Drafting!EditDraft, DraftAssumptions
  <2>2. draft' \in Drafts
    BY <1>3, <1>4, <2>1 DEF Drafting!EditDraft, Drafts
  <2>. QED
    BY <1>4, <2>2 DEF Drafting!EditDraft, DraftInv, InOrder
<1>5. CASE Drafting!CommitDraft
  <2>1. draft \in Drafts /\ UNCHANGED engineSettings
    BY <1>3, <1>5 DEF Drafting!CommitDraft
  <2>2. PICK d : /\ d \in {[draft EXCEPT !.limitOn = ~@]}
                         \cup {[draft EXCEPT !.seed = choice] :
                                 choice \in {"automatically", "forever", "never"}}
                 /\ draft' = d /\ Drafting!ApplyConfig(Drafting!Apply(d, settings))
    BY <1>5 DEF Drafting!CommitDraft
  <2>3. d \in Drafts
    BY <2>1, <2>2 DEF Drafts
  <2>4. Drafting!Apply(d, settings) \in ValidSettings
    BY <2>3, AppliedIsValid DEF DraftInv
  <2>. QED
    BY <2>1, <2>2, <2>3, <2>4, ApplyingKeepsInv
<1>6. CASE Drafting!CommitSettings \/ Drafting!CloseOverlay
  <2>1. /\ draft \in Drafts /\ UNCHANGED engineSettings
        /\ Drafting!ApplyConfig(Drafting!Apply(draft, settings))
        /\ draft' = Drafting!NoDraft \/ draft' = draft
    BY <1>3, <1>6 DEF Drafting!CommitSettings, Drafting!CloseOverlay
  <2>2. Drafting!Apply(draft, settings) \in ValidSettings
    BY <2>1, AppliedIsValid DEF DraftInv
  <2>. QED
    BY <2>1, <2>2, ApplyingKeepsInv
<1>7. CASE Drafting!ChangeConfig
  <2>. DEFINE to == [settings EXCEPT !.switch = ~@]
  <2>1. Drafting!ApplyConfig(to) /\ UNCHANGED <<draft, engineSettings>>
    BY <1>7 DEF Drafting!ChangeConfig
  <2>2. to \in ValidSettings
    <3>1. settings \in AllSettings /\ Drafting!Validate(settings)
      BY DEF DraftInv, ValidSettings
    <3>2. /\ to \in AllSettings /\ to.limit = settings.limit /\ to.port = settings.port
          /\ to.seed = settings.seed
      BY <3>1 DEF AllSettings
    <3>. HIDE DEF to
    <3>. QED
      BY <3>1, <3>2 DEF ValidSettings, Drafting!Validate
  <2>3. draft' = Drafting!NoDraft \/ draft' \in Drafts
    BY <2>1 DEF DraftInv
  <2>. HIDE DEF to
  <2>. QED
    BY <2>1, <2>2, <2>3, ApplyingKeepsInv
<1>8. ASSUME NEW command \in unsent, Drafting!SendLater(command) PROVE DraftInv'
  <2>1. command[2] \in ValidSettings /\ overflowed
    BY <1>8 DEF DraftInv, InOrder
  <2>2. queued' = Append(queued, command[2]) /\ unsent' = unsent \ {command}
        /\ UNCHANGED <<settings, draft, engineSettings, overflowed>>
    BY <1>8 DEF Drafting!SendLater
  <2>3. queued' \in Seq(ValidSettings)
    BY <2>1, <2>2 DEF DraftInv
  <2>. QED
    BY <2>1, <2>2, <2>3 DEF DraftInv
<1>9. CASE Drafting!SetConfig
  <2>1. /\ queued # <<>> /\ queued' = Tail(queued)
        /\ engineSettings' = IF Drafting!Validate(Head(queued)) THEN Head(queued) ELSE engineSettings
        /\ UNCHANGED <<settings, draft, unsent, overflowed>>
    BY <1>9 DEF Drafting!SetConfig
  <2>2. /\ Tail(queued) \in Seq(ValidSettings) /\ Head(queued) \in ValidSettings
        /\ Tail(queued) # <<>> => Last(Tail(queued)) = Last(queued)
        /\ Tail(queued) = <<>> => Head(queued) = Last(queued)
    BY <2>1, LastOfTail DEF DraftInv
  <2>3. engineSettings' = Head(queued)
    BY <2>1, <2>2 DEF ValidSettings
  <2>. QED
    BY <2>1, <2>2, <2>3 DEF DraftInv, InOrder
<1>. QED
  BY <1>1, <1>2, <1>4, <1>5, <1>6, <1>7, <1>8, <1>9 DEF Drafting!Next

LEMMA DraftSpec == DraftAssumptions => (Drafting!Spec => []Drafting!SettingsReachEngine)
<1>. SUFFICES ASSUME DraftAssumptions PROVE Drafting!Spec => []Drafting!SettingsReachEngine
  OBVIOUS
<1>1. Drafting!Init => DraftInv
  <2>. SUFFICES ASSUME Drafting!Init PROVE DraftInv
    OBVIOUS
  <2>1. settings \in ValidSettings /\ engineSettings = settings
    BY DEF Drafting!Init, DraftAssumptions
  <2>2. queued = <<>> /\ unsent = {} /\ overflowed = FALSE /\ draft = Drafting!NoDraft
    BY DEF Drafting!Init
  <2>3. queued \in Seq(ValidSettings)
    BY <2>2
  <2>. QED
    BY <2>1, <2>2, <2>3 DEF DraftInv, InOrder
<1>2. DraftInv /\ [Drafting!Next]_(Drafting!vars) => DraftInv'
  BY DraftNext
<1>3. DraftInv => Drafting!SettingsReachEngine
  BY DEF DraftInv, InOrder, Drafting!SettingsReachEngine
<1>. QED
  BY <1>1, <1>2, <1>3, PTL DEF Drafting!Spec

-----------------------------------------------------------------------------
(* The save of the last settings holds the gate or nobody does, unless it  *)
(* still waits for it.                                                     *)
LastAtGate == IF config \in saves THEN gate # config ELSE gate \in {0, config}

(* The last settings are or will be saved, or that they are not is or will *)
(* be shown.                                                               *)
Failed == [id |-> config, ok |-> FALSE] \in results
LastIsKnown == config \in saves \/ gate = config \/ disk = config \/ notice # "none" \/ Failed

(* The result of the last save tells what became of the file. *)
ResultsHold ==
  \A r \in results :
    r.id = config => config \notin saves /\ gate = 0 /\ (r.ok => disk = config)

SavesInv == TypeOK /\ LastAtGate /\ LastIsKnown /\ ResultsHold

LEMMA SavesInit == ASSUME MaxChanges \in Nat PROVE Init => SavesInv
<1>. SUFFICES ASSUME Init PROVE SavesInv
  OBVIOUS
<1>1. /\ config \in 0..MaxChanges /\ disk \in 0..config /\ gate \in 0..config
      /\ saves \subseteq 1..config /\ results \subseteq [id : 1..config, ok : BOOLEAN]
  BY DEF Init
<1>2. notice \in {"none", "shown", "dismissed"}
  BY DEF Init
<1>3. LastAtGate /\ LastIsKnown /\ ResultsHold
  BY DEF Init, LastAtGate, LastIsKnown, ResultsHold
<1>. QED
  BY <1>1, <1>2, <1>3 DEF SavesInv, TypeOK

LEMMA SavesNext == ASSUME MaxChanges \in Nat, SavesInv, [Next]_vars PROVE SavesInv'
<1>1. CASE SaveConfig
  <2>1. /\ config' = config + 1 /\ saves' = saves \cup {config + 1}
        /\ config \in Nat /\ config + 1 \in 0..MaxChanges
        /\ UNCHANGED <<disk, gate, results>> /\ notice' \in {notice, "none"}
    BY <1>1 DEF SaveConfig, SavesInv, TypeOK
  <2>2. TypeOK'
    BY <2>1 DEF SavesInv, TypeOK
  <2>3. gate # config' /\ \A r \in results' : r.id # config'
    BY <2>1 DEF SavesInv, TypeOK
  <2>. QED
    BY <2>1, <2>2, <2>3 DEF SavesInv, LastAtGate, LastIsKnown, ResultsHold
<1>2. ASSUME NEW id \in saves, EnterGate(id) PROVE SavesInv'
  <2>1. /\ id \in 1..config /\ gate = 0 /\ saves' = saves \ {id}
        /\ UNCHANGED <<config, disk, notice>>
    BY <1>2 DEF EnterGate, SavesInv, TypeOK
  <2>2. CASE id = config
    <3>1. gate' = id /\ results' = results
      BY <1>2, <2>2 DEF EnterGate
    <3>2. TypeOK'
      BY <2>1, <3>1 DEF SavesInv, TypeOK
    <3>3. \A r \in results : r.id # config
      BY <2>2 DEF SavesInv, ResultsHold
    <3>. QED
      BY <2>1, <2>2, <3>1, <3>2, <3>3 DEF SavesInv, LastAtGate, LastIsKnown, ResultsHold
  <2>3. CASE id # config
    <3>1. gate' = gate /\ results' = results \cup {[id |-> id, ok |-> TRUE]}
      BY <1>2, <2>3 DEF EnterGate, Result
    <3>2. [id |-> id, ok |-> TRUE] \in [id : 1..config, ok : BOOLEAN]
      BY <2>1
    <3>3. TypeOK'
      BY <2>1, <3>1, <3>2 DEF SavesInv, TypeOK
    <3>4. ResultsHold'
      BY <2>1, <2>3, <3>1 DEF SavesInv, ResultsHold
    <3>5. LastIsKnown'
      BY <2>1, <2>3, <3>1 DEF SavesInv, LastIsKnown, Failed
    <3>. QED
      BY <2>1, <2>3, <3>1, <3>3, <3>4, <3>5 DEF SavesInv, LastAtGate
  <2>. QED
    BY <2>2, <2>3
<1>3. CASE Save
  <2>1. PICK ok \in BOOLEAN : /\ results' = results \cup {[id |-> gate, ok |-> ok]}
                              /\ disk' \in IF ok THEN {gate} ELSE {disk, gate}
    BY <1>3 DEF Save, Result
  <2>2. gate # 0 /\ gate' = 0 /\ UNCHANGED <<config, saves, notice>>
    BY <1>3 DEF Save
  <2>3. disk' \in {disk, gate} /\ (ok => disk' = gate)
    BY <2>1
  <2>4. [id |-> gate, ok |-> ok] \in [id : 1..config, ok : BOOLEAN]
    BY <2>2 DEF SavesInv, TypeOK
  <2>5. TypeOK'
    BY <2>1, <2>2, <2>3, <2>4 DEF SavesInv, TypeOK
  <2>6. LastAtGate'
    BY <2>2, <2>5 DEF SavesInv, LastAtGate, TypeOK
  <2>7. ResultsHold'
    BY <2>1, <2>2, <2>3 DEF SavesInv, LastAtGate, ResultsHold
  <2>8. LastIsKnown'
    <3>1. CASE config \in saves
      BY <2>2, <3>1 DEF LastIsKnown
    <3>2. CASE gate = config /\ ok
      BY <2>2, <2>3, <3>2 DEF LastIsKnown
    <3>3. CASE gate = config /\ ~ok
      <4>1. ok = FALSE
        BY <3>3
      <4>. QED
        BY <2>1, <2>2, <3>3, <4>1 DEF LastIsKnown, Failed
    <3>. QED
      BY <2>2, <3>1, <3>2, <3>3 DEF SavesInv, LastAtGate
  <2>. QED
    BY <2>5, <2>6, <2>7, <2>8 DEF SavesInv
<1>4. ASSUME NEW r \in results, ConfigSaved(r) PROVE SavesInv'
  <2>1. /\ results' = results \ {r} /\ notice' = Shown(r)
        /\ UNCHANGED <<config, disk, saves, gate>>
    BY <1>4 DEF ConfigSaved
  <2>2. r = [id |-> r.id, ok |-> r.ok] /\ r.ok \in BOOLEAN
    BY DEF SavesInv, TypeOK
  <2>3. TypeOK'
    BY <2>1, <2>2 DEF SavesInv, TypeOK, Shown
  <2>4. LastAtGate' /\ ResultsHold'
    BY <2>1 DEF SavesInv, LastAtGate, ResultsHold
  <2>5. LastIsKnown'
    <3>1. CASE r.id = config /\ r.ok
      BY <2>1, <3>1 DEF SavesInv, ResultsHold, LastIsKnown
    <3>2. CASE r.id = config /\ ~r.ok
      BY <2>1, <3>2 DEF Shown, LastIsKnown
    <3>3. CASE r.id # config
      <4>1. notice' = notice /\ (Failed => Failed')
        BY <2>1, <3>3 DEF Shown, Failed
      <4>. QED
        BY <2>1, <4>1 DEF SavesInv, LastIsKnown
    <3>. QED
      BY <2>2, <3>1, <3>2, <3>3
  <2>. QED
    BY <2>3, <2>4, <2>5 DEF SavesInv
<1>5. CASE DismissNotice
  BY <1>5 DEF DismissNotice, SavesInv, TypeOK, LastAtGate, LastIsKnown, ResultsHold, Failed
<1>6. CASE UNCHANGED vars
  BY <1>6 DEF vars, SavesInv, TypeOK, LastAtGate, LastIsKnown, ResultsHold, Failed
<1>. QED
  BY <1>1, <1>2, <1>3, <1>4, <1>5, <1>6 DEF Next

-----------------------------------------------------------------------------
(* A behaviour of the whole is one of every part: a step moves one of them. *)

LEMMA DialogRuns == MCSpec => Dialog!Spec
<1>1. MCInit => Dialog!Init
  BY DEF MCInit
<1>2. [MCNext]_allVars => [Dialog!Next]_(Dialog!vars)
  BY DEF MCNext, allVars, addVars, Dialog!vars, Dialog!dialogVars, Dialog!submitVars, Dialog!engineVars
<1>. QED
  BY <1>1, <1>2, PTL DEF MCSpec, Dialog!Spec, allVars

LEMMA InstancesRun == MCSpec => Processing!Spec
<1>1. MCInit => Processing!Init
  BY DEF MCInit
<1>2. [MCNext]_allVars => [Processing!Next]_(Processing!vars)
  BY DEF MCNext, allVars, instanceVars, Processing!vars, Processing!clientVars, Processing!serverVars
<1>. QED
  BY <1>1, <1>2, PTL DEF MCSpec, Processing!Spec, allVars

LEMMA StreamRuns == MCSpec => Events!Spec
<1>1. MCInit => Events!Init
  BY DEF MCInit
<1>2. [MCNext]_allVars => [Events!Next]_(Events!vars)
  BY DEF MCNext, allVars, eventVars, Events!vars
<1>. QED
  BY <1>1, <1>2, PTL DEF MCSpec, Events!Spec, allVars

LEMMA DraftRuns == MCSpec => Drafting!Spec
<1>1. MCInit => Drafting!Init
  BY DEF MCInit
<1>2. [MCNext]_allVars => [Drafting!Next]_(Drafting!vars)
  BY DEF MCNext, allVars, draftVars, Drafting!vars
<1>. QED
  BY <1>1, <1>2, PTL DEF MCSpec, Drafting!Spec, allVars

LEMMA SettingsRun == MCSpec => Spec
<1>1. MCInit => Init
  BY DEF MCInit
<1>2. [MCNext]_allVars => [Next]_vars
  BY DEF MCNext, allVars
<1>. QED
  BY <1>1, <1>2, PTL DEF MCSpec, Spec, allVars

-----------------------------------------------------------------------------
(***************************************************************************)
(* Unless it starts anew, the window will show the engine's rows once it   *)
(* has applied the events on their way to it (engine.rs, every event is    *)
(* sent holding the rows; app/subscription.rs), whatever was lost and      *)
(* however snapshots and changes raced.                                    *)
(***************************************************************************)
THEOREM WindowFollowsEngine == ASSUME EventAssumptions PROVE MCSpec => []ViewFollows
BY StreamRuns, StreamSpec, PTL DEF ViewFollows

(***************************************************************************)
(* Every preview of a torrent has somebody who waits for it                *)
(* (app/add_dialog.rs, engine.rs), however often dialogs are closed,       *)
(* opened and edited while the engine and its tasks are behind.            *)
(***************************************************************************)
THEOREM PreviewsAreAwaited == ASSUME AddAssumptions PROVE MCSpec => []NoOrphanPreviews
BY DialogRuns, DialogSpec, PTL DEF NoOrphanPreviews

(***************************************************************************)
(* A launch that was told that it was handed over (instance.rs) is with an *)
(* instance that served launches, and is opened once, whichever processes  *)
(* start, quit, die or answer late.                                        *)
(***************************************************************************)
THEOREM HandedOverIsOpened == MCSpec => []ForwardedIsOpened
BY InstancesRun, InstanceSpec, PTL DEF ForwardedIsOpened

(***************************************************************************)
(* The engine ends with the settings of the window: whatever is typed, it  *)
(* accepts them (app/state.rs, SettingsDraft::apply; config.rs, validate), *)
(* and unless the command queue was full once, in their order.             *)
(***************************************************************************)
THEOREM EngineHasSettings == ASSUME DraftAssumptions PROVE MCSpec => []SettingsReachEngine
BY DraftRuns, DraftSpec, PTL DEF SettingsReachEngine

(***************************************************************************)
(* However the saves and their results overtake each other (settings.rs,   *)
(* save_if_latest and config_saved), once none is under way the file holds *)
(* the last settings or the notice is shown, or was dismissed.             *)
(***************************************************************************)
THEOREM LastSettingsAreSaved == ASSUME MaxChanges \in Nat PROVE MCSpec => []SavedOrTold
<1>1. SavesInv => SavedOrTold
  BY DEF SavesInv, TypeOK, LastIsKnown, Failed, SavedOrTold
<1>2. Init => SavesInv
  BY SavesInit
<1>3. SavesInv /\ [Next]_vars => SavesInv'
  BY SavesNext
<1>. QED
  BY SettingsRun, <1>1, <1>2, <1>3, PTL DEF Spec
=============================================================================
