------------------------------- MODULE RowsProofs -------------------------------
(***************************************************************************)
(* The rows: what the window lists of them and what the database records,  *)
(* proved for any downloads, archive sets and bounds.                      *)
(*                                                                         *)
(* The rows of the list are those derived from what the engine told last.  *)
(* What a transaction would make of the tables is what the engine's loop   *)
(* then makes of its rows.  For this the statements come first: what those *)
(* that insert, update or delete make of each table.  Then the loop: each  *)
(* of its steps prepares such a transaction.  A worker that counts and     *)
(* flushes in between changes one count of bytes on either side.           *)
(***************************************************************************)
EXTENDS MCDesktop, TLAPS, FiniteSetTheorems, SequenceTheorems

-----------------------------------------------------------------------------
(* The list.  The engine tells of downloads and archive sets with ids of    *)
(* their own.  A download of HTTP is not extracted and does not seed; the   *)
(* parts of a set are of HTTP, and complete when the set fails to unpack.   *)
HttpDownloads ==
  {"Queued", "Starting", "Downloading", "Paused", "Error", "Completed", "Cancelled"}
AllDownloads ==
  HttpDownloads
  \cup {"FetchingMetadata", "Seeding", "ExtractError", "PasswordRequired", "Extracting"}
ToldDownloads ==
  [id : Nat \ {0}, kind : {"http"}, status : HttpDownloads, pinned : BOOLEAN]
  \cup [id : Nat \ {0}, kind : {"torrent"}, status : AllDownloads, pinned : BOOLEAN]
SetStates == {"NotStarted", "Extracting", "Error", "PasswordRequired", "Completed"}
ToldPackages == [id : Nat \ {0}, parts : SUBSET Nat, state : SetStates, pinned : BOOLEAN]

UniqueIds(c) ==
  /\ \A i, j \in DOMAIN c.downloads : c.downloads[i].id = c.downloads[j].id => i = j
  /\ \A i, j \in DOMAIN c.packages : c.packages[i].id = c.packages[j].id => i = j
  /\ \A i \in DOMAIN c.downloads : \A j \in DOMAIN c.packages : c.downloads[i].id # c.packages[j].id

PartsOfSets(c) ==
  \A j \in DOMAIN c.packages : \A i \in DOMAIN c.downloads :
    c.downloads[i].id \in c.packages[j].parts =>
      /\ c.downloads[i].kind = "http"
      /\ c.packages[j].state \in {"Error", "PasswordRequired"} => c.downloads[i].status = "Completed"

ListAssumptions ==
  \A c \in Told :
    /\ c.downloads \in Seq(ToldDownloads) /\ c.packages \in Seq(ToldPackages)
    /\ UniqueIds(c) /\ PartsOfSets(c)

LEMMA SameCount == \A S : Listing!Cardinality(S) = Cardinality(S)
  BY Zenon DEF Listing!Cardinality, Cardinality

(* A finite set of rows that differ in their ids is sorted in one way: the  *)
(* place of a row is how many come before it.                               *)
LEMMA SortedProperties ==
  ASSUME NEW S, IsFiniteSet(S), NEW down \in BOOLEAN,
         \A r \in S : r.id \in Nat /\ r.pinned \in BOOLEAN,
         \A r, q \in S : r.id = q.id => r = q
  PROVE  LET s == Listing!Sorted(S, down)
         IN  /\ DOMAIN s = 1 .. Cardinality(S) /\ Listing!Range(s) = S
             /\ \A i, j \in DOMAIN s : s[i].id = s[j].id => i = j
<1>. DEFINE n == Cardinality(S)
            B(a, b) == Listing!Before(a, b, down)
            Lower(b) == {r \in S : B(r, b)}
            Sorts(s) == \A i, j \in DOMAIN s : i < j => B(s[i], s[j])
<1>1. /\ \A a \in S : ~B(a, a)
      /\ \A a, b, c \in S : B(a, b) /\ B(b, c) => B(a, c)
      /\ \A a, b \in S : a = b \/ B(a, b) \/ B(b, a)
  <2>1. \A a \in S : ~B(a, a)
    BY DEF Listing!Before
  <2>2. \A a, b, c \in S : B(a, b) /\ B(b, c) => B(a, c)
    <3>1. CASE down
      BY <3>1 DEF Listing!Before
    <3>2. CASE ~down
      BY <3>2 DEF Listing!Before
    <3>. QED
      BY <3>1, <3>2
  <2>3. \A a, b \in S : a = b \/ B(a, b) \/ B(b, a)
    <3>. SUFFICES ASSUME NEW a \in S, NEW b \in S, a.id # b.id PROVE B(a, b) \/ B(b, a)
      OBVIOUS
    <3>1. CASE a.pinned # b.pinned
      BY <3>1 DEF Listing!Before
    <3>2. CASE a.pinned = b.pinned
      BY <3>2 DEF Listing!Before
    <3>. QED
      BY <3>1, <3>2
  <2>. QED
    BY <2>1, <2>2, <2>3
<1>. HIDE DEF B
<1>2. n \in Nat
  BY FS_CardinalityType
<1>3. ASSUME NEW b \in S
      PROVE  IsFiniteSet(Lower(b)) /\ Cardinality(Lower(b)) \in Nat /\ Cardinality(Lower(b)) < n
  <2>1. Lower(b) \in SUBSET S /\ Lower(b) # S
    BY <1>1
  <2>. HIDE DEF Lower
  <2>2. /\ IsFiniteSet(Lower(b)) /\ Cardinality(Lower(b)) <= n
        /\ n = Cardinality(Lower(b)) => S = Lower(b)
    BY <2>1, FS_Subset
  <2>3. Cardinality(Lower(b)) \in Nat
    BY <2>2, FS_CardinalityType
  <2>. QED
    BY <1>2, <2>1, <2>2, <2>3
<1>4. ASSUME NEW a \in S, NEW b \in S, B(a, b)
      PROVE  Cardinality(Lower(a)) < Cardinality(Lower(b))
  <2>1. Lower(a) \in SUBSET Lower(b) /\ Lower(a) # Lower(b)
    BY <1>1, <1>4
  <2>. HIDE DEF Lower
  <2>2. /\ Cardinality(Lower(a)) <= Cardinality(Lower(b))
        /\ Cardinality(Lower(b)) = Cardinality(Lower(a)) => Lower(b) = Lower(a)
    BY <1>3, <2>1, FS_Subset
  <2>. QED
    BY <1>3, <2>1, <2>2
<1>. DEFINE F == [b \in S |-> Cardinality(Lower(b)) + 1]
<1>5. /\ F \in [S -> 1 .. n]
      /\ \A a, b \in S : B(a, b) => F[a] < F[b]
  <2>. HIDE DEF Lower
  <2>. QED
    BY <1>2, <1>3, <1>4
<1>. HIDE DEF F, Lower
<1>6. F \in Injection(S, 1 .. n)
  <2>1. \A a, b \in S : F[a] = F[b] => a = b
    <3>. SUFFICES ASSUME NEW a \in S, NEW b \in S, a # b PROVE F[a] # F[b]
      OBVIOUS
    <3>1. F[a] \in Nat /\ F[b] \in Nat
      BY <1>2, <1>5
    <3>. QED
      BY <1>1, <1>5, <3>1
  <2>. QED
    BY <1>5, <2>1 DEF Injection, IsInjective
<1>7. IsFiniteSet(1 .. n) /\ Cardinality(1 .. n) = n
  BY <1>2, FS_Interval
<1>8. F \in Surjection(S, 1 .. n)
  BY <1>6, <1>7, FS_Injection
<1>. DEFINE s0 == [k \in 1 .. n |-> CHOOSE b \in S : F[b] = k]
<1>9. s0 \in [1 .. n -> S] /\ \A k \in 1 .. n : F[s0[k]] = k
  <2>1. \A k \in 1 .. n : \E b \in S : F[b] = k
    BY <1>8 DEF Surjection
  <2>. QED
    BY <2>1
<1>. HIDE DEF s0
<1>10. Sorts(s0)
  <2>. SUFFICES ASSUME NEW i \in 1 .. n, NEW j \in 1 .. n, i < j PROVE B(s0[i], s0[j])
    BY <1>9
  <2>1. s0[i] \in S /\ s0[j] \in S /\ F[s0[i]] = i /\ F[s0[j]] = j
    BY <1>9
  <2>2. s0[i] # s0[j] /\ ~B(s0[j], s0[i])
    BY <1>5, <2>1
  <2>. QED
    BY <1>1, <2>1, <2>2
<1>. DEFINE s == Listing!Sorted(S, down)
<1>11. s = CHOOSE t \in [1 .. n -> S] : Sorts(t)
  BY SameCount DEF Listing!Sorted, B
<1>. HIDE DEF s, Sorts
<1>12. s \in [1 .. n -> S] /\ Sorts(s)
  BY <1>9, <1>10, <1>11
<1>. USE DEF Sorts
<1>13. \A i, j \in 1 .. n : s[i] = s[j] => i = j
  <2>. SUFFICES ASSUME NEW i \in 1 .. n, NEW j \in 1 .. n, i < j PROVE s[i] # s[j]
    BY <1>2
  <2>. QED
    BY <1>1, <1>12
<1>14. s \in Injection(1 .. n, S)
  BY <1>12, <1>13 DEF Injection, IsInjective
<1>15. s \in Surjection(1 .. n, S)
  BY <1>7, <1>14, FS_Injection
<1>16. Listing!Range(s) = S
  BY <1>12, <1>15 DEF Surjection, Listing!Range
<1>17. \A i, j \in DOMAIN s : s[i].id = s[j].id => i = j
  BY <1>12, <1>13
<1>. QED
  BY <1>12, <1>16, <1>17 DEF n, s

-----------------------------------------------------------------------------
(* What is derived from what the engine told. *)
DerivedFacts ==
  /\ IsFiniteSet(Listing!Derived)
  /\ \A r \in Listing!Derived : r.id \in Nat \ {0} /\ r.pinned \in BOOLEAN
  /\ \A r, q \in Listing!Derived : r.id = q.id => r = q
  /\ \A r \in Listing!Derived :
       \/ \E i \in DOMAIN content.downloads : r = Listing!DownloadRow(i)
       \/ \E i \in DOMAIN content.packages : r = Listing!PackageRow(i)

LEMMA DerivedProperties == ASSUME ListAssumptions, content \in Told PROVE DerivedFacts
<1>. DEFINE D == {j \in DOMAIN content.downloads : content.downloads[j].id \notin Listing!Parts}
            P == DOMAIN content.packages
            Ds == {Listing!DownloadRow(i) : i \in D}
            Ps == {Listing!PackageRow(i) : i \in P}
<1>1. /\ content.downloads \in Seq(ToldDownloads) /\ content.packages \in Seq(ToldPackages)
      /\ UniqueIds(content)
  BY DEF ListAssumptions
<1>2. /\ DOMAIN content.downloads = 1 .. Len(content.downloads) /\ Len(content.downloads) \in Nat
      /\ DOMAIN content.packages = 1 .. Len(content.packages) /\ Len(content.packages) \in Nat
  BY <1>1
<1>3. IsFiniteSet(D) /\ IsFiniteSet(P)
  <2>1. IsFiniteSet(DOMAIN content.downloads) /\ IsFiniteSet(DOMAIN content.packages)
    <3>1. \A n \in Nat : IsFiniteSet(1 .. n)
      BY FS_Interval
    <3>. QED
      BY <1>2, <3>1
  <2>2. D \in SUBSET DOMAIN content.downloads
    OBVIOUS
  <2>. QED
    BY <2>1, <2>2, FS_Subset
<1>4. Listing!Derived = Ds \cup Ps
  BY DEF Listing!Derived
<1>. HIDE DEF D, P
<1>5. IsFiniteSet(Ds)
  <2>. DEFINE f == [i \in D |-> Listing!DownloadRow(i)]
  <2>1. f \in Surjection(D, Ds)
    BY DEF Surjection
  <2>. QED
    BY <1>3, <2>1, FS_Surjection
<1>6. IsFiniteSet(Ps)
  <2>. DEFINE f == [i \in P |-> Listing!PackageRow(i)]
  <2>1. f \in Surjection(P, Ps)
    BY DEF Surjection
  <2>. QED
    BY <1>3, <2>1, FS_Surjection
<1>7. IsFiniteSet(Listing!Derived)
  BY <1>4, <1>5, <1>6, FS_Union
<1>8. ASSUME NEW i \in DOMAIN content.downloads
      PROVE  /\ Listing!DownloadRow(i).id = content.downloads[i].id
             /\ Listing!DownloadRow(i).id \in Nat \ {0} /\ Listing!DownloadRow(i).pinned \in BOOLEAN
  <2>1. content.downloads[i] \in ToldDownloads
    BY <1>1
  <2>2. content.downloads[i].id \in Nat \ {0} /\ content.downloads[i].pinned \in BOOLEAN
    BY <2>1 DEF ToldDownloads
  <2>. QED
    BY <2>2 DEF Listing!DownloadRow, Listing!RowOf
<1>9. ASSUME NEW i \in DOMAIN content.packages
      PROVE  /\ Listing!PackageRow(i).id = content.packages[i].id
             /\ Listing!PackageRow(i).id \in Nat \ {0} /\ Listing!PackageRow(i).pinned \in BOOLEAN
  <2>1. content.packages[i] \in ToldPackages
    BY <1>1
  <2>2. content.packages[i].id \in Nat \ {0} /\ content.packages[i].pinned \in BOOLEAN
    BY <2>1 DEF ToldPackages
  <2>. QED
    BY <2>2 DEF Listing!PackageRow, Listing!RowOf
<1>10. \A r \in Listing!Derived :
         \/ \E i \in DOMAIN content.downloads : r = Listing!DownloadRow(i)
         \/ \E i \in DOMAIN content.packages : r = Listing!PackageRow(i)
  BY <1>4 DEF D, P
<1>11. \A r \in Listing!Derived : r.id \in Nat \ {0} /\ r.pinned \in BOOLEAN
  BY <1>8, <1>9, <1>10
<1>12. ASSUME NEW r \in Listing!Derived, NEW q \in Listing!Derived, r.id = q.id PROVE r = q
  BY <1>1, <1>8, <1>9, <1>10, <1>12 DEF UniqueIds
<1>. QED
  BY <1>7, <1>10, <1>11, <1>12 DEF DerivedFacts

-----------------------------------------------------------------------------
(* The rows are those of the lists the window has; a step derives them anew *)
(* or leaves the lists, the filter and the rows alone.                      *)
ListInv == content \in Told /\ descending \in BOOLEAN /\ Listing!RowsAreCurrent

(* The rows of a refresh, whatever menu it leaves open. *)
LEMMA Refreshed ==
  ASSUME DerivedFacts', descending' \in BOOLEAN, NEW leaves, Listing!Refresh(leaves)
  PROVE  Listing!RowsAreCurrent' /\ Listing!OnlyShownSelected'
<1>. DEFINE shown == {row \in Listing!Derived' : Listing!Retained(row, tab', query')}
            visible == {row.id : row \in shown}
<1>1. /\ IsFiniteSet(Listing!Derived')
      /\ \A r \in Listing!Derived' : r.id \in Nat \ {0} /\ r.pinned \in BOOLEAN
      /\ \A r, q \in Listing!Derived' : r.id = q.id => r = q
  BY DEF DerivedFacts
<1>2. /\ shownRows' = Listing!Sorted(shown, descending')
      /\ IF selection # {} \/ leaves # Listing!NoMenu
         THEN /\ Listing!Prune(visible)
              /\ menu' = IF leaves.kind = "row" /\ leaves.id \notin visible
                         THEN Listing!NoMenu ELSE leaves
         ELSE UNCHANGED <<selection, anchor>> /\ menu' = leaves
  BY DEF Listing!Refresh
<1>3. (Listing!RowsAreCurrent)' <=>
        /\ \A i, j \in DOMAIN shownRows' : shownRows'[i].id = shownRows'[j].id => i = j
        /\ Listing!Range(shownRows') = shown
  BY DEF Listing!RowsAreCurrent, Listing!Retained, Listing!Range, Listing!TabOf, Listing!Failed
<1>4. shown \in SUBSET Listing!Derived'
  OBVIOUS
<1>5. IsFiniteSet(shown)
  BY <1>1, <1>4, FS_Subset
<1>6. /\ \A r \in shown : r.id \in Nat /\ r.pinned \in BOOLEAN
      /\ \A r, q \in shown : r.id = q.id => r = q
  BY <1>1, <1>4
<1>. HIDE DEF shown
<1>7. /\ Listing!Range(shownRows') = shown
      /\ \A i, j \in DOMAIN shownRows' : shownRows'[i].id = shownRows'[j].id => i = j
  BY <1>2, <1>5, <1>6, SortedProperties
<1>8. (Listing!Shown)' = visible
  BY <1>7 DEF Listing!Shown, Listing!Range
<1>. HIDE DEF visible
<1>9. /\ selection' \subseteq visible
      /\ menu'.kind = "row" => menu'.id \in visible
      /\ selection' # {} => anchor' \in visible \cup {Listing!Nobody}
  <2>1. CASE selection # {} \/ leaves # Listing!NoMenu
    BY <1>2, <2>1 DEF Listing!Prune, Listing!NoMenu, Listing!Nobody
  <2>2. CASE selection = {} /\ leaves = Listing!NoMenu
    BY <1>2, <2>2 DEF Listing!NoMenu
  <2>. QED
    BY <2>1, <2>2
<1>10. (Listing!OnlyShownSelected)' <=>
         /\ selection' \subseteq (Listing!Shown)'
         /\ menu'.kind = "row" => menu'.id \in (Listing!Shown)'
         /\ selection' # {} => anchor' \in (Listing!Shown)' \cup {Listing!Nobody}
  BY DEF Listing!OnlyShownSelected
<1>. QED
  BY <1>3, <1>7, <1>8, <1>9, <1>10

(* What a step does to the rows. *)
LEMMA ListStep ==
  ASSUME content \in Told, descending \in BOOLEAN, [Listing!Next]_(Listing!vars)
  PROVE  \/ /\ content' \in Told /\ descending' \in BOOLEAN
            /\ \E leaves : Listing!Refresh(leaves)
         \/ UNCHANGED <<content, tab, query, descending, shownRows>>
<1>1. CASE Listing!ApplyEngineEvents
  BY <1>1 DEF Listing!ApplyEngineEvents
<1>2. CASE Listing!SelectTab
  BY <1>2 DEF Listing!SelectTab
<1>3. CASE Listing!SetSearch
  BY <1>3 DEF Listing!SetSearch
<1>4. CASE Listing!SortBy
  BY <1>4 DEF Listing!SortBy
<1>5. CASE \E id \in RowIds : \/ Listing!Press(id) \/ Listing!PressRange(id)
                              \/ Listing!PressToggle(id) \/ Listing!OpenRowMenu(id)
  BY <1>5 DEF Listing!Press, Listing!PressRange, Listing!PressToggle, Listing!OpenRowMenu,
    Listing!Unfiltered
<1>6. CASE Listing!SelectAll \/ Listing!ToggleSortMenu \/ Listing!CloseMenu
  BY <1>6 DEF Listing!SelectAll, Listing!ToggleSortMenu, Listing!CloseMenu, Listing!Unfiltered
<1>7. CASE Listing!Escape
  <2>1. CASE Listing!SetSearch
    BY <1>3, <2>1
  <2>2. CASE ~Listing!SetSearch
    BY <1>7, <2>2 DEF Listing!Escape, Listing!CloseMenu, Listing!Unfiltered
  <2>. QED
    BY <2>1, <2>2
<1>8. CASE UNCHANGED Listing!vars
  BY <1>8 DEF Listing!vars
<1>. QED
  BY <1>1, <1>2, <1>3, <1>4, <1>5, <1>6, <1>7, <1>8 DEF Listing!Next

LEMMA RowsStay ==
  ASSUME Listing!RowsAreCurrent, UNCHANGED <<content, tab, query, descending, shownRows>>
  PROVE  Listing!RowsAreCurrent'
<1>1. (Listing!Parts)' = Listing!Parts
  BY DEF Listing!Parts, Listing!Packages, Listing!Range
<1>2. ASSUME NEW i PROVE (Listing!DownloadRow(i))' = Listing!DownloadRow(i)
  BY DEF Listing!DownloadRow, Listing!RowOf
<1>3. ASSUME NEW i PROVE (Listing!PackageRow(i))' = Listing!PackageRow(i)
  <2>1. (Listing!Children(content.packages[i]))' = Listing!Children(content.packages[i])
    BY DEF Listing!Children, Listing!Downloads, Listing!Range
  <2>2. (Listing!PackageStatus(content.packages[i]))' = Listing!PackageStatus(content.packages[i])
    BY <2>1 DEF Listing!PackageStatus
  <2>. QED
    BY <2>2 DEF Listing!PackageRow, Listing!RowOf
<1>4. (Listing!Derived)' = Listing!Derived
  BY <1>1, <1>2, <1>3 DEF Listing!Derived
<1>5. ASSUME NEW row
      PROVE  Listing!Retained(row, tab', query') <=> Listing!Retained(row, tab, query)
  OBVIOUS
<1>. QED
  BY <1>4, <1>5 DEF Listing!RowsAreCurrent, Listing!Range

LEMMA ListInit == ASSUME ListAssumptions, Listing!Init PROVE ListInv
<1>1. content \in Told /\ descending = TRUE /\ shownRows = Listing!Sorted(Listing!Derived, TRUE)
      /\ tab = "All" /\ query = FALSE
  BY DEF Listing!Init
<1>2. DerivedFacts
  BY <1>1, DerivedProperties
<1>3. /\ Listing!Range(shownRows) = Listing!Derived
      /\ \A i, j \in DOMAIN shownRows : shownRows[i].id = shownRows[j].id => i = j
  BY <1>1, <1>2, SortedProperties DEF DerivedFacts
<1>. QED
  BY <1>1, <1>3 DEF ListInv, Listing!RowsAreCurrent, Listing!Retained

LEMMA ListNext ==
  ASSUME ListInv, [Listing!Next]_(Listing!vars), (content \in Told => DerivedFacts)'
  PROVE  /\ ListInv'
         /\ <<content, tab, query>>' # <<content, tab, query>> => Listing!OnlyShownSelected'
<1>1. content \in Told /\ descending \in BOOLEAN /\ Listing!RowsAreCurrent
  BY DEF ListInv
<1>2. CASE /\ content' \in Told /\ descending' \in BOOLEAN
           /\ \E leaves : Listing!Refresh(leaves)
  <2>1. PICK leaves : Listing!Refresh(leaves)
    BY <1>2
  <2>. QED
    BY <1>2, <2>1, Refreshed DEF ListInv
<1>3. CASE UNCHANGED <<content, tab, query, descending, shownRows>>
  <2>1. Listing!RowsAreCurrent'
    BY <1>1, <1>3, RowsStay
  <2>. QED
    BY <1>1, <1>3, <2>1 DEF ListInv
<1>. QED
  BY <1>1, <1>2, <1>3, ListStep

-----------------------------------------------------------------------------
(* A row is of a download with its status, or of a set with what it shows. *)
LEMMA DownloadIsAccepted ==
  ASSUME ListAssumptions, content \in Told, NEW i \in DOMAIN content.downloads,
         NEW row, row = Listing!DownloadRow(i), NEW command,
         \/ /\ command \in {"pause", "resume", "retry", "retry_extract", "stop_seeding", "cancel"}
            /\ Listing!Eligible(command, row)
         \/ command = "verify" /\ row.status \in Listing!Verifiable
  PROVE  Listing!Accepted(command, row)
<1>1. row.source[1] = "download" /\ row.source[1] # "package"
  BY DEF Listing!DownloadRow, Listing!RowOf
<1>2. row.status \in Listing!AcceptedStatuses(command)
  BY DEF Listing!Eligible, Listing!AcceptedStatuses
<1>. QED
  BY <1>1, <1>2 DEF Listing!Accepted

LEMMA PartsOfASet ==
  ASSUME ListAssumptions, content \in Told, NEW i \in DOMAIN content.packages
  PROVE  LET package == content.packages[i]
         IN  /\ package.state \in SetStates
             /\ \A d \in Listing!Children(package) :
                  /\ d.status \in HttpDownloads
                  /\ package.state \in {"Error", "PasswordRequired"} => d.status = "Completed"
<1>1. /\ content.downloads \in Seq(ToldDownloads) /\ content.packages \in Seq(ToldPackages)
      /\ PartsOfSets(content)
  BY DEF ListAssumptions
<1>2. content.packages[i] \in ToldPackages
  BY <1>1
<1>3. content.packages[i].state \in SetStates
  BY <1>2 DEF ToldPackages
<1>4. ASSUME NEW d \in Listing!Children(content.packages[i])
      PROVE  /\ d.status \in HttpDownloads
             /\ content.packages[i].state \in {"Error", "PasswordRequired"} => d.status = "Completed"
  <2>1. PICK k \in DOMAIN content.downloads :
          d = content.downloads[k] /\ d.id \in content.packages[i].parts
    BY DEF Listing!Children, Listing!Downloads, Listing!Range
  <2>2. content.downloads[k] \in ToldDownloads
    BY <1>1
  <2>3. /\ d.kind = "http"
        /\ content.packages[i].state \in {"Error", "PasswordRequired"} => d.status = "Completed"
    BY <1>1, <2>1 DEF PartsOfSets
  <2>4. d.status \in HttpDownloads
    BY <2>1, <2>2, <2>3 DEF ToldDownloads
  <2>. QED
    BY <2>3, <2>4
<1>. QED
  BY <1>3, <1>4

(* What a set shows tells what one of its parts does. *)
LEMMA ShownOfASet ==
  ASSUME ListAssumptions, content \in Told, NEW i \in DOMAIN content.packages
  PROVE  LET package == content.packages[i]
             status == Listing!PackageStatus(package)
             Some(S) == \E d \in Listing!Children(package) : d.status \in S
         IN  \/ status = "Extracting" /\ package.state = "Extracting"
             \/ status = "PasswordRequired" /\ package.state = "PasswordRequired"
             \/ status = "ExtractError" /\ package.state = "Error"
             \/ status = "Completed"
             \/ status = "Downloading" /\ Some({"Starting", "Downloading"})
             \/ status = "Queued" /\ Some({"Queued"})
             \/ status = "Error" /\ Some({"Error"})
             \/ status = "Paused" /\ Some({"Paused"})
             \/ status = "Cancelled"
<1>. DEFINE package == content.packages[i]
            status == Listing!PackageStatus(package)
            Cs == Listing!Children(package)
            Some(S) == \E d \in Cs : d.status \in S
            Parted ==
              \/ status = "Completed"
              \/ status = "Downloading" /\ Some({"Starting", "Downloading"})
              \/ status = "Queued" /\ Some({"Queued"})
              \/ status = "Error" /\ Some({"Error"})
              \/ status = "Paused" /\ Some({"Paused"})
              \/ status = "Cancelled"
<1>1. package.state \in SetStates /\ \A d \in Cs : d.status \in HttpDownloads
  BY PartsOfASet
<1>2. CASE package.state # "NotStarted"
  BY <1>1, <1>2 DEF Listing!PackageStatus, SetStates
<1>3. ASSUME package.state = "NotStarted" PROVE Parted
  <2>1. status = IF Some({"Starting", "Downloading", "FetchingMetadata"}) THEN "Downloading"
                 ELSE IF Some({"Pending", "Queued"}) THEN "Queued"
                 ELSE IF Some(Listing!Failed) THEN "Error"
                 ELSE IF Some({"Paused"}) THEN "Paused"
                 ELSE IF \A d \in Cs : d.status = "Completed" THEN "Completed"
                 ELSE IF Some({"Cancelled"}) THEN "Cancelled"
                 ELSE "Queued"
    BY <1>3 DEF Listing!PackageStatus
  <2>. HIDE DEF status, Cs
  <2>2. CASE Some({"Starting", "Downloading"})
    BY <2>1, <2>2
  <2>3. CASE Some({"Queued"}) /\ ~Some({"Starting", "Downloading"})
    BY <1>1, <2>1, <2>3 DEF HttpDownloads
  <2>4. CASE Some({"Error"}) /\ ~Some({"Starting", "Downloading"}) /\ ~Some({"Queued"})
    BY <1>1, <2>1, <2>4 DEF HttpDownloads, Listing!Failed
  <2>5. CASE /\ ~Some({"Starting", "Downloading"}) /\ ~Some({"Queued"})
             /\ ~Some({"Error"})
    <3>1. \A d \in Cs : d.status \in {"Paused", "Completed", "Cancelled"}
      BY <1>1, <2>5 DEF HttpDownloads
    <3>2. /\ ~Some({"Starting", "Downloading", "FetchingMetadata"})
          /\ ~Some({"Pending", "Queued"}) /\ ~Some(Listing!Failed)
      BY <3>1 DEF Listing!Failed
    <3>3. status = IF Some({"Paused"}) THEN "Paused"
                   ELSE IF \A d \in Cs : d.status = "Completed" THEN "Completed"
                   ELSE IF Some({"Cancelled"}) THEN "Cancelled"
                   ELSE "Queued"
      BY <2>1, <3>2
    <3>. QED
      BY <3>1, <3>3
  <2>. QED
    BY <2>2, <2>3, <2>4, <2>5
<1>. QED
  BY <1>1, <1>2, <1>3 DEF SetStates

LEMMA SetIsAccepted ==
  ASSUME ListAssumptions, content \in Told, NEW i \in DOMAIN content.packages,
         NEW row, row = Listing!PackageRow(i), NEW command,
         command \in {"pause", "resume", "retry", "retry_extract", "stop_seeding", "cancel"},
         Listing!Eligible(command, row)
  PROVE  Listing!Accepted(command, row)
<1>. DEFINE package == content.packages[i]
            status == Listing!PackageStatus(package)
            Cs == Listing!Children(package)
            Some(S) == \E d \in Cs : d.status \in S
<1>1. row.source[1] = "package" /\ row.source[2] = i /\ row.status = status
  BY DEF Listing!PackageRow, Listing!RowOf
<1>2. /\ package.state \in SetStates
      /\ \A d \in Cs : package.state \in {"Error", "PasswordRequired"} => d.status = "Completed"
  BY PartsOfASet
<1>3. \/ status = "Extracting" /\ package.state = "Extracting"
      \/ status = "PasswordRequired" /\ package.state = "PasswordRequired"
      \/ status = "ExtractError" /\ package.state = "Error"
      \/ status = "Completed"
      \/ status = "Downloading" /\ Some({"Starting", "Downloading"})
      \/ status = "Queued" /\ Some({"Queued"})
      \/ status = "Error" /\ Some({"Error"})
      \/ status = "Paused" /\ Some({"Paused"})
      \/ status = "Cancelled"
  BY ShownOfASet
<1>4. Listing!Accepted(command, row) <=> Listing!AcceptedForSet(command, package)
  BY <1>1 DEF Listing!Accepted
<1>5. Listing!AcceptedForSet(command, package) <=>
        CASE command = "retry_extract" ->
               /\ package.state \in {"NotStarted", "Error", "PasswordRequired"}
               /\ \A d \in Cs : d.status = "Completed"
          [] command = "cancel" /\ package.state = "Extracting" -> TRUE
          [] OTHER -> Some(Listing!AcceptedStatuses(command) \ {"Extracting"})
  BY DEF Listing!AcceptedForSet
<1>. HIDE DEF status, Cs, package
<1>6. CASE command = "retry_extract"
  BY <1>1, <1>2, <1>3, <1>4, <1>5, <1>6 DEF Listing!Eligible
<1>7. CASE command = "cancel" /\ package.state = "Extracting"
  BY <1>4, <1>5, <1>7
<1>8. CASE command # "retry_extract" /\ ~(command = "cancel" /\ package.state = "Extracting")
  <2>1. Some(Listing!AcceptedStatuses(command) \ {"Extracting"})
    BY <1>1, <1>3, <1>8 DEF Listing!Eligible, Listing!AcceptedStatuses, Listing!Pausable,
      Listing!Resumable, Listing!Cancellable
  <2>. QED
    BY <1>4, <1>5, <1>8, <2>1
<1>. QED
  BY <1>6, <1>7, <1>8

(* The rows offer what applies to them. *)
LEMMA OfferedIsEligible ==
  ASSUME ListAssumptions, content \in Told, NEW row \in Listing!Derived, DerivedFacts,
         NEW command \in Listing!Offered(row)
  PROVE  \/ command = "resume" /\ row.status = "Cancelled"
         \/ /\ command \in {"pause", "resume", "retry", "retry_extract", "stop_seeding", "cancel"}
            /\ Listing!Eligible(command, row)
         \/ /\ command = "verify" /\ row.torrent /\ row.status \in Listing!Verifiable
            /\ \E i \in DOMAIN content.downloads : row = Listing!DownloadRow(i)
<1>1. CASE \E i \in DOMAIN content.downloads : row = Listing!DownloadRow(i)
  <2>1. PICK i \in DOMAIN content.downloads : row = Listing!DownloadRow(i)
    BY <1>1
  <2>2. content.downloads[i] \in ToldDownloads
    BY DEF ListAssumptions
  <2>3. row.status \in AllDownloads
    BY <2>1, <2>2 DEF ToldDownloads, AllDownloads, HttpDownloads, Listing!DownloadRow, Listing!RowOf
  <2>. QED
    BY <1>1, <2>3 DEF AllDownloads, HttpDownloads, Listing!Offered, Listing!Primary,
      Listing!Eligible, Listing!Stoppable, Listing!Pausable, Listing!Resumable, Listing!Cancellable
<1>2. CASE \E i \in DOMAIN content.packages : row = Listing!PackageRow(i)
  <2>1. PICK i \in DOMAIN content.packages : row = Listing!PackageRow(i)
    BY <1>2
  <2>2. ~row.torrent /\ row.status = Listing!PackageStatus(content.packages[i])
    BY <2>1 DEF Listing!PackageRow, Listing!RowOf
  <2>3. row.status \in {"Extracting", "PasswordRequired", "ExtractError", "Completed",
                        "Downloading", "Queued", "Error", "Paused", "Cancelled"}
    BY <2>2, ShownOfASet
  <2>. QED
    BY <2>2, <2>3 DEF Listing!Offered, Listing!Primary,
      Listing!Eligible, Listing!Stoppable, Listing!Pausable, Listing!Resumable, Listing!Cancellable
<1>. QED
  BY <1>1, <1>2 DEF DerivedFacts

LEMMA EligibleIsAccepted ==
  ASSUME ListAssumptions, content \in Told, NEW row \in Listing!Derived, DerivedFacts,
         NEW command \in {"pause", "resume", "retry", "retry_extract", "stop_seeding", "cancel"},
         Listing!Eligible(command, row)
  PROVE  Listing!Accepted(command, row)
<1>1. ASSUME NEW i \in DOMAIN content.downloads, row = Listing!DownloadRow(i)
      PROVE  Listing!Accepted(command, row)
  BY <1>1, DownloadIsAccepted
<1>2. ASSUME NEW i \in DOMAIN content.packages, row = Listing!PackageRow(i)
      PROVE  Listing!Accepted(command, row)
  BY <1>2, SetIsAccepted
<1>. QED
  BY <1>1, <1>2 DEF DerivedFacts

LEMMA RowsAreOffered ==
  ASSUME ListAssumptions, ListInv PROVE Listing!OfferedIsAccepted
<1>1. /\ content \in Told /\ DerivedFacts
      /\ Listing!Range(shownRows) = {row \in Listing!Derived : Listing!Retained(row, tab, query)}
  BY DerivedProperties DEF ListInv, Listing!RowsAreCurrent
<1>. DEFINE shown == Listing!Range(shownRows)
<1>2. shown \in SUBSET Listing!Derived
  BY <1>1
<1>3. IsFiniteSet(shown)
  BY <1>1, <1>2, FS_Subset DEF DerivedFacts
<1>. HIDE DEF shown
<1>. SUFFICES ASSUME NEW row \in shown, NEW command \in Listing!Offered(row),
                     ~(command = "resume" /\ row.status = "Cancelled")
     PROVE  LET targets == Listing!Targets(command, row)
            IN \/ command = "verify" /\ Listing!Cardinality(targets) > 1
               \/ targets # {} /\ \A target \in targets : Listing!Accepted(command, target)
  BY DEF Listing!OfferedIsAccepted, shown
<1>. DEFINE targets == Listing!Targets(command, row)
            Several == Listing!Cardinality(selection) > 1 /\ row.id \in selection
<1>4. targets = IF Several
                THEN {other \in shown : other.id \in selection /\ Listing!Eligible(command, other)}
                ELSE {row}
  BY DEF Listing!Targets, shown
<1>5. row \in Listing!Derived
  BY <1>2
<1>6. \/ /\ command \in {"pause", "resume", "retry", "retry_extract", "stop_seeding", "cancel"}
         /\ Listing!Eligible(command, row)
      \/ /\ command = "verify" /\ row.torrent /\ row.status \in Listing!Verifiable
         /\ \E i \in DOMAIN content.downloads : row = Listing!DownloadRow(i)
  BY <1>1, <1>5, OfferedIsEligible
<1>7. row \in targets
  BY <1>4, <1>6 DEF Listing!Eligible
<1>8. CASE command # "verify"
  <2>1. \A target \in targets : target \in Listing!Derived /\ Listing!Eligible(command, target)
    BY <1>2, <1>4, <1>5, <1>6, <1>8
  <2>. QED
    BY <1>1, <1>6, <1>7, <1>8, <2>1, EligibleIsAccepted
<1>9. CASE command = "verify"
  <2>1. Listing!Accepted(command, row)
    BY <1>1, <1>6, <1>9, DownloadIsAccepted
  <2>2. targets \in SUBSET shown
    BY <1>4
  <2>. HIDE DEF targets
  <2>3. IsFiniteSet(targets)
    BY <1>3, <2>2, FS_Subset
  <2>4. Listing!Cardinality(targets) = Cardinality(targets)
    BY SameCount, Zenon
  <2>5. ASSUME ~(Cardinality(targets) > 1) PROVE targets = {row}
    <3>1. /\ IsFiniteSet(targets \ {row}) /\ Cardinality(targets) \in Nat
          /\ Cardinality(targets \ {row}) = Cardinality(targets) - 1
      BY <1>7, <2>3, FS_RemoveElement, FS_CardinalityType
    <3>2. Cardinality(targets \ {row}) \in Nat
      BY <3>1, FS_CardinalityType
    <3>3. Cardinality(targets \ {row}) = 0
      BY <2>5, <3>1, <3>2
    <3>4. targets \ {row} = {}
      BY <3>1, <3>3, FS_EmptySet
    <3>. QED
      BY <1>7, <3>4
  <2>. QED
    BY <1>9, <2>1, <2>4, <2>5 DEF targets
<1>. QED
  BY <1>8, <1>9

-----------------------------------------------------------------------------
(* The record.  What a transaction would make of the tables is what the     *)
(* loop then makes of the rows: this holds from the moment the loop has     *)
(* prepared it, whatever the trackers count and flush in the meantime.      *)
RecordAssumptions ==
  /\ Recording!Sets \cap Ids = {}
  /\ \A s \in Recording!Sets : Grouped[s] \subseteq Ids

RowStatuses ==
  {"queued", "active", "paused", "completed", "error", "unwritten", "not_started", "extracting"}
SomeRow == [status : RowStatuses, downloaded : Nat, name : Nat, pinned : BOOLEAN]
RecordRows == SomeRow \cup {Recording!NoRow}
TableStates ==
  [rows : [Recording!Keys -> RecordRows], states : SUBSET Ids,
   items : SUBSET (Recording!Sets \X Ids)]

(* A row and its record agree but for what is excused. *)
Agree(row, recorded, excused) ==
  /\ row = Recording!NoRow <=> recorded = Recording!NoRow
  /\ "status" \in excused \/ Recording!Restored(row).status = Recording!Restored(recorded).status
  /\ "downloaded" \in excused \/ row.downloaded = recorded.downloaded
  /\ row.name = recorded.name /\ row.pinned = recorded.pinned

Excused(workers, key, status) ==
  (IF key \in Ids /\ workers[key] # "none" THEN {"downloaded"} ELSE {})
  \cup (IF status = "unwritten" THEN {"status"} ELSE {})
  \cup (IF status = "unwritten" /\ key \in Ids THEN {"downloaded"} ELSE {})

Matches(workers, rs, ts) ==
  \A key \in Recording!Keys : Agree(rs[key], ts[key], Excused(workers, key, rs[key].status))

(* TableStates that a start can read: the rows of a download, a set and its      *)
(* items are there together, and a download is part of one set.             *)
Loadable(t) ==
  /\ t \in TableStates
  /\ \A id \in Ids : t.rows[id] # Recording!NoRow <=> id \in t.states
  /\ \A s \in Recording!Sets : \A id \in Ids :
       <<s, id>> \in t.items <=> t.rows[s] # Recording!NoRow /\ id \in Grouped[s]
  /\ \A s \in Recording!Sets : t.rows[s] # Recording!NoRow =>
       /\ \A id \in Grouped[s] : t.rows[id] # Recording!NoRow
       /\ \A r \in Recording!Sets \ {s} :
            t.rows[r] # Recording!NoRow => Grouped[s] \cap Grouped[r] = {}

LegalStatements(statements) ==
  \A x \in statements :
    /\ x.what \in {"insert", "state", "item", "update", "delete"}
    /\ x.what = "insert" => x.key \in Recording!Keys /\ x.row \in SomeRow
    /\ x.what = "state" => x.key \in Ids
    /\ x.what = "item" => x.key \in Recording!Sets /\ x.item \in Ids
    /\ x.what = "update" => x.key \in Recording!Keys /\ x.row \in SomeRow

(* The rows that the loop will make, and those a worker has just left.      *)
RowsToBe == Recording!Applied(writing.changed, writing.fields)
Left ==
  IF writing.step = "write" /\ writing.failing = "unwritten"
  THEN DOMAIN writing.changed \cap Ids ELSE {}

LoopTypes ==
  /\ DOMAIN writing = {"step", "statements", "changed", "fields", "starts", "failing"}
  /\ writing.step \in {"write", "apply"} /\ writing.failing \in {"reply", "error", "unwritten"}
  /\ LegalStatements(writing.statements)
  /\ DOMAIN writing.changed \subseteq Recording!Keys
  /\ writing.starts \subseteq Ids
  /\ RowsToBe \in [Recording!Keys -> RecordRows]
  /\ \A id \in Ids : id \in writing.starts \/ trackers[id] # "none" => RowsToBe[id] # Recording!NoRow

Prepared(t) == Loadable(t) /\ Matches(trackers, RowsToBe, t.rows)

(* What holds of rows, tables and trackers, with the counts of `K` excused. *)
Agreed(ws, rs, t, K) ==
  /\ rs \in [Recording!Keys -> RecordRows] /\ Loadable(t)
  /\ \A key \in Recording!Keys :
       Agree(rs[key], t.rows[key],
             Excused(ws, key, rs[key].status) \cup (IF key \in K THEN {"downloaded"} ELSE {}))

(* Statements and changes that go together. *)
Fit(ws, S, C, F) ==
  /\ LegalStatements(S)
  /\ Recording!Applied(C, F) \in [Recording!Keys -> RecordRows]
  /\ Loadable(Recording!Execute(tables, S))
  /\ Matches(ws, Recording!Applied(C, F), Recording!Execute(tables, S).rows)

(* Only what a row of its own is written for fails it; no worker is there.  *)
FailsItsRow ==
  writing.failing # "reply" =>
    \A key \in DOMAIN writing.changed :
      /\ record[key] # Recording!NoRow
      /\ key \in Ids => trackers[key] = "none"
      /\ writing.failing = "error" => key \in Ids

RecordInv ==
  /\ record \in [Recording!Keys -> RecordRows]
  /\ trackers \in [Ids -> {"none", "running", "flushing", "exiting"}]
  /\ \A id \in Ids : trackers[id] # "none" => record[id] # Recording!NoRow
  /\ Loadable(tables)
  /\ writing = Recording!Nothing \/ LoopTypes
  /\ writing.step # "apply" =>
       \A key \in Recording!Keys :
         Agree(record[key], tables.rows[key],
               Excused(trackers, key, record[key].status) \cup (IF key \in Left THEN {"downloaded"} ELSE {}))
  /\ writing.step = "write" => Prepared(Recording!Written(writing.statements)) /\ FailsItsRow
  /\ writing.step = "apply" => Prepared(tables)

-----------------------------------------------------------------------------
(* Rows and what the loop makes of them. *)
LEMMA RowProperties ==
  ASSUME NEW row \in RecordRows
  PROVE  /\ row = Recording!NoRow <=> row.status = "none"
         /\ row # Recording!NoRow => row \in SomeRow
         /\ row.downloaded \in Nat /\ row.name \in Nat /\ row.pinned \in BOOLEAN
<1>1. CASE row = Recording!NoRow
  BY <1>1 DEF Recording!NoRow
<1>2. CASE row \in SomeRow
  BY <1>2 DEF SomeRow, RowStatuses, Recording!NoRow
<1>. QED
  BY <1>1, <1>2 DEF RecordRows

LEMMA EditedProperties ==
  ASSUME NEW old, NEW new, NEW fields
  PROVE  LET row == Recording!Edited(old, new, fields)
         IN  /\ row.status = IF "status" \in fields THEN new.status ELSE old.status
             /\ row.downloaded = IF "downloaded" \in fields THEN new.downloaded ELSE old.downloaded
             /\ row.name = IF "name" \in fields THEN new.name ELSE old.name
             /\ row.pinned = IF "pinned" \in fields THEN new.pinned ELSE old.pinned
BY DEF Recording!Edited, Recording!Fields

LEMMA EditedIsRow ==
  ASSUME NEW old \in SomeRow, NEW new \in SomeRow, NEW fields
  PROVE  Recording!Edited(old, new, fields) \in SomeRow
BY DEF Recording!Edited, Recording!Fields, SomeRow

LEMMA Replaced ==
  ASSUME NEW old \in RecordRows, NEW new \in RecordRows
  PROVE  Recording!Edited(old, new, Recording!Fields) = new
BY DEF Recording!Edited, Recording!Fields, SomeRow, RecordRows, Recording!NoRow

LEMMA RestoredProperties ==
  ASSUME NEW row \in RecordRows
  PROVE  LET new == Recording!Restored(row)
         IN  /\ new \in RecordRows /\ (new = Recording!NoRow <=> row = Recording!NoRow)
             /\ new.status = CASE row.status = "active" -> "queued"
                               [] row.status = "extracting" -> "error"
                               [] OTHER -> row.status
             /\ Recording!Restored(new).status = new.status
             /\ new.downloaded = row.downloaded /\ new.name = row.name /\ new.pinned = row.pinned
<1>1. CASE row = Recording!NoRow
  BY <1>1 DEF Recording!Restored, Recording!NoRow, RecordRows
<1>2. CASE row \in SomeRow
  BY <1>2 DEF Recording!Restored, Recording!NoRow, RecordRows, SomeRow, RowStatuses
<1>. QED
  BY <1>1, <1>2 DEF RecordRows

-----------------------------------------------------------------------------
(* Transactions. *)
RowStatements(statements, key) ==
  {x \in statements : x.key = key /\ x.what \in {"insert", "update", "delete"}}

LEMMA ExecuteRows ==
  ASSUME NEW t, NEW statements, NEW key \in Recording!Keys
  PROVE  Recording!Execute(t, statements).rows[key] =
           IF RowStatements(statements, key) = {} THEN t.rows[key]
           ELSE Recording!RowAfter(t.rows[key],
                  CHOOSE x \in RowStatements(statements, key) : TRUE)
BY DEF Recording!Execute, RowStatements

LEMMA ExecuteStates ==
  ASSUME NEW t, NEW statements, NEW id
  PROVE  id \in Recording!Execute(t, statements).states <=>
           /\ id \in t.states \/ \E x \in statements : x.what = "state" /\ x.key = id
           /\ ~ \E x \in statements : x.what = "delete" /\ x.key = id
BY DEF Recording!Execute

LEMMA ExecuteItems ==
  ASSUME NEW t, NEW statements, NEW item
  PROVE  item \in Recording!Execute(t, statements).items <=>
           /\ \/ item \in t.items
              \/ \E x \in statements : x.what = "item" /\ item = <<x.key, x.item>>
           /\ ~ \E x \in statements : x.what = "delete" /\ (x.key = item[1] \/ x.key = item[2])
BY DEF Recording!Execute

LEMMA ExecuteRecord ==
  ASSUME NEW t, NEW statements
  PROVE  LET u == Recording!Execute(t, statements)
         IN  /\ u = [rows |-> u.rows, states |-> u.states, items |-> u.items]
             /\ DOMAIN u.rows = Recording!Keys
             /\ u.rows = [key \in Recording!Keys |-> u.rows[key]]
BY DEF Recording!Execute

LEMMA RowKept ==
  ASSUME NEW t, NEW statements, NEW key \in Recording!Keys,
         \A x \in statements : x.key = key => x.what \notin {"insert", "update", "delete"}
  PROVE  Recording!Execute(t, statements).rows[key] = t.rows[key]
<1>1. RowStatements(statements, key) = {}
  BY DEF RowStatements
<1>. QED
  BY <1>1, ExecuteRows

LEMMA RowMade ==
  ASSUME NEW t, NEW statements, NEW key \in Recording!Keys,
         NEW x \in statements, x.key = key, x.what \in {"insert", "update", "delete"},
         \A y \in statements :
           y.key = key /\ y.what \in {"insert", "update", "delete"} => y = x
  PROVE  Recording!Execute(t, statements).rows[key] = Recording!RowAfter(t.rows[key], x)
<1>1. RowStatements(statements, key) = {x}
  BY DEF RowStatements
<1>. DEFINE z == CHOOSE y \in RowStatements(statements, key) : TRUE
<1>2. z \in RowStatements(statements, key)
  BY <1>1
<1>. HIDE DEF z
<1>3. z = x
  BY <1>1, <1>2
<1>4. Recording!Execute(t, statements).rows[key] = Recording!RowAfter(t.rows[key], z)
  BY <1>1, ExecuteRows DEF z
<1>. QED
  BY <1>3, <1>4

LEMMA OthersKept ==
  ASSUME NEW t, NEW statements, \A x \in statements : x.what = "update"
  PROVE  /\ \A id : id \in Recording!Execute(t, statements).states <=> id \in t.states
         /\ \A item : item \in Recording!Execute(t, statements).items <=> item \in t.items
<1>1. \A x \in statements : x.what # "state" /\ x.what # "item" /\ x.what # "delete"
  OBVIOUS
<1>2. ASSUME NEW id
      PROVE  id \in Recording!Execute(t, statements).states <=> id \in t.states
  BY <1>1, ExecuteStates
<1>3. ASSUME NEW item
      PROVE  item \in Recording!Execute(t, statements).items <=> item \in t.items
  BY <1>1, ExecuteItems
<1>. QED
  BY <1>2, <1>3

LEMMA RowAfterIsRow ==
  ASSUME NEW old \in RecordRows, NEW statements, LegalStatements(statements),
         NEW key, NEW x \in RowStatements(statements, key)
  PROVE  Recording!RowAfter(old, x) \in RecordRows
<1>1. x.what \in {"insert", "update", "delete"}
  BY DEF RowStatements
<1>2. x.what \in {"insert", "update"} => x.row \in SomeRow
  BY DEF RowStatements, LegalStatements
<1>3. CASE x.what = "insert"
  BY <1>2, <1>3 DEF Recording!RowAfter, RecordRows
<1>4. CASE x.what = "delete"
  BY <1>4 DEF Recording!RowAfter, RecordRows
<1>5. CASE x.what = "update"
  <2>1. Recording!RowAfter(old, x) =
          IF old = Recording!NoRow THEN Recording!NoRow ELSE Recording!Edited(old, x.row, x.fields)
    BY <1>5 DEF Recording!RowAfter
  <2>2. old # Recording!NoRow => Recording!Edited(old, x.row, x.fields) \in SomeRow
    BY <1>2, <1>5, EditedIsRow DEF RecordRows
  <2>. QED
    BY <2>1, <2>2 DEF RecordRows
<1>. QED
  BY <1>1, <1>3, <1>4, <1>5

LEMMA ExecuteType ==
  ASSUME NEW t \in TableStates, NEW statements, LegalStatements(statements)
  PROVE  Recording!Execute(t, statements) \in TableStates
<1>. DEFINE u == Recording!Execute(t, statements)
<1>1. /\ t.rows \in [Recording!Keys -> RecordRows] /\ t.states \subseteq Ids
      /\ t.items \subseteq Recording!Sets \X Ids
  BY DEF TableStates
<1>2. ASSUME NEW key \in Recording!Keys PROVE u.rows[key] \in RecordRows
  <2>. DEFINE On == RowStatements(statements, key)
              x == CHOOSE y \in On : TRUE
  <2>1. u.rows[key] = IF On = {} THEN t.rows[key] ELSE Recording!RowAfter(t.rows[key], x)
    BY ExecuteRows
  <2>2. t.rows[key] \in RecordRows
    BY <1>1
  <2>3. On # {} => x \in On
    OBVIOUS
  <2>. HIDE DEF x, On
  <2>4. On # {} => Recording!RowAfter(t.rows[key], x) \in RecordRows
    BY <2>2, <2>3, RowAfterIsRow DEF On
  <2>. QED
    BY <2>1, <2>2, <2>4
<1>3. u.rows \in [Recording!Keys -> RecordRows]
  <2>1. u.rows = [key \in Recording!Keys |-> u.rows[key]]
    BY ExecuteRecord
  <2>. HIDE DEF u
  <2>. QED
    BY <1>2, <2>1
<1>4. u.states \subseteq Ids
  <2>. SUFFICES ASSUME NEW id \in u.states PROVE id \in Ids
    OBVIOUS
  <2>1. id \in t.states \/ \E x \in statements : x.what = "state" /\ x.key = id
    BY ExecuteStates
  <2>. QED
    BY <1>1, <2>1 DEF LegalStatements
<1>5. u.items \subseteq Recording!Sets \X Ids
  <2>. SUFFICES ASSUME NEW item \in u.items PROVE item \in Recording!Sets \X Ids
    OBVIOUS
  <2>1. item \in t.items \/ \E x \in statements : x.what = "item" /\ item = <<x.key, x.item>>
    BY ExecuteItems
  <2>. QED
    BY <1>1, <2>1 DEF LegalStatements
<1>6. u = [rows |-> u.rows, states |-> u.states, items |-> u.items]
  BY ExecuteRecord
<1>. HIDE DEF u
<1>7. u \in TableStates
  BY <1>3, <1>4, <1>5, <1>6 DEF TableStates
<1>. QED
  BY <1>7 DEF u

(* A flush changes one count of bytes; what a transaction makes of the      *)
(* tables afterwards differs in no more.                                    *)
RowsBeside(rs, qs, id) ==
  /\ rs \in [Recording!Keys -> RecordRows] /\ qs \in [Recording!Keys -> RecordRows]
  /\ \A key \in Recording!Keys \ {id} : qs[key] = rs[key]
  /\ id \in Recording!Keys =>
       /\ qs[id].status = rs[id].status /\ qs[id].name = rs[id].name
       /\ qs[id].pinned = rs[id].pinned

TablesBeside(t, u, id) ==
  /\ t \in TableStates /\ u \in TableStates
  /\ u.states = t.states /\ u.items = t.items
  /\ RowsBeside(t.rows, u.rows, id)

LEMMA BesideIsThere ==
  ASSUME NEW rs, NEW qs, NEW id, RowsBeside(rs, qs, id), NEW key \in Recording!Keys
  PROVE  qs[key] = Recording!NoRow <=> rs[key] = Recording!NoRow
<1>1. rs[key] \in RecordRows /\ qs[key] \in RecordRows /\ qs[key].status = rs[key].status
  BY DEF RowsBeside
<1>. QED
  BY <1>1, RowProperties

LEMMA WrittenBeside ==
  ASSUME NEW t, NEW u, NEW id \in Ids, TablesBeside(t, u, id),
         NEW statements, LegalStatements(statements)
  PROVE  TablesBeside(Recording!Execute(t, statements), Recording!Execute(u, statements), id)
<1>. DEFINE a == Recording!Execute(t, statements)
            b == Recording!Execute(u, statements)
<1>1. t \in TableStates /\ u \in TableStates /\ RowsBeside(t.rows, u.rows, id)
  BY DEF TablesBeside
<1>2. a \in TableStates /\ b \in TableStates
  BY <1>1, ExecuteType
<1>3. b.states = a.states /\ b.items = a.items
  <2>1. u.states = t.states /\ u.items = t.items
    BY DEF TablesBeside
  <2>2. ASSUME NEW k PROVE k \in b.states <=> k \in a.states
    BY <2>1, ExecuteStates
  <2>3. ASSUME NEW item PROVE item \in b.items <=> item \in a.items
    BY <2>1, ExecuteItems
  <2>4. /\ a.states \subseteq Ids /\ b.states \subseteq Ids
        /\ a.items \subseteq Recording!Sets \X Ids /\ b.items \subseteq Recording!Sets \X Ids
    BY <1>2 DEF TableStates
  <2>. HIDE DEF a, b
  <2>. QED
    BY <2>2, <2>3, <2>4
<1>4. ASSUME NEW key \in Recording!Keys
      PROVE  /\ key # id => b.rows[key] = a.rows[key]
             /\ b.rows[key].status = a.rows[key].status /\ b.rows[key].name = a.rows[key].name
             /\ b.rows[key].pinned = a.rows[key].pinned
  <2>. DEFINE On == RowStatements(statements, key)
              x == CHOOSE y \in On : TRUE
  <2>1. /\ a.rows[key] = IF On = {} THEN t.rows[key] ELSE Recording!RowAfter(t.rows[key], x)
        /\ b.rows[key] = IF On = {} THEN u.rows[key] ELSE Recording!RowAfter(u.rows[key], x)
    BY ExecuteRows
  <2>2. On # {} => x \in On
    OBVIOUS
  <2>. HIDE DEF x, a, b
  <2>3. On # {} => x.what \in {"insert", "update", "delete"}
    BY <2>2 DEF RowStatements
  <2>. HIDE DEF On
  <2>4. /\ key # id => u.rows[key] = t.rows[key]
        /\ u.rows[key].status = t.rows[key].status /\ u.rows[key].name = t.rows[key].name
        /\ u.rows[key].pinned = t.rows[key].pinned
    BY <1>1 DEF RowsBeside
  <2>5. u.rows[key] = Recording!NoRow <=> t.rows[key] = Recording!NoRow
    BY <1>1, BesideIsThere
  <2>6. CASE On = {}
    BY <2>1, <2>4, <2>6
  <2>7. CASE On # {} /\ x.what \in {"insert", "delete"}
    BY <2>1, <2>7 DEF Recording!RowAfter
  <2>8. CASE On # {} /\ x.what = "update"
    <3>1. /\ a.rows[key] = IF t.rows[key] = Recording!NoRow THEN Recording!NoRow
                           ELSE Recording!Edited(t.rows[key], x.row, x.fields)
          /\ b.rows[key] = IF u.rows[key] = Recording!NoRow THEN Recording!NoRow
                           ELSE Recording!Edited(u.rows[key], x.row, x.fields)
      BY <2>1, <2>8 DEF Recording!RowAfter
    <3>2. CASE t.rows[key] = Recording!NoRow
      BY <2>5, <3>1, <3>2
    <3>3. CASE t.rows[key] # Recording!NoRow
      <4>1. /\ a.rows[key] = Recording!Edited(t.rows[key], x.row, x.fields)
            /\ b.rows[key] = Recording!Edited(u.rows[key], x.row, x.fields)
        BY <2>5, <3>1, <3>3
      <4>. QED
        BY <2>4, <4>1, EditedProperties
    <3>. QED
      BY <3>2, <3>3
  <2>. QED
    BY <2>3, <2>6, <2>7, <2>8
<1>5. id \in Recording!Keys
  BY DEF Recording!Keys
<1>6. a.rows \in [Recording!Keys -> RecordRows] /\ b.rows \in [Recording!Keys -> RecordRows]
  BY <1>2 DEF TableStates
<1>. HIDE DEF a, b
<1>7. RowsBeside(a.rows, b.rows, id)
  BY <1>4, <1>5, <1>6 DEF RowsBeside
<1>8. TablesBeside(a, b, id)
  BY <1>2, <1>3, <1>7 DEF TablesBeside
<1>. QED
  BY <1>8 DEF a, b

LEMMA LoadableBeside ==
  ASSUME RecordAssumptions, NEW t, NEW u, NEW id, TablesBeside(t, u, id), Loadable(t)
  PROVE  Loadable(u)
<1>1. \A key \in Recording!Keys :
        u.rows[key] = Recording!NoRow <=> t.rows[key] = Recording!NoRow
  BY BesideIsThere DEF TablesBeside
<1>2. /\ Ids \subseteq Recording!Keys /\ Recording!Sets \subseteq Recording!Keys
      /\ \A s \in Recording!Sets : Grouped[s] \subseteq Ids
  BY DEF Recording!Keys, RecordAssumptions
<1>3. u \in TableStates /\ u.states = t.states /\ u.items = t.items
  BY DEF TablesBeside
<1>4. \A key \in Ids \cup Recording!Sets :
        u.rows[key] # Recording!NoRow <=> t.rows[key] # Recording!NoRow
  BY <1>1, <1>2
<1>5. \A k \in Ids : u.rows[k] # Recording!NoRow <=> k \in u.states
  BY <1>3, <1>4 DEF Loadable
<1>6. \A s \in Recording!Sets : \A k \in Ids :
        <<s, k>> \in u.items <=> u.rows[s] # Recording!NoRow /\ k \in Grouped[s]
  BY <1>3, <1>4 DEF Loadable
<1>7. \A s \in Recording!Sets : u.rows[s] # Recording!NoRow =>
        /\ \A k \in Grouped[s] : u.rows[k] # Recording!NoRow
        /\ \A r \in Recording!Sets \ {s} :
             u.rows[r] # Recording!NoRow => Grouped[s] \cap Grouped[r] = {}
  BY <1>2, <1>4 DEF Loadable
<1>. QED
  BY <1>3, <1>5, <1>6, <1>7 DEF Loadable

(* The count of a download with a worker is excused on either side.         *)
LEMMA MatchesBeside ==
  ASSUME NEW ws, NEW rs, NEW qs, NEW ts, NEW us, NEW id \in Ids, ws[id] # "none",
         Matches(ws, rs, ts), RowsBeside(rs, qs, id), RowsBeside(ts, us, id)
  PROVE  Matches(ws, qs, us)
<1>. SUFFICES ASSUME NEW key \in Recording!Keys
     PROVE  Agree(qs[key], us[key], Excused(ws, key, qs[key].status))
  BY DEF Matches
<1>1. Agree(rs[key], ts[key], Excused(ws, key, rs[key].status))
  BY DEF Matches
<1>2. CASE key # id
  <2>1. qs[key] = rs[key] /\ us[key] = ts[key]
    BY <1>2 DEF RowsBeside
  <2>. QED
    BY <1>1, <2>1
<1>3. CASE key = id
  <2>1. /\ qs[id].status = rs[id].status /\ qs[id].name = rs[id].name
        /\ qs[id].pinned = rs[id].pinned /\ us[id].status = ts[id].status
        /\ us[id].name = ts[id].name /\ us[id].pinned = ts[id].pinned
    BY <1>3 DEF RowsBeside
  <2>2. /\ qs[id] = Recording!NoRow <=> rs[id] = Recording!NoRow
        /\ us[id] = Recording!NoRow <=> ts[id] = Recording!NoRow
    BY <1>3, BesideIsThere
  <2>3. /\ qs[id] \in RecordRows /\ rs[id] \in RecordRows
        /\ us[id] \in RecordRows /\ ts[id] \in RecordRows
    BY <1>3 DEF RowsBeside
  <2>4. /\ Recording!Restored(qs[id]).status = Recording!Restored(rs[id]).status
        /\ Recording!Restored(us[id]).status = Recording!Restored(ts[id]).status
    BY <2>1, <2>3, RestoredProperties
  <2>5. "downloaded" \in Excused(ws, id, qs[id].status)
    BY DEF Excused
  <2>6. Excused(ws, id, qs[id].status) = Excused(ws, id, rs[id].status)
    BY <2>1
  <2>. HIDE DEF Excused
  <2>. QED
    BY <1>1, <1>3, <2>1, <2>2, <2>4, <2>5, <2>6 DEF Agree
<1>. QED
  BY <1>2, <1>3

-----------------------------------------------------------------------------
(* Rows that are changed: what is applied to them is written, and so is the *)
(* count of bytes where it was excused and is not any more.                 *)
UpdatesOf(S, K, C, G) ==
  /\ \A x : x \in S <=> \E key \in K : x = Recording!Update(key, C[key], G[key])
  /\ \A key \in K : C[key] \in SomeRow

LEMMA UpdateExecuted ==
  ASSUME NEW t \in TableStates, NEW K \in SUBSET Recording!Keys, NEW C, NEW G, NEW S,
         UpdatesOf(S, K, C, G)
  PROVE  LET u == Recording!Execute(t, S)
         IN  /\ LegalStatements(S)
             /\ u.states = t.states /\ u.items = t.items
             /\ \A key \in Recording!Keys :
                  u.rows[key] =
                    IF key \in K /\ t.rows[key] # Recording!NoRow
                    THEN Recording!Edited(t.rows[key], C[key], G[key]) ELSE t.rows[key]
<1>. DEFINE u == Recording!Execute(t, S)
<1>1. \A x \in S : \E key \in K : /\ x = Recording!Update(key, C[key], G[key])
                                  /\ x.what = "update" /\ x.key = key
                                  /\ x.row = C[key] /\ x.fields = G[key]
  BY DEF Recording!Update, UpdatesOf
<1>2. LegalStatements(S)
  BY <1>1 DEF LegalStatements, UpdatesOf
<1>3. u.states = t.states /\ u.items = t.items
  <2>1. \A x \in S : x.what = "update"
    BY <1>1
  <2>2. /\ \A id : id \in u.states <=> id \in t.states
        /\ \A item : item \in u.items <=> item \in t.items
    BY <2>1, OthersKept DEF u
  <2>. QED
    BY <2>2
<1>4. ASSUME NEW key \in Recording!Keys
      PROVE  u.rows[key] = IF key \in K /\ t.rows[key] # Recording!NoRow
                           THEN Recording!Edited(t.rows[key], C[key], G[key]) ELSE t.rows[key]
  <2>. DEFINE x == Recording!Update(key, C[key], G[key])
  <2>1. x.what = "update" /\ x.key = key /\ x.row = C[key] /\ x.fields = G[key]
    BY DEF Recording!Update
  <2>2. \A y \in S : y.key = key => key \in K /\ y = x
    BY <1>1
  <2>3. key \in K => x \in S
    BY DEF UpdatesOf
  <2>4. Recording!RowAfter(t.rows[key], x) =
          IF t.rows[key] = Recording!NoRow THEN Recording!NoRow
          ELSE Recording!Edited(t.rows[key], C[key], G[key])
    BY <2>1 DEF Recording!RowAfter
  <2>. HIDE DEF x
  <2>5. CASE key \in K
    <3>1. u.rows[key] = Recording!RowAfter(t.rows[key], x)
      BY <2>1, <2>2, <2>3, <2>5, RowMade
    <3>. QED
      BY <2>4, <2>5, <3>1
  <2>6. CASE key \notin K
    BY <2>2, <2>6, RowKept
  <2>. QED
    BY <2>5, <2>6
<1>. QED
  BY <1>2, <1>3, <1>4

(* TableStates whose rows are there as before can be loaded as before. *)
LEMMA LoadableAsBefore ==
  ASSUME RecordAssumptions, NEW t, NEW u \in TableStates, Loadable(t),
         u.states = t.states, u.items = t.items,
         \A key \in Recording!Keys : u.rows[key] = Recording!NoRow <=> t.rows[key] = Recording!NoRow
  PROVE  Loadable(u)
<1>1. /\ Ids \subseteq Recording!Keys /\ Recording!Sets \subseteq Recording!Keys
      /\ \A s \in Recording!Sets : Grouped[s] \subseteq Ids
  BY DEF Recording!Keys, RecordAssumptions
<1>2. \A key \in Ids \cup Recording!Sets :
        u.rows[key] # Recording!NoRow <=> t.rows[key] # Recording!NoRow
  BY <1>1
<1>3. \A k \in Ids : u.rows[k] # Recording!NoRow <=> k \in u.states
  BY <1>2 DEF Loadable
<1>4. ASSUME NEW s \in Recording!Sets, NEW k \in Ids
      PROVE  <<s, k>> \in u.items <=> u.rows[s] # Recording!NoRow /\ k \in Grouped[s]
  <2>1. <<s, k>> \in t.items <=> t.rows[s] # Recording!NoRow /\ k \in Grouped[s]
    BY DEF Loadable
  <2>. QED
    BY <1>2, <2>1
<1>5. \A s \in Recording!Sets : u.rows[s] # Recording!NoRow =>
        /\ \A k \in Grouped[s] : u.rows[k] # Recording!NoRow
        /\ \A r \in Recording!Sets \ {s} :
             u.rows[r] # Recording!NoRow => Grouped[s] \cap Grouped[r] = {}
  BY <1>1, <1>2 DEF Loadable
<1>. QED
  BY <1>3, <1>4, <1>5 DEF Loadable

UpdatesFit(K, C, F, G, X) ==
  /\ K \subseteq Recording!Keys /\ X \subseteq K \cap Ids
  /\ DOMAIN C = K /\ F \subseteq {"status", "name", "pinned"}
  /\ \A key \in K :
       /\ record[key] # Recording!NoRow /\ C[key] \in SomeRow /\ F \subseteq G[key]
       /\ "status" \in F \/ C[key].status = record[key].status
       /\ "name" \in F \/ C[key].name = record[key].name
       /\ "pinned" \in F \/ C[key].pinned = record[key].pinned
       /\ C[key].downloaded = record[key].downloaded
       /\ key \in X \/ (key \in Ids /\ "status" \in F) => "downloaded" \in G[key]

(* The rows that are there, when a change is applied, are those before it. *)
SameRows(C, F) ==
  \A key \in Recording!Keys :
    Recording!Applied(C, F)[key] = Recording!NoRow <=> record[key] = Recording!NoRow

LEMMA Updates ==
  ASSUME RecordAssumptions, NEW ws, NEW K, NEW C, NEW F, NEW G, NEW X, NEW S,
         UpdatesOf(S, K, C, G), UpdatesFit(K, C, F, G, X), Agreed(ws, record, tables, X)
  PROVE  Fit(ws, S, C, F) /\ SameRows(C, F)
<1>. USE DEF UpdatesFit, Agreed
<1>. DEFINE N == Recording!Applied(C, F)
            u == Recording!Execute(tables, S)
<1>1. tables \in TableStates /\ tables.rows \in [Recording!Keys -> RecordRows]
  BY DEF Loadable, TableStates
<1>. HIDE DEF N, u
<1>. DEFINE After(key) ==
              IF key \in K /\ tables.rows[key] # Recording!NoRow
              THEN Recording!Edited(tables.rows[key], C[key], G[key]) ELSE tables.rows[key]
<1>1a. /\ LegalStatements(S) /\ u.states = tables.states /\ u.items = tables.items
      /\ \A key \in Recording!Keys : u.rows[key] = After(key)
  <2>2. /\ LegalStatements(S) /\ u.states = tables.states /\ u.items = tables.items
        /\ \A key \in Recording!Keys :
             u.rows[key] = IF key \in K /\ tables.rows[key] # Recording!NoRow
                           THEN Recording!Edited(tables.rows[key], C[key], G[key])
                           ELSE tables.rows[key]
    BY <1>1, UpdateExecuted DEF u
  <2>. QED
    BY <2>2
<1>2. LegalStatements(S) /\ u \in TableStates /\ u.states = tables.states /\ u.items = tables.items
  BY <1>1, <1>1a, ExecuteType DEF u
<1>3. ASSUME NEW key \in Recording!Keys
      PROVE  /\ key \notin K => N[key] = record[key] /\ u.rows[key] = tables.rows[key]
             /\ key \in K => /\ N[key] = Recording!Edited(record[key], C[key], F)
                             /\ tables.rows[key] # Recording!NoRow
                             /\ u.rows[key] = Recording!Edited(tables.rows[key], C[key], G[key])
  <2>1. N[key] = IF key \in K THEN Recording!Edited(record[key], C[key], F) ELSE record[key]
    BY DEF N, Recording!Applied
  <2>2. u.rows[key] = After(key)
    BY <1>1a
  <2>3. key \in K => tables.rows[key] # Recording!NoRow
    BY DEF Agree
  <2>. QED
    BY <2>1, <2>2, <2>3
<1>4. ASSUME NEW key \in Recording!Keys
      PROVE  /\ N[key] \in RecordRows
             /\ N[key] = Recording!NoRow <=> record[key] = Recording!NoRow
             /\ u.rows[key] = Recording!NoRow <=> tables.rows[key] = Recording!NoRow
  <2>1. record[key] \in RecordRows /\ tables.rows[key] \in RecordRows
    BY <1>1
  <2>2. CASE key \in K
    <3>1. /\ record[key] \in SomeRow /\ tables.rows[key] \in SomeRow /\ C[key] \in SomeRow
          /\ record[key] # Recording!NoRow /\ tables.rows[key] # Recording!NoRow
      BY <1>3, <2>1, <2>2 DEF RecordRows
    <3>2. N[key] \in SomeRow /\ u.rows[key] \in SomeRow
      BY <1>3, <2>2, <3>1, EditedIsRow
    <3>3. \A row \in SomeRow : row # Recording!NoRow
      BY DEF SomeRow, RowStatuses, Recording!NoRow
    <3>. QED
      BY <3>1, <3>2, <3>3 DEF RecordRows
  <2>3. CASE key \notin K
    BY <1>3, <2>1, <2>3
  <2>. QED
    BY <2>2, <2>3
<1>5. N \in [Recording!Keys -> RecordRows]
  <2>1. N = [key \in Recording!Keys |-> N[key]]
    BY DEF N, Recording!Applied
  <2>. QED
    BY <1>4, <2>1
<1>6. Loadable(u)
  BY <1>2, <1>4, LoadableAsBefore
<1>7. ASSUME NEW key \in Recording!Keys
      PROVE  Agree(N[key], u.rows[key], Excused(ws, key, N[key].status))
  <2>. DEFINE more == IF key \in X THEN {"downloaded"} ELSE {}
  <2>1. Agree(record[key], tables.rows[key], Excused(ws, key, record[key].status) \cup more)
    OBVIOUS
  <2>2. CASE key \notin K
    BY <1>3, <2>1, <2>2
  <2>3. CASE key \in K
    <3>1. /\ N[key] = Recording!Edited(record[key], C[key], F)
          /\ u.rows[key] = Recording!Edited(tables.rows[key], C[key], G[key])
          /\ record[key] \in RecordRows /\ tables.rows[key] \in RecordRows /\ C[key] \in RecordRows
          /\ u.rows[key] \in RecordRows /\ N[key] \in RecordRows
      BY <1>1, <1>2, <1>3, <1>4, <2>3 DEF TableStates, RecordRows
    <3>. DEFINE n == N[key]
                v == u.rows[key]
                r == record[key]
                t == tables.rows[key]
                c == C[key]
                g == G[key]
    <3>2. /\ n.status = IF "status" \in F THEN c.status ELSE r.status
          /\ n.downloaded = r.downloaded
          /\ n.name = IF "name" \in F THEN c.name ELSE r.name
          /\ n.pinned = IF "pinned" \in F THEN c.pinned ELSE r.pinned
      BY <3>1, EditedProperties
    <3>3. /\ v.status = IF "status" \in g THEN c.status ELSE t.status
          /\ v.downloaded = IF "downloaded" \in g THEN c.downloaded ELSE t.downloaded
          /\ v.name = IF "name" \in g THEN c.name ELSE t.name
          /\ v.pinned = IF "pinned" \in g THEN c.pinned ELSE t.pinned
      BY <3>1, EditedProperties
    <3>4. /\ F \subseteq g
          /\ "status" \in F \/ c.status = r.status
          /\ "name" \in F \/ c.name = r.name
          /\ "pinned" \in F \/ c.pinned = r.pinned
          /\ c.downloaded = r.downloaded
          /\ key \in X \/ (key \in Ids /\ "status" \in F) => "downloaded" \in g
      BY <2>3
    <3>5. n = Recording!NoRow <=> v = Recording!NoRow
      BY <1>4, <2>1, <2>3 DEF Agree
    <3>6. n.status = v.status => Recording!Restored(n).status = Recording!Restored(v).status
      BY <3>1, RestoredProperties
    <3>7. "status" \notin F => /\ Recording!Restored(n).status = Recording!Restored(r).status
                               /\ n.status = r.status
      BY <3>1, <3>2, RestoredProperties
    <3>8. "status" \notin g => Recording!Restored(v).status = Recording!Restored(t).status
      BY <3>1, <3>3, RestoredProperties
    <3>. HIDE DEF n, v, r, t, c, g
    <3>9. Agree(r, t, Excused(ws, key, r.status) \cup more)
      BY <2>1 DEF r, t
    <3>10. n.name = v.name /\ n.pinned = v.pinned
      BY <3>2, <3>3, <3>4, <3>9 DEF Agree
    <3>11. \/ "status" \in Excused(ws, key, n.status)
           \/ Recording!Restored(n).status = Recording!Restored(v).status
      <4>1. CASE "status" \in F
        BY <3>2, <3>3, <3>4, <3>6, <4>1
      <4>2. CASE "status" \notin F /\ "status" \in g
        BY <3>2, <3>3, <3>4, <3>6, <4>2
      <4>3. CASE "status" \notin F /\ "status" \notin g
        BY <3>7, <3>8, <3>9, <4>3 DEF Agree
      <4>. QED
        BY <4>1, <4>2, <4>3
    <3>12. "downloaded" \in Excused(ws, key, n.status) \/ n.downloaded = v.downloaded
      <4>1. CASE "downloaded" \in g
        BY <3>2, <3>3, <3>4, <4>1
      <4>2. CASE "downloaded" \notin g
        <5>1. key \notin X /\ (key \notin Ids \/ "status" \notin F)
          BY <3>4, <4>2
        <5>2. "downloaded" \in Excused(ws, key, r.status) \/ r.downloaded = t.downloaded
          BY <3>9, <5>1 DEF Agree
        <5>3. "downloaded" \in Excused(ws, key, r.status) =>
                "downloaded" \in Excused(ws, key, n.status)
          BY <3>7, <5>1 DEF Excused
        <5>. QED
          BY <3>2, <3>3, <4>2, <5>2, <5>3
      <4>. QED
        BY <4>1, <4>2
    <3>13. Agree(n, v, Excused(ws, key, n.status))
      BY <3>5, <3>10, <3>11, <3>12 DEF Agree
    <3>. QED
      BY <3>13 DEF n, v
  <2>. QED
    BY <2>2, <2>3
<1>8. Matches(ws, N, u.rows)
  BY <1>7 DEF Matches
<1>. QED
  BY <1>2, <1>4, <1>5, <1>6, <1>8 DEF N, u, Fit, SameRows

-----------------------------------------------------------------------------
(* Rows that are new, with the state of each download and the items of a    *)
(* set.                                                                     *)
InsertsOf(S, K, C) ==
  /\ \A x \in S : x.what \in {"insert", "state", "item"}
  /\ \A x \in S : x.what = "insert" => x.key \in K /\ x = Recording!Insert(x.key, C[x.key])
  /\ \A x \in S : x.what = "state" => x.key \in K \cap Ids
  /\ \A x \in S : x.what = "item" => x.key \in K \cap Recording!Sets /\ x.item \in Grouped[x.key]
  /\ \A key \in K : C[key] \in SomeRow /\ Recording!Insert(key, C[key]) \in S
  /\ \A id \in K \cap Ids : \E x \in S : x.what = "state" /\ x.key = id
  /\ \A s \in K \cap Recording!Sets : \A id \in Grouped[s] :
       \E x \in S : x.what = "item" /\ <<x.key, x.item>> = <<s, id>>

InsertedInto(t, u, K, C) ==
  /\ \A id : id \in u.states <=> id \in t.states \/ id \in K \cap Ids
  /\ \A s, id : <<s, id>> \in u.items <=>
       <<s, id>> \in t.items \/ (s \in K \cap Recording!Sets /\ id \in Grouped[s])
  /\ \A key \in Recording!Keys : u.rows[key] = IF key \in K THEN C[key] ELSE t.rows[key]

LEMMA InsertExecuted ==
  ASSUME RecordAssumptions, NEW t \in TableStates, NEW K \in SUBSET Recording!Keys, NEW C, NEW S,
         InsertsOf(S, K, C)
  PROVE  LegalStatements(S) /\ InsertedInto(t, Recording!Execute(t, S), K, C)
<1>. DEFINE u == Recording!Execute(t, S)
<1>1. \A x \in S : /\ x.what \in {"insert", "state", "item"}
                   /\ x.what = "insert" => x.key \in K /\ x.row = C[x.key]
                   /\ x.what = "insert" => x = Recording!Insert(x.key, C[x.key])
  BY DEF Recording!Insert, InsertsOf
<1>2. LegalStatements(S)
  <2>1. \A s \in Recording!Sets : Grouped[s] \subseteq Ids
    BY DEF RecordAssumptions
  <2>. QED
    BY <1>1, <2>1 DEF LegalStatements, InsertsOf
<1>3. \A x \in S : x.what # "delete"
  BY <1>1
<1>4. ASSUME NEW id PROVE id \in u.states <=> id \in t.states \/ id \in K \cap Ids
  <2>1. id \in u.states <=> id \in t.states \/ \E x \in S : x.what = "state" /\ x.key = id
    BY <1>3, ExecuteStates
  <2>. HIDE DEF u
  <2>. QED
    BY <2>1 DEF InsertsOf
<1>5. ASSUME NEW s, NEW id
      PROVE  <<s, id>> \in u.items <=>
               <<s, id>> \in t.items \/ (s \in K \cap Recording!Sets /\ id \in Grouped[s])
  <2>1. <<s, id>> \in u.items <=>
          <<s, id>> \in t.items \/ \E x \in S : x.what = "item" /\ <<s, id>> = <<x.key, x.item>>
    BY <1>3, ExecuteItems
  <2>. HIDE DEF u
  <2>. QED
    BY <2>1 DEF InsertsOf
<1>6. ASSUME NEW key \in Recording!Keys
      PROVE  u.rows[key] = IF key \in K THEN C[key] ELSE t.rows[key]
  <2>. DEFINE x == Recording!Insert(key, C[key])
  <2>1. x.what = "insert" /\ x.key = key /\ x.row = C[key]
    BY DEF Recording!Insert
  <2>2. \A y \in S : y.key = key /\ y.what \in {"insert", "update", "delete"} => key \in K /\ y = x
    BY <1>1
  <2>3. key \in K => x \in S
    BY DEF InsertsOf
  <2>4. Recording!RowAfter(t.rows[key], x) = C[key]
    BY <2>1 DEF Recording!RowAfter
  <2>. HIDE DEF x
  <2>5. CASE key \in K
    <3>1. u.rows[key] = Recording!RowAfter(t.rows[key], x)
      BY <2>1, <2>2, <2>3, <2>5, RowMade
    <3>. QED
      BY <2>4, <2>5, <3>1
  <2>6. CASE key \notin K
    BY <2>2, <2>6, RowKept
  <2>. QED
    BY <2>5, <2>6
<1>. HIDE DEF u
<1>7. InsertedInto(t, u, K, C)
  BY <1>4, <1>5, <1>6 DEF InsertedInto
<1>. QED
  BY <1>2, <1>7 DEF u

(* Rows that come or go are agreed on entirely. *)
ReplacedIn(ts, us, K, C) ==
  /\ DOMAIN C = K /\ \A key \in K : C[key] \in RecordRows
  /\ \A key \in Recording!Keys : us[key] = IF key \in K THEN C[key] ELSE ts[key]

LEMMA MatchesReplaced ==
  ASSUME NEW ws, NEW K \in SUBSET Recording!Keys, NEW C,
         record \in [Recording!Keys -> RecordRows], NEW ts, NEW us, ReplacedIn(ts, us, K, C),
         \A key \in Recording!Keys :
           Agree(record[key], ts[key], Excused(ws, key, record[key].status))
  PROVE  /\ ReplacedIn(record, Recording!Applied(C, Recording!Fields), K, C)
         /\ Recording!Applied(C, Recording!Fields) \in [Recording!Keys -> RecordRows]
         /\ Matches(ws, Recording!Applied(C, Recording!Fields), us)
<1>. USE DEF ReplacedIn
<1>. DEFINE N == Recording!Applied(C, Recording!Fields)
<1>1. ASSUME NEW key \in Recording!Keys
      PROVE  N[key] = IF key \in K THEN C[key] ELSE record[key]
  <2>1. N[key] = IF key \in K THEN Recording!Edited(record[key], C[key], Recording!Fields)
                 ELSE record[key]
    BY DEF Recording!Applied
  <2>. HIDE DEF N
  <2>2. key \in K => Recording!Edited(record[key], C[key], Recording!Fields) = C[key]
    BY Replaced
  <2>. QED
    BY <2>1, <2>2
<1>2. N \in [Recording!Keys -> RecordRows]
  <2>1. N = [key \in Recording!Keys |-> N[key]]
    BY DEF Recording!Applied
  <2>. HIDE DEF N
  <2>. QED
    BY <1>1, <2>1
<1>. HIDE DEF N
<1>3. ASSUME NEW key \in Recording!Keys
      PROVE  Agree(N[key], us[key], Excused(ws, key, N[key].status))
  <2>1. CASE key \in K
    <3>1. N[key] = us[key]
      BY <1>1, <2>1
    <3>. QED
      BY <3>1 DEF Agree
  <2>2. CASE key \notin K
    BY <1>1, <2>2
  <2>. QED
    BY <2>1, <2>2
<1>4. Matches(ws, N, us)
  BY <1>3 DEF Matches
<1>5. ReplacedIn(record, N, K, C)
  BY <1>1
<1>. QED
  BY <1>2, <1>4, <1>5 DEF N

InsertPrepared(S, K, C) ==
  /\ K \subseteq Recording!Keys /\ DOMAIN C = K /\ InsertsOf(S, K, C)
  /\ \A key \in K : record[key] = Recording!NoRow
  /\ \A s \in K \cap Recording!Sets : Grouped[s] \subseteq K /\ K \cap Recording!Sets = {s}

LEMMA Inserts ==
  ASSUME RecordAssumptions, NEW ws, NEW S, NEW K, NEW C, InsertPrepared(S, K, C),
         Agreed(ws, record, tables, {})
  PROVE  /\ Fit(ws, S, C, Recording!Fields)
         /\ ReplacedIn(record, Recording!Applied(C, Recording!Fields), K, C)
<1>. USE DEF InsertPrepared
<1>. DEFINE N == Recording!Applied(C, Recording!Fields)
            u == Recording!Execute(tables, S)
<1>0. /\ record \in [Recording!Keys -> RecordRows] /\ Loadable(tables)
      /\ \A key \in Recording!Keys :
           Agree(record[key], tables.rows[key], Excused(ws, key, record[key].status))
  BY DEF Agreed
<1>1. tables \in TableStates /\ tables.rows \in [Recording!Keys -> RecordRows]
  BY <1>0 DEF Loadable, TableStates
<1>. HIDE DEF N, u
<1>2. /\ LegalStatements(S)
      /\ \A id : id \in u.states <=> id \in tables.states \/ id \in K \cap Ids
      /\ \A s, id : <<s, id>> \in u.items <=>
           <<s, id>> \in tables.items \/ (s \in K \cap Recording!Sets /\ id \in Grouped[s])
      /\ \A key \in Recording!Keys : u.rows[key] = IF key \in K THEN C[key] ELSE tables.rows[key]
  <2>1. LegalStatements(S) /\ InsertedInto(tables, u, K, C)
    BY <1>1, InsertExecuted DEF u
  <2>. QED
    BY <2>1 DEF InsertedInto
<1>3. u \in TableStates
  BY <1>1, <1>2, ExecuteType DEF u
<1>4. \A key \in K : /\ C[key] \in SomeRow /\ C[key] \in RecordRows /\ C[key] # Recording!NoRow
                     /\ tables.rows[key] = Recording!NoRow
  <2>1. \A row \in SomeRow : row # Recording!NoRow
    BY DEF SomeRow, RowStatuses, Recording!NoRow
  <2>. QED
    BY <1>0, <2>1 DEF InsertsOf, RecordRows, Agree
<1>5. /\ N \in [Recording!Keys -> RecordRows]
      /\ ReplacedIn(record, N, K, C)
      /\ Matches(ws, N, u.rows)
  <2>1. ReplacedIn(tables.rows, u.rows, K, C)
    BY <1>2, <1>4 DEF ReplacedIn
  <2>2. /\ ReplacedIn(record, N, K, C)
        /\ N \in [Recording!Keys -> RecordRows] /\ Matches(ws, N, u.rows)
    BY <1>0, <2>1, MatchesReplaced DEF N
  <2>. QED
    BY <2>2
<1>6. Loadable(u)
  <2>1. /\ Ids \subseteq Recording!Keys /\ Recording!Sets \subseteq Recording!Keys
        /\ \A s \in Recording!Sets : Grouped[s] \subseteq Ids
    BY DEF Recording!Keys, RecordAssumptions
  <2>2. \A key \in Ids \cup Recording!Sets :
          u.rows[key] # Recording!NoRow <=> tables.rows[key] # Recording!NoRow \/ key \in K
    BY <1>2, <1>4, <2>1
  <2>3. \A k \in Ids : u.rows[k] # Recording!NoRow <=> k \in u.states
    BY <1>0, <1>2, <2>2 DEF Loadable
  <2>4. ASSUME NEW s \in Recording!Sets, NEW k \in Ids
        PROVE  <<s, k>> \in u.items <=> u.rows[s] # Recording!NoRow /\ k \in Grouped[s]
    BY <1>0, <1>2, <2>2 DEF Loadable
  <2>5. ASSUME NEW s \in Recording!Sets, u.rows[s] # Recording!NoRow
        PROVE  \A k \in Grouped[s] : u.rows[k] # Recording!NoRow
    BY <1>0, <2>1, <2>2, <2>5 DEF Loadable
  <2>6. ASSUME NEW s \in Recording!Sets, NEW r \in Recording!Sets \ {s},
               u.rows[s] # Recording!NoRow, u.rows[r] # Recording!NoRow
        PROVE  Grouped[s] \cap Grouped[r] = {}
    <3>1. CASE s \in K
      <4>1. r \notin K /\ Grouped[s] \subseteq K /\ tables.rows[r] # Recording!NoRow
        BY <2>2, <2>6, <3>1
      <4>2. \A k \in Grouped[r] : tables.rows[k] # Recording!NoRow
        BY <1>0, <4>1 DEF Loadable
      <4>. QED
        BY <1>4, <4>1, <4>2
    <3>2. CASE r \in K
      <4>1. s \notin K /\ Grouped[r] \subseteq K /\ tables.rows[s] # Recording!NoRow
        BY <2>2, <2>6, <3>2
      <4>2. \A k \in Grouped[s] : tables.rows[k] # Recording!NoRow
        BY <1>0, <4>1 DEF Loadable
      <4>. QED
        BY <1>4, <4>1, <4>2
    <3>3. CASE s \notin K /\ r \notin K
      <4>1. tables.rows[s] # Recording!NoRow /\ tables.rows[r] # Recording!NoRow
        BY <2>2, <2>6, <3>3
      <4>. QED
        BY <1>0, <4>1 DEF Loadable
    <3>. QED
      BY <3>1, <3>2, <3>3
  <2>. QED
    BY <1>0, <1>3, <2>3, <2>4, <2>5, <2>6 DEF Loadable
<1>. QED
  BY <1>2, <1>5, <1>6 DEF N, u, Fit

(* Rows that go, with the states and items that are theirs. *)
LEMMA Deletes ==
  ASSUME RecordAssumptions, NEW ws, NEW K \in SUBSET Recording!Keys, NEW C,
         C = [key \in K |-> Recording!NoRow], NEW S,
         \A x : x \in S <=> \E key \in K : x = Recording!Delete(key),
         record \in [Recording!Keys -> RecordRows], Loadable(tables),
         \A s \in Recording!Sets \ K :
           tables.rows[s] # Recording!NoRow => Grouped[s] \cap K = {},
         \A key \in Recording!Keys :
           Agree(record[key], tables.rows[key], Excused(ws, key, record[key].status))
  PROVE  /\ LegalStatements(S)
         /\ Recording!Applied(C, Recording!Fields) \in [Recording!Keys -> RecordRows]
         /\ \A key \in Recording!Keys :
              Recording!Applied(C, Recording!Fields)[key] =
                IF key \in K THEN Recording!NoRow ELSE record[key]
         /\ Loadable(Recording!Execute(tables, S))
         /\ Matches(ws, Recording!Applied(C, Recording!Fields), Recording!Execute(tables, S).rows)
<1>. DEFINE N == Recording!Applied(C, Recording!Fields)
            u == Recording!Execute(tables, S)
<1>1. tables \in TableStates /\ tables.rows \in [Recording!Keys -> RecordRows]
  BY DEF Loadable, TableStates
<1>. HIDE DEF N, u
<1>2. /\ \A x \in S : x.what = "delete" /\ x.key \in K /\ x = Recording!Delete(x.key)
      /\ \A key \in K : \E x \in S : x.what = "delete" /\ x.key = key /\ x = Recording!Delete(key)
  <2>1. \A key : Recording!Delete(key).what = "delete" /\ Recording!Delete(key).key = key
    BY DEF Recording!Delete
  <2>2. ASSUME NEW x \in S
        PROVE  x.what = "delete" /\ x.key \in K /\ x = Recording!Delete(x.key)
    BY <2>1
  <2>3. ASSUME NEW key \in K PROVE Recording!Delete(key) \in S
    OBVIOUS
  <2>. QED
    BY <2>1, <2>2, <2>3
<1>3. LegalStatements(S)
  BY <1>2 DEF LegalStatements
<1>4. u \in TableStates
  BY <1>1, <1>3, ExecuteType DEF u
<1>5. ASSUME NEW id PROVE id \in u.states <=> id \in tables.states /\ id \notin K
  <2>1. id \in u.states <=>
          /\ id \in tables.states \/ \E x \in S : x.what = "state" /\ x.key = id
          /\ ~ \E x \in S : x.what = "delete" /\ x.key = id
    BY ExecuteStates DEF u
  <2>. QED
    BY <1>2, <2>1
<1>6. ASSUME NEW s, NEW id
      PROVE  <<s, id>> \in u.items <=> <<s, id>> \in tables.items /\ s \notin K /\ id \notin K
  <2>1. <<s, id>> \in u.items <=>
          /\ <<s, id>> \in tables.items \/ \E x \in S : x.what = "item" /\ <<s, id>> = <<x.key, x.item>>
          /\ ~ \E x \in S : x.what = "delete" /\ (x.key = s \/ x.key = id)
    BY ExecuteItems DEF u
  <2>. QED
    BY <1>2, <2>1
<1>7. ASSUME NEW key \in Recording!Keys
      PROVE  u.rows[key] = IF key \in K THEN Recording!NoRow ELSE tables.rows[key]
  <2>1. CASE key \in K
    <3>1. PICK x \in S : x.what = "delete" /\ x.key = key /\ x = Recording!Delete(key)
      BY <1>2, <2>1
    <3>2. \A y \in S : y.key = key => y = x
      BY <1>2, <3>1
    <3>3. u.rows[key] = Recording!RowAfter(tables.rows[key], x)
      BY <3>1, <3>2, RowMade DEF u
    <3>. QED
      BY <2>1, <3>1, <3>3 DEF Recording!RowAfter
  <2>2. CASE key \notin K
    <3>1. \A x \in S : x.key # key
      BY <1>2, <2>2
    <3>. QED
      BY <2>2, <3>1, RowKept DEF u
  <2>. QED
    BY <2>1, <2>2
<1>8. /\ N \in [Recording!Keys -> RecordRows]
      /\ \A key \in Recording!Keys : N[key] = IF key \in K THEN Recording!NoRow ELSE record[key]
      /\ Matches(ws, N, u.rows)
  <2>1. DOMAIN C = K /\ \A key \in K : C[key] = Recording!NoRow /\ C[key] \in RecordRows
    BY DEF RecordRows
  <2>2. \A key \in Recording!Keys : u.rows[key] = IF key \in K THEN C[key] ELSE tables.rows[key]
    BY <1>7, <2>1
  <2>3. ReplacedIn(tables.rows, u.rows, K, C)
    BY <2>1, <2>2 DEF ReplacedIn
  <2>4. /\ ReplacedIn(record, N, K, C)
        /\ N \in [Recording!Keys -> RecordRows] /\ Matches(ws, N, u.rows)
    BY <2>3, MatchesReplaced DEF N
  <2>. QED
    BY <2>1, <2>4 DEF ReplacedIn
<1>9. Loadable(u)
  <2>1. /\ Ids \subseteq Recording!Keys /\ Recording!Sets \subseteq Recording!Keys
        /\ \A s \in Recording!Sets : Grouped[s] \subseteq Ids
    BY DEF Recording!Keys, RecordAssumptions
  <2>2. \A key \in Ids \cup Recording!Sets :
          u.rows[key] # Recording!NoRow <=> tables.rows[key] # Recording!NoRow /\ key \notin K
    BY <1>7, <2>1
  <2>3. \A k \in Ids : u.rows[k] # Recording!NoRow <=> k \in u.states
    BY <1>5, <2>2 DEF Loadable
  <2>4. ASSUME NEW s \in Recording!Sets, NEW k \in Ids
        PROVE  <<s, k>> \in u.items <=> u.rows[s] # Recording!NoRow /\ k \in Grouped[s]
    BY <1>6, <2>2 DEF Loadable
  <2>5. ASSUME NEW s \in Recording!Sets, u.rows[s] # Recording!NoRow
        PROVE  \A k \in Grouped[s] : u.rows[k] # Recording!NoRow
    BY <2>1, <2>2, <2>5 DEF Loadable
  <2>6. ASSUME NEW s \in Recording!Sets, NEW r \in Recording!Sets \ {s},
               u.rows[s] # Recording!NoRow, u.rows[r] # Recording!NoRow
        PROVE  Grouped[s] \cap Grouped[r] = {}
    BY <2>2, <2>6 DEF Loadable
  <2>. QED
    BY <1>4, <2>3, <2>4, <2>5, <2>6 DEF Loadable
<1>. QED
  BY <1>3, <1>8, <1>9 DEF N, u

-----------------------------------------------------------------------------
(* The loop prepares a transaction. *)
TrackersType == trackers \in [Ids -> {"none", "running", "flushing", "exiting"}]

LEMMA IdleAgrees ==
  ASSUME RecordInv, writing.step # "apply" PROVE Agreed(trackers, record, tables, Left)
BY DEF RecordInv, Agreed

LEMMA NothingLeft == ASSUME Recording!Idle PROVE Left = {} /\ writing.step = "none"
BY DEF Recording!Idle, Recording!Nothing, Left

(* What may be prepared, and the step that prepares it. *)
MayPrepare(ws, S, C, F, A, f) ==
  /\ A \subseteq Ids /\ f \in {"reply", "error", "unwritten"} /\ DOMAIN C \subseteq Recording!Keys
  /\ Fit(ws, S, C, F)
  /\ \A id \in Ids : id \in A \/ ws[id] # "none" => Recording!Applied(C, F)[id] # Recording!NoRow
  /\ f # "reply" =>
       \A key \in DOMAIN C : /\ record[key] # Recording!NoRow
                             /\ key \in Ids => ws[key] = "none"
                             /\ f = "error" => key \in Ids
  /\ Agreed(ws, record, tables, IF f = "unwritten" THEN DOMAIN C \cap Ids ELSE {})

Prepares(S, C, F, A, f) ==
  /\ writing' = [step |-> "write", statements |-> S, changed |-> C, fields |-> F,
                 starts |-> A, failing |-> f]
  /\ record' = record /\ tables' = tables /\ TrackersType'
  /\ \A id \in Ids : trackers'[id] # "none" => record[id] # Recording!NoRow

LEMMA Prepare ==
  ASSUME NEW S, NEW C, NEW F, NEW A, NEW f,
         Prepares(S, C, F, A, f), MayPrepare(trackers', S, C, F, A, f)
  PROVE  RecordInv'
<1>. USE DEF Prepares, MayPrepare
<1>1. /\ writing'.step = "write" /\ writing'.statements = S /\ writing'.changed = C
      /\ writing'.fields = F /\ writing'.starts = A /\ writing'.failing = f
  OBVIOUS
<1>2. RowsToBe' = Recording!Applied(C, F)
  BY <1>1 DEF RowsToBe, Recording!Applied
<1>3. Left' = IF f = "unwritten" THEN DOMAIN C \cap Ids ELSE {}
  BY <1>1 DEF Left
<1>4. Recording!Written(writing.statements)' = Recording!Execute(tables, S)
  BY <1>1 DEF Recording!Written
<1>. DEFINE N == Recording!Applied(C, F)
            u == Recording!Execute(tables, S)
<1>5. /\ LegalStatements(S) /\ N \in [Recording!Keys -> RecordRows]
      /\ Loadable(u) /\ Matches(trackers', N, u.rows)
  BY DEF Fit
<1>. HIDE DEF N, u
<1>6. LoopTypes'
  <2>1. RowsToBe' = N
    BY <1>2 DEF N
  <2>2. \A id \in Ids : id \in A \/ trackers'[id] # "none" => N[id] # Recording!NoRow
    BY DEF N
  <2>3. DOMAIN writing' = {"step", "statements", "changed", "fields", "starts", "failing"}
    OBVIOUS
  <2>. QED
    BY <1>1, <1>5, <2>1, <2>2, <2>3 DEF LoopTypes
<1>7. Prepared(Recording!Written(writing.statements))'
  BY <1>2, <1>4, <1>5 DEF Prepared, N, u
<1>8. FailsItsRow'
  BY <1>1 DEF FailsItsRow
<1>9. /\ record \in [Recording!Keys -> RecordRows] /\ Loadable(tables)
      /\ \A key \in Recording!Keys :
           Agree(record[key], tables.rows[key],
                 Excused(trackers', key, record[key].status)
                   \cup (IF key \in Left' THEN {"downloaded"} ELSE {}))
  BY <1>3 DEF Agreed
<1>. QED
  BY <1>1, <1>6, <1>7, <1>8, <1>9 DEF RecordInv, TrackersType

(* A status is written with the whole row. *)
WithStatus(K, status) == [key \in K |-> [record[key] EXCEPT !.status = status]]
UpdatedRows(K, C) == {Recording!UpdateRow(key, C[key]) : key \in K}

LEMMA StatusFits ==
  ASSUME RecordAssumptions, NEW ws, NEW K \in SUBSET Recording!Keys, NEW status \in RowStatuses,
         NEW C, C = WithStatus(K, status), NEW S, S = UpdatedRows(K, C),
         \A key \in K : record[key] # Recording!NoRow,
         NEW X \in SUBSET (K \cap Ids), Agreed(ws, record, tables, X)
  PROVE  Fit(ws, S, C, {"status"}) /\ SameRows(C, {"status"})
<1>. DEFINE G == [key \in K |-> IF key \in Recording!Sets THEN Recording!SetColumns
                                ELSE Recording!RowColumns]
            F == {"status"}
<1>1. record \in [Recording!Keys -> RecordRows]
  BY DEF Agreed
<1>2. ASSUME NEW key \in K
      PROVE  /\ C[key] \in SomeRow /\ C[key].status = status
             /\ C[key].name = record[key].name /\ C[key].pinned = record[key].pinned
             /\ C[key].downloaded = record[key].downloaded
  <2>1. record[key] \in SomeRow
    BY <1>1 DEF RecordRows
  <2>2. C[key] = [record[key] EXCEPT !.status = status]
    BY DEF WithStatus
  <2>. QED
    BY <2>1, <2>2 DEF SomeRow
<1>3. UpdatesOf(S, K, C, G)
  <2>1. \A key \in K : Recording!UpdateRow(key, C[key]) = Recording!Update(key, C[key], G[key])
    BY DEF Recording!UpdateRow
  <2>2. \A x : x \in S <=> \E key \in K : x = Recording!UpdateRow(key, C[key])
    BY DEF UpdatedRows
  <2>3. \A x : x \in S <=> \E key \in K : x = Recording!Update(key, C[key], G[key])
    BY <2>1, <2>2
  <2>. QED
    BY <1>2, <2>3 DEF UpdatesOf
<1>4. \A key \in K : F \subseteq G[key] /\ (key \in Ids => "downloaded" \in G[key])
  BY DEF RecordAssumptions, Recording!SetColumns, Recording!RowColumns
<1>5. DOMAIN C = K
  BY DEF WithStatus
<1>. HIDE DEF G
<1>6. UpdatesFit(K, C, F, G, X)
  BY <1>2, <1>4, <1>5 DEF UpdatesFit
<1>. HIDE DEF F
<1>7. Fit(ws, S, C, F) /\ SameRows(C, F)
  BY <1>3, <1>6, Updates
<1>. QED
  BY <1>7 DEF F

(* A pin or a name is written alone, that of a set with its status. *)
MayEdit(key, field, value) ==
  /\ key \in Recording!Keys /\ record[key] # Recording!NoRow
  /\ \/ field = "pinned" /\ value \in BOOLEAN
     \/ field = "name" /\ value \in Nat /\ key \notin Recording!Sets
OneRow(key, c) == [k \in {key} |-> c]
OneUpdate(key, c, field) ==
  {Recording!Update(key, c, IF key \in Recording!Sets THEN Recording!SetColumns ELSE {field})}

LEMMA EditFits ==
  ASSUME RecordAssumptions, NEW ws, NEW key, NEW field, NEW value, MayEdit(key, field, value),
         NEW c, c = [record[key] EXCEPT ![field] = value],
         NEW C, C = OneRow(key, c), NEW S, S = OneUpdate(key, c, field),
         Agreed(ws, record, tables, {})
  PROVE  Fit(ws, S, C, {field}) /\ SameRows(C, {field})
<1>. USE DEF MayEdit, OneRow, OneUpdate
<1>. DEFINE G == [k \in {key} |-> IF key \in Recording!Sets THEN Recording!SetColumns ELSE {field}]
            F == {field}
            K == {key}
            X == {}
<1>1. record \in [Recording!Keys -> RecordRows]
  BY DEF Agreed
<1>2. /\ c \in SomeRow /\ c.status = record[key].status
      /\ field = "name" \/ c.name = record[key].name
      /\ field = "pinned" \/ c.pinned = record[key].pinned
      /\ c.downloaded = record[key].downloaded
  <2>1. record[key] \in SomeRow
    BY <1>1 DEF RecordRows
  <2>2. CASE field = "pinned"
    <3>1. c = [record[key] EXCEPT !.pinned = value] /\ value \in BOOLEAN
      BY <2>2
    <3>. QED
      BY <2>1, <2>2, <3>1 DEF SomeRow
  <2>3. CASE field = "name"
    <3>1. c = [record[key] EXCEPT !.name = value] /\ value \in Nat
      BY <2>3
    <3>. QED
      BY <2>1, <2>3, <3>1 DEF SomeRow
  <2>. QED
    BY <2>2, <2>3
<1>3. C[key] = c /\ G[key] = (IF key \in Recording!Sets THEN Recording!SetColumns ELSE {field})
  OBVIOUS
<1>4. DOMAIN C = K
  OBVIOUS
<1>5. F \in SUBSET {"status", "name", "pinned"} /\ F \subseteq G[key] /\ "status" \notin F
  BY DEF Recording!SetColumns
<1>. HIDE DEF G
<1>6. UpdatesOf(S, K, C, G)
  BY <1>2, <1>3 DEF UpdatesOf
<1>7. UpdatesFit(K, C, F, G, X)
  BY <1>2, <1>3, <1>4, <1>5 DEF UpdatesFit
<1>. HIDE DEF F, K, X
<1>8. Agreed(ws, record, tables, X)
  BY DEF X
<1>9. Fit(ws, S, C, F) /\ SameRows(C, F)
  BY <1>6, <1>7, <1>8, Updates
<1>. QED
  BY <1>9 DEF F

-----------------------------------------------------------------------------
(* The steps of the loop. *)
LEMMA LoopStarts ==
  ASSUME RecordInv, Recording!Idle
  PROVE  /\ record \in [Recording!Keys -> RecordRows] /\ TrackersType /\ Loadable(tables)
         /\ Agreed(trackers, record, tables, {})
         /\ \A id \in Ids : trackers[id] # "none" => record[id] # Recording!NoRow
BY IdleAgrees, NothingLeft DEF RecordInv, TrackersType

LEMMA AgreedMore ==
  ASSUME NEW ws, NEW rs, NEW t, NEW X, Agreed(ws, rs, t, {})
  PROVE  Agreed(ws, rs, t, X)
BY DEF Agreed, Agree

MayChange(ws, K, A, f) ==
  /\ K \subseteq Recording!Keys /\ A \subseteq Ids /\ f \in {"reply", "error", "unwritten"}
  /\ \A key \in K : record[key] # Recording!NoRow
  /\ \A id \in Ids : id \in A \/ ws[id] # "none" => record[id] # Recording!NoRow
  /\ f # "reply" => \A key \in K \cap Ids : ws[key] = "none"
  /\ f = "error" => K \subseteq Ids
  /\ Agreed(ws, record, tables, IF f = "unwritten" THEN K \cap Ids ELSE {})

LEMMA StatusPrepared ==
  ASSUME RecordAssumptions, NEW ws, NEW K, NEW status \in RowStatuses, NEW A, NEW f,
         MayChange(ws, K, A, f)
  PROVE  MayPrepare(ws, UpdatedRows(K, WithStatus(K, status)), WithStatus(K, status), {"status"}, A, f)
<1>. DEFINE C == WithStatus(K, status)
            S == UpdatedRows(K, C)
            X == IF f = "unwritten" THEN K \cap Ids ELSE {}
<1>1. DOMAIN C = K
  BY DEF WithStatus
<1>2. X \in SUBSET (K \cap Ids)
  OBVIOUS
<1>3. Agreed(ws, record, tables, X)
  BY DEF MayChange
<1>. HIDE DEF X
<1>4. Fit(ws, S, C, {"status"}) /\ SameRows(C, {"status"})
  BY <1>2, <1>3, StatusFits DEF MayChange
<1>. HIDE DEF C, S
<1>5. \A id \in Ids : id \in A \/ ws[id] # "none" =>
                        Recording!Applied(C, {"status"})[id] # Recording!NoRow
  BY <1>4 DEF SameRows, Recording!Keys, MayChange
<1>6. MayPrepare(ws, S, C, {"status"}, A, f)
  BY <1>1, <1>3, <1>4, <1>5 DEF MayPrepare, X, MayChange
<1>. QED
  BY <1>6 DEF C, S

LEMMA SetsStatus ==
  ASSUME NEW K, NEW status
  PROVE  Recording!SetStatus(K, status) =
           [step |-> "write", statements |-> UpdatedRows(K, WithStatus(K, status)),
            changed |-> WithStatus(K, status), fields |-> {"status"}, starts |-> {},
            failing |-> "reply"]
BY DEF Recording!SetStatus, Recording!Writing, UpdatedRows, WithStatus

LEMMA StatusIsThere ==
  ASSUME NEW row \in RecordRows, row.status # "none" PROVE row # Recording!NoRow
BY RowProperties

LEMMA CommandPrepares ==
  ASSUME RecordAssumptions, RecordInv, Recording!Idle, NEW key \in Recording!Keys,
         NEW from, "none" \notin from, NEW to \in RowStatuses, Recording!Command(key, from, to)
  PROVE  RecordInv'
<1>. DEFINE K == Recording!Targets(key, from)
            C == WithStatus(K, to)
            S == UpdatedRows(K, C)
<1>1. /\ record \in [Recording!Keys -> RecordRows] /\ TrackersType
      /\ Agreed(trackers, record, tables, {})
      /\ \A id \in Ids : trackers[id] # "none" => record[id] # Recording!NoRow
  BY LoopStarts
<1>2. K \in SUBSET Recording!Keys /\ \A k \in K : record[k].status \in from
  BY DEF Recording!Targets, Recording!Keys, RecordAssumptions
<1>3. writing' = Recording!SetStatus(K, to)
      /\ record' = record /\ tables' = tables /\ trackers' = trackers
  BY DEF Recording!Command
<1>. HIDE DEF K
<1>4. \A k \in K : record[k] # Recording!NoRow
  BY <1>1, <1>2, StatusIsThere
<1>8. MayChange(trackers, K, {}, "reply")
  BY <1>1, <1>2, <1>4 DEF MayChange
<1>5. MayPrepare(trackers, S, C, {"status"}, {}, "reply")
  BY <1>8, StatusPrepared
<1>. HIDE DEF C, S
<1>6. Prepares(S, C, {"status"}, {}, "reply")
  BY <1>1, <1>3, SetsStatus DEF Prepares, C, S, TrackersType
<1>7. MayPrepare(trackers', S, C, {"status"}, {}, "reply")
  BY <1>3, <1>5
<1>. QED
  BY <1>6, <1>7, Prepare

LEMMA StartPrepares ==
  ASSUME RecordAssumptions, RecordInv, Recording!Idle, NEW id \in Ids, Recording!Start(id)
  PROVE  RecordInv'
<1>. DEFINE K == {id}
            C == WithStatus(K, "active")
            S == UpdatedRows(K, C)
<1>1. /\ record \in [Recording!Keys -> RecordRows] /\ TrackersType
      /\ Agreed(trackers, record, tables, {})
      /\ \A k \in Ids : trackers[k] # "none" => record[k] # Recording!NoRow
  BY LoopStarts
<1>2. K \in SUBSET Recording!Keys /\ K \subseteq Ids
  BY DEF Recording!Keys
<1>3. writing' = [Recording!SetStatus(K, "active") EXCEPT !.starts = {id}, !.failing = "error"]
      /\ record' = record /\ tables' = tables /\ trackers' = trackers
      /\ record[id].status = "queued" /\ trackers[id] = "none"
  BY DEF Recording!Start
<1>4. record[id] # Recording!NoRow /\ \A k \in K : record[k] # Recording!NoRow
  BY <1>1, <1>2, <1>3, StatusIsThere
<1>5. \A k \in K \cap Ids : trackers[k] = "none"
  BY <1>3
<1>6. \A k \in Ids : k \in {id} \/ trackers[k] # "none" => record[k] # Recording!NoRow
  BY <1>1, <1>4
<1>7. "active" \in RowStatuses
  BY DEF RowStatuses
<1>. HIDE DEF K
<1>11. MayChange(trackers, K, {id}, "error")
  BY <1>1, <1>2, <1>4, <1>5, <1>6 DEF MayChange
<1>8. MayPrepare(trackers, S, C, {"status"}, {id}, "error")
  BY <1>7, <1>11, StatusPrepared
<1>. HIDE DEF C, S
<1>9. Prepares(S, C, {"status"}, {id}, "error")
  BY <1>1, <1>3, SetsStatus DEF Prepares, C, S, TrackersType
<1>10. MayPrepare(trackers', S, C, {"status"}, {id}, "error")
  BY <1>3, <1>8
<1>. QED
  BY <1>9, <1>10, Prepare

LEMMA ExtractPrepares ==
  ASSUME RecordAssumptions, RecordInv, Recording!Idle, NEW s \in Recording!Sets,
         Recording!StartExtract(s) \/ Recording!FinishExtract(s)
  PROVE  RecordInv'
<1>1. PICK status \in RowStatuses, f \in {"reply", "unwritten"} :
        /\ writing' = [Recording!SetStatus({s}, status) EXCEPT !.failing = f]
        /\ record' = record /\ tables' = tables /\ trackers' = trackers
        /\ record[s].status # "none"
  <2>1. CASE Recording!StartExtract(s)
    <3>1. /\ writing' = Recording!SetStatus({s}, "extracting")
          /\ record' = record /\ tables' = tables /\ trackers' = trackers
          /\ record[s].status # "none"
      BY <2>1 DEF Recording!StartExtract
    <3>2. Recording!SetStatus({s}, "extracting") =
            [Recording!SetStatus({s}, "extracting") EXCEPT !.failing = "reply"]
      BY SetsStatus
    <3>. QED
      BY <3>1, <3>2 DEF RowStatuses
  <2>2. CASE Recording!FinishExtract(s)
    BY <2>2 DEF Recording!FinishExtract, RowStatuses
  <2>. QED
    BY <2>1, <2>2
<1>. DEFINE K == {s}
            C == WithStatus(K, status)
            S == UpdatedRows(K, C)
            X == IF f = "unwritten" THEN K \cap Ids ELSE {}
<1>2. /\ record \in [Recording!Keys -> RecordRows] /\ TrackersType
      /\ Agreed(trackers, record, tables, {})
      /\ \A k \in Ids : trackers[k] # "none" => record[k] # Recording!NoRow
  BY LoopStarts
<1>3. K \in SUBSET Recording!Keys /\ K \cap Ids = {}
  BY DEF Recording!Keys, RecordAssumptions
<1>4. \A k \in K : record[k] # Recording!NoRow
  BY <1>1, <1>2, <1>3, StatusIsThere
<1>5. Agreed(trackers, record, tables, X)
  BY <1>2, AgreedMore
<1>6. MayChange(trackers, K, {}, f)
  BY <1>2, <1>3, <1>4, <1>5 DEF MayChange
<1>. HIDE DEF K
<1>9. MayPrepare(trackers, S, C, {"status"}, {}, f)
  BY <1>6, StatusPrepared
<1>. HIDE DEF C, S
<1>7. Prepares(S, C, {"status"}, {}, f)
  BY <1>1, <1>2, SetsStatus DEF Prepares, C, S, K, TrackersType
<1>8. MayPrepare(trackers', S, C, {"status"}, {}, f)
  BY <1>1, <1>9
<1>. QED
  BY <1>7, <1>8, Prepare

LEMMA FinishPrepares ==
  ASSUME RecordAssumptions, RecordInv, Recording!Idle, NEW id \in Ids, Recording!Finish(id)
  PROVE  RecordInv'
<1>1. /\ record \in [Recording!Keys -> RecordRows] /\ TrackersType
      /\ Agreed(trackers, record, tables, {})
      /\ \A k \in Ids : trackers[k] # "none" => record[k] # Recording!NoRow
  BY LoopStarts
<1>. DEFINE K == {id}
<1>2. /\ trackers[id] = "exiting" /\ trackers' = [trackers EXCEPT ![id] = "none"]
      /\ record' = record /\ tables' = tables
  BY DEF Recording!Finish
<1>3. PICK status \in IF record[id].status = "active" THEN {"completed", "error"}
                      ELSE {record[id].status} :
        LET row == [record[id] EXCEPT !.status = status]
        IN writing' = [Recording!Writing(Recording!ExitWritten(id, row), [key \in {id} |-> row],
                                         {"status"}) EXCEPT !.failing = "unwritten"]
  BY DEF Recording!Finish
<1>. DEFINE C == WithStatus(K, status)
            S == UpdatedRows(K, C)
            row == [record[id] EXCEPT !.status = status]
<1>4. record[id] # Recording!NoRow /\ record[id] \in SomeRow
  BY <1>1, <1>2 DEF RecordRows, Recording!Keys
<1>5. status \in RowStatuses
  BY <1>4 DEF SomeRow, RowStatuses
<1>6. C = [key \in {id} |-> row]
  BY DEF WithStatus
<1>7. S = Recording!ExitWritten(id, row)
  BY <1>6 DEF UpdatedRows, Recording!ExitWritten
<1>8. K \subseteq Recording!Keys /\ K \subseteq Ids
  BY DEF Recording!Keys
<1>. HIDE DEF row, C, S
<1>9. writing' = [step |-> "write", statements |-> S, changed |-> C, fields |-> {"status"},
                  starts |-> {}, failing |-> "unwritten"]
  BY <1>3, <1>6, <1>7 DEF Recording!Writing, row
<1>10. /\ trackers' \in [Ids -> {"none", "running", "flushing", "exiting"}]
       /\ trackers'[id] = "none" /\ \A k \in Ids \ {id} : trackers'[k] = trackers[k]
  BY <1>1, <1>2 DEF TrackersType
<1>11. \A k \in Ids : trackers'[k] # "none" => record[k] # Recording!NoRow
  BY <1>1, <1>10
<1>12. Prepares(S, C, {"status"}, {}, "unwritten")
  BY <1>2, <1>9, <1>10, <1>11 DEF Prepares, TrackersType
<1>13. Agreed(trackers', record, tables, {id})
  <2>1. ASSUME NEW key \in Recording!Keys
        PROVE  Agree(record[key], tables.rows[key],
                     Excused(trackers', key, record[key].status)
                       \cup (IF key \in {id} THEN {"downloaded"} ELSE {}))
    <3>1. Agree(record[key], tables.rows[key], Excused(trackers, key, record[key].status))
      BY <1>1 DEF Agreed
    <3>. DEFINE a == Excused(trackers, key, record[key].status)
                b == Excused(trackers', key, record[key].status)
                       \cup (IF key \in {id} THEN {"downloaded"} ELSE {})
    <3>2. ("status" \in a => "status" \in b) /\ ("downloaded" \in a => "downloaded" \in b)
      BY <1>10 DEF Excused
    <3>. HIDE DEF a, b
    <3>3. Agree(record[key], tables.rows[key], b)
      BY <3>1, <3>2 DEF Agree, a
    <3>. QED
      BY <3>3 DEF b
  <2>. QED
    BY <1>1, <2>1 DEF Agreed
<1>14. MayChange(trackers', K, {}, "unwritten")
  BY <1>4, <1>8, <1>10, <1>11, <1>13 DEF MayChange
<1>15. MayPrepare(trackers', S, C, {"status"}, {}, "unwritten")
  BY <1>5, <1>14, StatusPrepared DEF C, S
<1>. QED
  BY <1>12, <1>15, Prepare

LEMMA EditPrepares ==
  ASSUME RecordAssumptions, RecordInv, Recording!Idle,
         NEW key, NEW field, NEW value, MayEdit(key, field, value),
         Recording!Edit(key, field, value), UNCHANGED <<record, tables, trackers>>
  PROVE  RecordInv'
<1>1. /\ record \in [Recording!Keys -> RecordRows] /\ TrackersType
      /\ Agreed(trackers, record, tables, {})
      /\ \A k \in Ids : trackers[k] # "none" => record[k] # Recording!NoRow
  BY LoopStarts
<1>. DEFINE c == [record[key] EXCEPT ![field] = value]
            C == OneRow(key, c)
            S == OneUpdate(key, c, field)
            F == {field}
<1>2. writing' = [step |-> "write", statements |-> S, changed |-> C, fields |-> F,
                  starts |-> {}, failing |-> "reply"]
  BY DEF Recording!Edit, Recording!Writing, OneRow, OneUpdate
<1>3. Fit(trackers, S, C, F) /\ SameRows(C, F)
  BY <1>1, EditFits
<1>4. DOMAIN C \subseteq Recording!Keys
  BY DEF OneRow, MayEdit
<1>. HIDE DEF c, C, S, F
<1>5. Prepares(S, C, F, {}, "reply")
  BY <1>1, <1>2 DEF Prepares, TrackersType
<1>6. \A id \in Ids : trackers[id] # "none" => Recording!Applied(C, F)[id] # Recording!NoRow
  BY <1>1, <1>3 DEF SameRows, Recording!Keys
<1>7. MayPrepare(trackers, S, C, F, {}, "reply")
  BY <1>1, <1>3, <1>4, <1>6 DEF MayPrepare
<1>8. MayPrepare(trackers', S, C, F, {}, "reply")
  BY <1>7
<1>. QED
  BY <1>5, <1>8, Prepare

LEMMA NamesPrepare ==
  ASSUME RecordAssumptions, RecordInv, Recording!Idle
  PROVE  /\ \A key \in Recording!Keys : Recording!SetPin(key) => RecordInv'
         /\ \A id \in Ids : Recording!ClaimFilename(id) => RecordInv'
<1>1. /\ record \in [Recording!Keys -> RecordRows]
      /\ \A k \in Ids : trackers[k] # "none" => record[k] # Recording!NoRow
  BY LoopStarts
<1>2. ASSUME NEW key \in Recording!Keys, Recording!SetPin(key) PROVE RecordInv'
  <2>1. /\ record[key] # Recording!NoRow /\ Recording!Edit(key, "pinned", ~record[key].pinned)
        /\ UNCHANGED <<record, tables, trackers>>
    BY <1>2 DEF Recording!SetPin, Recording!Has, Recording!Edit
  <2>. DEFINE value == ~record[key].pinned
              field == "pinned"
  <2>2. value \in BOOLEAN
    OBVIOUS
  <2>. HIDE DEF value, field
  <2>3. field = "pinned" /\ Recording!Edit(key, field, value)
    BY <2>1 DEF value, field
  <2>. QED
    BY <2>1, <2>2, <2>3, EditPrepares DEF MayEdit
<1>3. ASSUME NEW id \in Ids, Recording!ClaimFilename(id) PROVE RecordInv'
  <2>1. /\ trackers[id] = "running" /\ Recording!Edit(id, "name", record[id].name + 1)
        /\ UNCHANGED <<record, tables, trackers>>
    BY <1>3 DEF Recording!ClaimFilename, Recording!Edit
  <2>. DEFINE value == record[id].name + 1
              field == "name"
  <2>2. id \in Recording!Keys /\ id \notin Recording!Sets /\ record[id] # Recording!NoRow
    BY <1>1, <2>1 DEF RecordAssumptions, Recording!Keys
  <2>3. value \in Nat
    BY <1>1, <2>2 DEF RecordRows, SomeRow
  <2>. HIDE DEF value, field
  <2>4. field = "name" /\ Recording!Edit(id, field, value)
    BY <2>1 DEF value, field
  <2>. QED
    BY <2>1, <2>2, <2>3, <2>4, EditPrepares DEF MayEdit
<1>. QED
  BY <1>2, <1>3

LEMMA InsertPrepares ==
  ASSUME RecordAssumptions, RecordInv, Recording!Idle, NEW S, NEW K, NEW C,
         InsertPrepared(S, K, C), writing' = Recording!Writing(S, C, Recording!Fields),
         UNCHANGED <<record, tables, trackers>>
  PROVE  RecordInv'
<1>1. /\ record \in [Recording!Keys -> RecordRows] /\ TrackersType /\ Loadable(tables)
      /\ Agreed(trackers, record, tables, {})
      /\ \A k \in Ids : trackers[k] # "none" => record[k] # Recording!NoRow
  BY LoopStarts
<1>. DEFINE F == Recording!Fields
<1>3. Fit(trackers, S, C, F) /\ ReplacedIn(record, Recording!Applied(C, F), K, C)
  BY <1>1, Inserts
<1>4. writing' = [step |-> "write", statements |-> S, changed |-> C, fields |-> F,
                  starts |-> {}, failing |-> "reply"]
  BY DEF Recording!Writing
<1>. HIDE DEF F
<1>5. \A id \in Ids : trackers[id] # "none" => Recording!Applied(C, F)[id] # Recording!NoRow
  BY <1>1, <1>3 DEF InsertPrepared, ReplacedIn, Recording!Keys
<1>7. Prepares(S, C, F, {}, "reply")
  BY <1>1, <1>4 DEF Prepares, TrackersType
<1>8. MayPrepare(trackers, S, C, F, {}, "reply")
  BY <1>1, <1>3, <1>5 DEF MayPrepare, InsertPrepared
<1>9. MayPrepare(trackers', S, C, F, {}, "reply")
  BY <1>8
<1>. QED
  BY <1>7, <1>9, Prepare

LEMMA NewRowIsRow ==
  /\ Recording!NewRow("queued") \in SomeRow /\ Recording!NewRow("not_started") \in SomeRow
BY DEF Recording!NewRow, Recording!NoRow, SomeRow, RowStatuses

LEMMA AddPrepares ==
  ASSUME RecordAssumptions, RecordInv, Recording!Idle, NEW id \in Ids, Recording!Add(id)
  PROVE  RecordInv'
<1>. DEFINE row == Recording!NewRow("queued")
            C == [key \in {id} |-> row]
            S == Recording!InsertDownload(id)
            K == {id}
<1>1. /\ writing' = Recording!Writing(S, C, Recording!Fields)
      /\ UNCHANGED <<record, tables, trackers>> /\ record[id] = Recording!NoRow
  BY DEF Recording!Add, Recording!Has
<1>2. K \subseteq Ids /\ K \subseteq Recording!Keys /\ K \cap Recording!Sets = {}
  BY DEF Recording!Keys, RecordAssumptions
<1>3. row \in SomeRow
  BY NewRowIsRow
<1>. HIDE DEF row
<1>4. InsertsOf(S, K, C)
  <2>1. \A x : x \in S <=> x = Recording!Insert(id, row) \/ x = Recording!InsertState(id)
    BY DEF Recording!InsertDownload, row
  <2>2. /\ Recording!Insert(id, row).what = "insert" /\ Recording!Insert(id, row).key = id
        /\ Recording!InsertState(id).what = "state" /\ Recording!InsertState(id).key = id
    BY DEF Recording!Insert, Recording!InsertState
  <2>3. K = {id} /\ C[id] = row
    OBVIOUS
  <2>. HIDE DEF S, K, C
  <2>. QED
    BY <1>2, <1>3, <2>1, <2>2, <2>3 DEF InsertsOf
<1>5. InsertPrepared(S, K, C)
  BY <1>1, <1>2, <1>4 DEF InsertPrepared
<1>. HIDE DEF S, K, C
<1>. QED
  BY <1>1, <1>5, InsertPrepares

LEMMA AddSetPrepares ==
  ASSUME RecordAssumptions, RecordInv, Recording!Idle, NEW s \in Recording!Sets,
         Recording!AddSet(s)
  PROVE  RecordInv'
<1>. DEFINE K == {s} \cup Grouped[s]
            C == [key \in K |-> Recording!NewRow(IF key = s THEN "not_started" ELSE "queued")]
            S == Recording!InsertPackage(s)
<1>1. /\ writing' = Recording!Writing(S, C, Recording!Fields)
      /\ UNCHANGED <<record, tables, trackers>>
      /\ \A key \in K : record[key] = Recording!NoRow
  BY DEF Recording!AddSet, Recording!Has
<1>2. /\ Grouped[s] \subseteq Ids /\ s \notin Ids
      /\ K \subseteq Recording!Keys /\ K \cap Recording!Sets = {s} /\ K \cap Ids = Grouped[s]
  BY DEF Recording!Keys, RecordAssumptions
<1>. DEFINE set == Recording!NewRow("not_started")
            row == Recording!NewRow("queued")
<1>3. set \in SomeRow /\ row \in SomeRow
  BY NewRowIsRow
<1>4. DOMAIN C = K /\ C[s] = set /\ \A id \in Grouped[s] : C[id] = row
  BY <1>2
<1>5. \A x : x \in S <=>
        \/ x = Recording!Insert(s, set)
        \/ \E id \in Grouped[s] : \/ x = Recording!Insert(id, row)
                                  \/ x = Recording!InsertState(id)
                                  \/ x = Recording!InsertItem(s, id)
  BY DEF Recording!InsertPackage, Recording!InsertDownload
<1>6. /\ \A k, r : /\ Recording!Insert(k, r).what = "insert" /\ Recording!Insert(k, r).key = k
      /\ \A id : Recording!InsertState(id).what = "state" /\ Recording!InsertState(id).key = id
      /\ \A id : /\ Recording!InsertItem(s, id).what = "item" /\ Recording!InsertItem(s, id).key = s
                 /\ Recording!InsertItem(s, id).item = id
  BY DEF Recording!Insert, Recording!InsertState, Recording!InsertItem
<1>7. s \in K /\ \A key \in K : key = s \/ key \in Grouped[s]
  OBVIOUS
<1>. HIDE DEF S, K, C, set, row
<1>8. InsertsOf(S, K, C)
  <2>1. ASSUME NEW x \in S
        PROVE  /\ x.what \in {"insert", "state", "item"}
               /\ x.what = "insert" => x.key \in K /\ x = Recording!Insert(x.key, C[x.key])
               /\ x.what = "state" => x.key \in K \cap Ids
               /\ x.what = "item" => x.key \in K \cap Recording!Sets /\ x.item \in Grouped[x.key]
    <3>1. CASE x = Recording!Insert(s, set)
      BY <1>4, <1>6, <1>7, <3>1
    <3>2. CASE \E id \in Grouped[s] : \/ x = Recording!Insert(id, row)
                                      \/ x = Recording!InsertState(id)
                                      \/ x = Recording!InsertItem(s, id)
      <4>1. PICK id \in Grouped[s] : \/ x = Recording!Insert(id, row)
                                     \/ x = Recording!InsertState(id)
                                     \/ x = Recording!InsertItem(s, id)
        BY <3>2
      <4>2. id \in K \cap Ids /\ s \in K \cap Recording!Sets
        BY <1>2
      <4>3. CASE x = Recording!Insert(id, row)
        BY <1>4, <1>6, <4>2, <4>3
      <4>4. CASE x = Recording!InsertState(id)
        BY <1>6, <4>2, <4>4
      <4>5. CASE x = Recording!InsertItem(s, id)
        BY <1>6, <4>2, <4>5
      <4>. QED
        BY <4>1, <4>3, <4>4, <4>5
    <3>. QED
      BY <1>5, <3>1, <3>2
  <2>2. ASSUME NEW key \in K PROVE C[key] \in SomeRow /\ Recording!Insert(key, C[key]) \in S
    BY <1>3, <1>4, <1>5, <1>7
  <2>3. ASSUME NEW id \in K \cap Ids PROVE \E x \in S : x.what = "state" /\ x.key = id
    <3>1. Recording!InsertState(id) \in S
      BY <1>2, <1>5
    <3>. QED
      BY <1>6, <3>1
  <2>4. ASSUME NEW r \in K \cap Recording!Sets, NEW id \in Grouped[r]
        PROVE  \E x \in S : x.what = "item" /\ <<x.key, x.item>> = <<r, id>>
    <3>1. r = s /\ Recording!InsertItem(s, id) \in S
      BY <1>2, <1>5
    <3>. QED
      BY <1>6, <3>1
  <2>. QED
    BY <2>1, <2>2, <2>3, <2>4 DEF InsertsOf
<1>9. InsertPrepared(S, K, C)
  <2>1. \A r \in K \cap Recording!Sets : Grouped[r] \subseteq K /\ K \cap Recording!Sets = {r}
    BY <1>2
  <2>. QED
    BY <1>1, <1>2, <1>4, <1>8, <2>1 DEF InsertPrepared
<1>. QED
  BY <1>1, <1>9, InsertPrepares DEF K

LEMMA RemovePrepares ==
  ASSUME RecordAssumptions, RecordInv, Recording!Idle, NEW key \in Recording!Keys,
         Recording!RemoveRow(key)
  PROVE  RecordInv'
<1>1. /\ record \in [Recording!Keys -> RecordRows] /\ TrackersType /\ Loadable(tables)
      /\ Agreed(trackers, record, tables, {})
      /\ \A k \in Ids : trackers[k] # "none" => record[k] # Recording!NoRow
  BY LoopStarts
<1>. DEFINE F == Recording!Fields
            K == IF key \in Recording!Sets THEN {key} \cup Grouped[key] ELSE {key}
            C == [k \in K |-> Recording!NoRow]
            S == {Recording!Delete(k) : k \in K}
<1>2. /\ writing' = Recording!Writing(S, C, F) /\ UNCHANGED <<record, tables, trackers>>
      /\ record[key] # Recording!NoRow /\ Recording!SetsOf(key) = {}
      /\ \A k \in K \cap Ids : trackers[k] = "none"
  BY DEF Recording!RemoveRow, Recording!Has, Recording!DeletePackage
<1>3. K \in SUBSET Recording!Keys
  BY DEF Recording!Keys, RecordAssumptions
<1>4. \A k \in Recording!Keys :
        Agree(record[k], tables.rows[k], Excused(trackers, k, record[k].status))
  BY <1>1 DEF Agreed
<1>5. ASSUME NEW s \in Recording!Sets \ K, tables.rows[s] # Recording!NoRow
      PROVE  Grouped[s] \cap K = {}
  <2>1. Grouped[s] \subseteq Ids /\ \A r \in Recording!Sets : r \notin Ids
    BY DEF RecordAssumptions
  <2>2. CASE key \in Recording!Sets
    <3>1. tables.rows[key] # Recording!NoRow
      BY <1>2, <1>4 DEF Agree
    <3>2. Grouped[key] \cap Grouped[s] = {}
      BY <1>1, <1>5, <2>2, <3>1 DEF Loadable
    <3>. QED
      BY <2>1, <2>2, <3>2
  <2>3. CASE key \notin Recording!Sets
    <3>1. s \in Recording!Keys /\ record[s] # Recording!NoRow
      BY <1>4, <1>5 DEF Agree, Recording!Keys
    <3>. QED
      BY <1>2, <2>3, <3>1 DEF Recording!SetsOf, Recording!Has
  <2>. QED
    BY <2>2, <2>3
<1>6. DOMAIN C = K /\ \A x : x \in S <=> \E k \in K : x = Recording!Delete(k)
  OBVIOUS
<1>. HIDE DEF F, K
<1>7. /\ LegalStatements(S)
      /\ Recording!Applied(C, F) \in [Recording!Keys -> RecordRows]
      /\ \A k \in Recording!Keys :
           Recording!Applied(C, F)[k] = IF k \in K THEN Recording!NoRow ELSE record[k]
      /\ Loadable(Recording!Execute(tables, S))
      /\ Matches(trackers, Recording!Applied(C, F), Recording!Execute(tables, S).rows)
  BY <1>1, <1>3, <1>4, <1>5, <1>6, Deletes DEF F
<1>8. writing' = [step |-> "write", statements |-> S, changed |-> C, fields |-> F,
                  starts |-> {}, failing |-> "reply"]
  BY <1>2 DEF Recording!Writing
<1>. HIDE DEF C, S
<1>9. \A id \in Ids : trackers[id] # "none" => Recording!Applied(C, F)[id] # Recording!NoRow
  BY <1>1, <1>2, <1>7 DEF Recording!Keys
<1>10. Fit(trackers, S, C, F)
  BY <1>7 DEF Fit
<1>11. Prepares(S, C, F, {}, "reply")
  BY <1>1, <1>2, <1>8 DEF Prepares, TrackersType
<1>12. MayPrepare(trackers, S, C, F, {}, "reply")
  BY <1>1, <1>3, <1>6, <1>9, <1>10 DEF MayPrepare
<1>13. MayPrepare(trackers', S, C, F, {}, "reply")
  BY <1>2, <1>12
<1>. QED
  BY <1>11, <1>13, Prepare

-----------------------------------------------------------------------------
(* A transaction, its outcome, a restart. *)
LEMMA WriteKeeps ==
  ASSUME RecordInv, Recording!Write PROVE RecordInv'
<1>1. /\ writing.step = "write" /\ tables' = Recording!Written(writing.statements)
      /\ writing' = [writing EXCEPT !.step = "apply"]
      /\ record' = record /\ trackers' = trackers
  BY DEF Recording!Write
<1>2. LoopTypes /\ Prepared(tables')
  BY <1>1 DEF RecordInv, Recording!Nothing
<1>3. /\ writing'.step = "apply" /\ DOMAIN writing' = DOMAIN writing
      /\ writing'.statements = writing.statements /\ writing'.changed = writing.changed
      /\ writing'.fields = writing.fields /\ writing'.starts = writing.starts
      /\ writing'.failing = writing.failing
  BY <1>1, <1>2 DEF LoopTypes
<1>4. RowsToBe' = RowsToBe
  BY <1>1, <1>3 DEF RowsToBe, Recording!Applied
<1>5. LoopTypes'
  BY <1>1, <1>2, <1>3, <1>4 DEF LoopTypes
<1>6. Prepared(tables)' /\ Loadable(tables)'
  BY <1>1, <1>2, <1>4 DEF Prepared
<1>7. /\ record' \in [Recording!Keys -> RecordRows]
      /\ trackers' \in [Ids -> {"none", "running", "flushing", "exiting"}]
      /\ \A id \in Ids : trackers'[id] # "none" => record'[id] # Recording!NoRow
  BY <1>1 DEF RecordInv
<1>. QED
  BY <1>3, <1>5, <1>6, <1>7 DEF RecordInv

(* When nothing is written any more, rows and tables agree. *)
LEMMA IdleAgain ==
  ASSUME writing' = Recording!Nothing, TrackersType', Agreed(trackers', record', tables', {}),
         \A id \in Ids : trackers'[id] # "none" => record'[id] # Recording!NoRow
  PROVE  RecordInv'
<1>1. writing'.step = "none"
  BY DEF Recording!Nothing
<1>2. Left' = {}
  BY <1>1 DEF Left
<1>3. /\ record' \in [Recording!Keys -> RecordRows] /\ Loadable(tables')
      /\ \A key \in Recording!Keys :
           Agree(record'[key], tables'.rows[key],
                 Excused(trackers', key, record'[key].status)
                   \cup (IF key \in {} THEN {"downloaded"} ELSE {}))
  BY DEF Agreed
<1>. QED
  BY <1>1, <1>2, <1>3 DEF RecordInv, TrackersType

LEMMA ApplyKeeps ==
  ASSUME RecordInv, Recording!Apply PROVE RecordInv'
<1>1. /\ writing.step = "apply" /\ record' = RowsToBe /\ tables' = tables
      /\ trackers' = [id \in Ids |-> IF id \in writing.starts THEN "running" ELSE trackers[id]]
      /\ writing' = Recording!Nothing
  BY DEF Recording!Apply, RowsToBe
<1>2. LoopTypes /\ Prepared(tables) /\ TrackersType
  BY <1>1 DEF RecordInv, Recording!Nothing, TrackersType
<1>3. TrackersType'
  BY <1>1, <1>2 DEF TrackersType
<1>4. \A id \in Ids : trackers'[id] # "none" => record'[id] # Recording!NoRow
  BY <1>1, <1>2 DEF LoopTypes
<1>5. ASSUME NEW key \in Recording!Keys
      PROVE  Agree(record'[key], tables.rows[key], Excused(trackers', key, record'[key].status))
  <2>1. Agree(RowsToBe[key], tables.rows[key], Excused(trackers, key, RowsToBe[key].status))
    BY <1>2 DEF Prepared, Matches
  <2>. DEFINE a == Excused(trackers, key, RowsToBe[key].status)
              b == Excused(trackers', key, RowsToBe[key].status)
  <2>2. ("status" \in a => "status" \in b) /\ ("downloaded" \in a => "downloaded" \in b)
    BY <1>1 DEF Excused
  <2>. HIDE DEF a, b
  <2>3. Agree(RowsToBe[key], tables.rows[key], b)
    BY <2>1, <2>2 DEF Agree, a
  <2>. QED
    BY <1>1, <2>3 DEF b
<1>6. Agreed(trackers', record', tables', {})
  BY <1>1, <1>2, <1>5 DEF Agreed, Prepared, LoopTypes
<1>. QED
  BY <1>1, <1>3, <1>4, <1>6, IdleAgain

LEMMA WriteFailsKeeps ==
  ASSUME RecordAssumptions, RecordInv, Recording!WriteFails PROVE RecordInv'
<1>. DEFINE keys == DOMAIN writing.changed
            Unwritten == [key \in keys |-> [record[key] EXCEPT !.status = "unwritten"]]
<1>1. /\ writing.step = "write" /\ tables' = tables /\ trackers' = trackers
      /\ CASE writing.failing = "reply" -> writing' = Recording!Nothing /\ record' = record
           [] writing.failing = "error" ->
                /\ writing' = [Recording!SetStatus(keys, "error") EXCEPT !.failing = "unwritten"]
                /\ record' = record
           [] OTHER -> writing' = Recording!Nothing /\ record' = Recording!Applied(Unwritten, {"status"})
  BY DEF Recording!WriteFails
<1>2. /\ LoopTypes /\ FailsItsRow /\ TrackersType
      /\ record \in [Recording!Keys -> RecordRows]
      /\ \A id \in Ids : trackers[id] # "none" => record[id] # Recording!NoRow
  BY <1>1 DEF RecordInv, Recording!Nothing, TrackersType
<1>3. Agreed(trackers, record, tables, Left)
  BY <1>1, IdleAgrees
<1>4. CASE writing.failing = "reply"
  <2>1. Left = {}
    BY <1>4 DEF Left
  <2>2. writing' = Recording!Nothing /\ record' = record
    BY <1>1, <1>4
  <2>3. Agreed(trackers', record', tables', {})
    BY <1>1, <1>3, <2>1, <2>2
  <2>. QED
    BY <1>1, <1>2, <2>2, <2>3, IdleAgain DEF TrackersType
<1>5. CASE writing.failing = "error"
  <2>. DEFINE C == WithStatus(keys, "error")
              S == UpdatedRows(keys, C)
  <2>1. Left = {}
    BY <1>5 DEF Left
  <2>2. /\ writing' = [Recording!SetStatus(keys, "error") EXCEPT !.failing = "unwritten"]
        /\ record' = record
    BY <1>1, <1>5
  <2>3. Agreed(trackers, record, tables, IF "unwritten" = "unwritten" THEN keys \cap Ids ELSE {})
    BY <1>3, <2>1, AgreedMore
  <2>4. keys \subseteq Recording!Keys
    BY <1>2 DEF LoopTypes
  <2>5. \A key \in keys : /\ record[key] # Recording!NoRow
                          /\ key \in Ids => trackers[key] = "none"
    BY <1>2, <1>5 DEF FailsItsRow
  <2>. HIDE DEF keys
  <2>6. MayChange(trackers, keys, {}, "unwritten")
    BY <1>2, <2>3, <2>4, <2>5 DEF MayChange
  <2>7. MayPrepare(trackers, S, C, {"status"}, {}, "unwritten")
    BY <2>6, StatusPrepared DEF RowStatuses
  <2>. HIDE DEF C, S
  <2>8. MayPrepare(trackers', S, C, {"status"}, {}, "unwritten")
    BY <1>1, <2>7
  <2>9. Prepares(S, C, {"status"}, {}, "unwritten")
    BY <1>1, <1>2, <2>2, SetsStatus DEF Prepares, C, S, TrackersType
  <2>. QED
    BY <2>8, <2>9, Prepare
<1>6. CASE writing.failing = "unwritten"
  <2>1. writing' = Recording!Nothing /\ record' = Recording!Applied(Unwritten, {"status"})
    BY <1>1, <1>6
  <2>2. Left = keys \cap Ids
    BY <1>1, <1>6 DEF Left
  <2>3. ASSUME NEW key \in Recording!Keys
        PROVE  /\ key \notin keys => record'[key] = record[key]
               /\ key \in keys => /\ record'[key] = [record[key] EXCEPT !.status = "unwritten"]
                                  /\ record[key] \in SomeRow /\ record'[key] \in SomeRow
    <3>1. record'[key] = IF key \in keys THEN Recording!Edited(record[key], Unwritten[key], {"status"})
                         ELSE record[key]
      BY <2>1 DEF Recording!Applied
    <3>2. key \in keys => record[key] \in SomeRow
      BY <1>2, <1>6 DEF FailsItsRow, RecordRows
    <3>3. CASE key \in keys
      <4>1. Unwritten[key] = [record[key] EXCEPT !.status = "unwritten"]
        BY <3>3
      <4>2. record[key] \in SomeRow
        BY <3>2, <3>3
      <4>. HIDE DEF Unwritten
      <4>3. /\ Unwritten[key] \in SomeRow /\ Unwritten[key].status = "unwritten"
            /\ Unwritten[key].downloaded = record[key].downloaded
            /\ Unwritten[key].name = record[key].name /\ Unwritten[key].pinned = record[key].pinned
        BY <4>1, <4>2 DEF SomeRow, RowStatuses
      <4>4. Recording!Edited(record[key], Unwritten[key], {"status"}) = Unwritten[key]
        BY <4>2, <4>3 DEF Recording!Edited, Recording!Fields, SomeRow
      <4>. QED
        BY <3>1, <3>3, <4>1, <4>2, <4>3, <4>4
    <3>. QED
      BY <3>1, <3>3
  <2>4. record' \in [Recording!Keys -> RecordRows]
    <3>1. record' = [key \in Recording!Keys |-> record'[key]]
      BY <2>1 DEF Recording!Applied
    <3>. QED
      BY <1>2, <2>3, <3>1 DEF RecordRows
  <2>5. ASSUME NEW key \in Recording!Keys
        PROVE  /\ record'[key] = Recording!NoRow <=> record[key] = Recording!NoRow
               /\ Agree(record'[key], tables.rows[key], Excused(trackers, key, record'[key].status))
    <3>1. Agree(record[key], tables.rows[key],
                Excused(trackers, key, record[key].status)
                  \cup (IF key \in keys \cap Ids THEN {"downloaded"} ELSE {}))
      BY <1>3, <2>2 DEF Agreed
    <3>2. CASE key \notin keys
      BY <2>3, <3>1, <3>2
    <3>3. CASE key \in keys
      <4>1. /\ record'[key] # Recording!NoRow /\ record[key] # Recording!NoRow
            /\ record[key] \in SomeRow
            /\ record'[key].status = "unwritten"
            /\ record'[key].downloaded = record[key].downloaded
            /\ record'[key].name = record[key].name /\ record'[key].pinned = record[key].pinned
        <5>1. \A row \in SomeRow : row # Recording!NoRow
          BY DEF SomeRow, RowStatuses, Recording!NoRow
        <5>2. /\ record'[key] = [record[key] EXCEPT !.status = "unwritten"]
              /\ record[key] \in SomeRow /\ record'[key] \in SomeRow
          BY <2>3, <3>3
        <5>. QED
          BY <5>1, <5>2 DEF SomeRow
      <4>2. "status" \in Excused(trackers, key, "unwritten")
        BY DEF Excused
      <4>3. "downloaded" \in Excused(trackers, key, "unwritten") \/ key \notin Ids
        BY DEF Excused
      <4>4. key \notin Ids => ("downloaded" \notin Excused(trackers, key, record[key].status))
        BY DEF Excused
      <4>. HIDE DEF keys
      <4>5. CASE key \in Ids
        BY <3>1, <4>1, <4>2, <4>3, <4>5 DEF Agree
      <4>6. CASE key \notin Ids
        BY <3>1, <4>1, <4>2, <4>4, <4>6 DEF Agree
      <4>. QED
        BY <4>1, <4>5, <4>6
    <3>. QED
      BY <3>2, <3>3
  <2>6. Agreed(trackers', record', tables', {})
    BY <1>1, <1>3, <2>4, <2>5 DEF Agreed
  <2>7. \A id \in Ids : trackers'[id] # "none" => record'[id] # Recording!NoRow
    BY <1>1, <1>2, <2>5 DEF Recording!Keys
  <2>8. TrackersType'
    BY <1>1, <1>2 DEF TrackersType
  <2>. QED
    BY <2>1, <2>6, <2>7, <2>8, IdleAgain
<1>. QED
  BY <1>2, <1>4, <1>5, <1>6 DEF LoopTypes

LEMMA RestartKeeps ==
  ASSUME RecordAssumptions, RecordInv, Recording!Restart PROVE RecordInv'
<1>1. /\ record' = [key \in Recording!Keys |-> Recording!Restored(tables.rows[key])]
      /\ tables' = [tables EXCEPT !.rows =
                      [key \in Recording!Keys |->
                         IF key \in Recording!Sets THEN Recording!Restored(@[key]) ELSE @[key]]]
      /\ writing' = Recording!Nothing /\ trackers' = [id \in Ids |-> "none"]
  BY DEF Recording!Restart
<1>2. /\ tables \in TableStates /\ Loadable(tables) /\ tables.rows \in [Recording!Keys -> RecordRows]
  BY DEF RecordInv, Loadable, TableStates
<1>3. /\ tables'.states = tables.states /\ tables'.items = tables.items
      /\ tables'.rows = [key \in Recording!Keys |->
                           IF key \in Recording!Sets THEN Recording!Restored(tables.rows[key])
                           ELSE tables.rows[key]]
      /\ tables' = [rows |-> tables'.rows, states |-> tables.states, items |-> tables.items]
  BY <1>1, <1>2 DEF TableStates
<1>4. ASSUME NEW key \in Recording!Keys
      PROVE  /\ record'[key] = Recording!Restored(tables.rows[key]) /\ record'[key] \in RecordRows
             /\ tables'.rows[key] \in RecordRows
             /\ tables'.rows[key] = Recording!NoRow <=> tables.rows[key] = Recording!NoRow
             /\ record'[key] = Recording!NoRow <=> tables.rows[key] = Recording!NoRow
             /\ Recording!Restored(record'[key]).status = Recording!Restored(tables'.rows[key]).status
             /\ record'[key].downloaded = tables'.rows[key].downloaded
             /\ record'[key].name = tables'.rows[key].name
             /\ record'[key].pinned = tables'.rows[key].pinned
  <2>. DEFINE t == tables.rows[key]
  <2>1. t \in RecordRows
    BY <1>2
  <2>2. /\ record'[key] = Recording!Restored(t)
        /\ tables'.rows[key] = Recording!Restored(t) \/ tables'.rows[key] = t
    BY <1>1, <1>3
  <2>. HIDE DEF t
  <2>3. /\ Recording!Restored(t) \in RecordRows
        /\ Recording!Restored(t) = Recording!NoRow <=> t = Recording!NoRow
        /\ Recording!Restored(Recording!Restored(t)).status = Recording!Restored(t).status
        /\ Recording!Restored(t).downloaded = t.downloaded
        /\ Recording!Restored(t).name = t.name /\ Recording!Restored(t).pinned = t.pinned
    BY <2>1, RestoredProperties
  <2>. QED
    BY <2>1, <2>2, <2>3 DEF t
<1>5. record' \in [Recording!Keys -> RecordRows] /\ tables'.rows \in [Recording!Keys -> RecordRows]
  BY <1>1, <1>3, <1>4
<1>6. tables' \in TableStates
  BY <1>2, <1>3, <1>5 DEF TableStates
<1>7. Loadable(tables')
  BY <1>2, <1>3, <1>4, <1>6, LoadableAsBefore
<1>8. Agreed(trackers', record', tables', {})
  BY <1>4, <1>5, <1>7 DEF Agreed, Agree
<1>9. TrackersType' /\ \A id \in Ids : trackers'[id] = "none"
  BY <1>1 DEF TrackersType
<1>. QED
  BY <1>1, <1>8, <1>9, IdleAgain

-----------------------------------------------------------------------------
(* A worker counts, flushes and exits beside the loop. *)
LEMMA AgreedBeside ==
  ASSUME RecordAssumptions, NEW ws, NEW rs, NEW qs, NEW t, NEW u, NEW id \in Ids, NEW K,
         ws[id] # "none", Agreed(ws, rs, t, K), RowsBeside(rs, qs, id), TablesBeside(t, u, id)
  PROVE  Agreed(ws, qs, u, K)
<1>1. Loadable(u) /\ qs \in [Recording!Keys -> RecordRows]
  BY LoadableBeside DEF Agreed, RowsBeside
<1>2. ASSUME NEW key \in Recording!Keys
      PROVE  Agree(qs[key], u.rows[key],
                   Excused(ws, key, qs[key].status) \cup (IF key \in K THEN {"downloaded"} ELSE {}))
  <2>1. Agree(rs[key], t.rows[key],
              Excused(ws, key, rs[key].status) \cup (IF key \in K THEN {"downloaded"} ELSE {}))
    BY DEF Agreed
  <2>2. CASE key # id
    <3>1. qs[key] = rs[key] /\ u.rows[key] = t.rows[key]
      BY <2>2 DEF RowsBeside, TablesBeside
    <3>. QED
      BY <2>1, <3>1
  <2>3. CASE key = id
    <3>. DEFINE q == qs[id]
                r == rs[id]
                v == u.rows[id]
                w == t.rows[id]
    <3>1. /\ q.status = r.status /\ q.name = r.name /\ q.pinned = r.pinned
          /\ v.status = w.status /\ v.name = w.name /\ v.pinned = w.pinned
      BY <2>3 DEF RowsBeside, TablesBeside
    <3>2. /\ q = Recording!NoRow <=> r = Recording!NoRow
          /\ v = Recording!NoRow <=> w = Recording!NoRow
      BY <2>3, BesideIsThere DEF TablesBeside
    <3>3. q \in RecordRows /\ r \in RecordRows /\ v \in RecordRows /\ w \in RecordRows
      BY <2>3 DEF RowsBeside, TablesBeside
    <3>4. /\ Recording!Restored(q).status = Recording!Restored(r).status
          /\ Recording!Restored(v).status = Recording!Restored(w).status
      <4>. HIDE DEF q, r, v, w
      <4>. QED
        BY <3>1, <3>3, RestoredProperties
    <3>5. \A status : "downloaded" \in Excused(ws, id, status)
      BY DEF Excused
    <3>6. Agree(r, w, Excused(ws, id, r.status) \cup (IF id \in K THEN {"downloaded"} ELSE {}))
      BY <2>1, <2>3
    <3>. HIDE DEF q, r, v, w
    <3>7. Agree(q, v, Excused(ws, id, q.status) \cup (IF id \in K THEN {"downloaded"} ELSE {}))
      BY <3>1, <3>2, <3>4, <3>5, <3>6 DEF Agree
    <3>. QED
      BY <2>3, <3>7 DEF q, v
  <2>. QED
    BY <2>2, <2>3
<1>. QED
  BY <1>1, <1>2 DEF Agreed

(* Who has a worker is all that matters of the trackers. *)
SameWorkers(ws, vs) == \A id \in Ids : ws[id] = "none" <=> vs[id] = "none"

LEMMA SameExcuses ==
  ASSUME NEW ws, NEW vs, SameWorkers(ws, vs), NEW key, NEW status
  PROVE  Excused(ws, key, status) = Excused(vs, key, status)
BY DEF SameWorkers, Excused

LEMMA SameAgreed ==
  ASSUME NEW ws, NEW vs, SameWorkers(ws, vs), NEW rs, NEW t, NEW K, Agreed(ws, rs, t, K)
  PROVE  Agreed(vs, rs, t, K)
BY SameExcuses DEF Agreed

LEMMA SameMatches ==
  ASSUME NEW ws, NEW vs, SameWorkers(ws, vs), NEW rs, NEW ts, Matches(ws, rs, ts)
  PROVE  Matches(vs, rs, ts)
BY SameExcuses DEF Matches

LEMMA EditedBeside ==
  ASSUME NEW old \in SomeRow, NEW new \in SomeRow, NEW c, NEW fields,
         new.status = old.status, new.name = old.name, new.pinned = old.pinned,
         Recording!Edited(old, c, fields) \in SomeRow
  PROVE  LET a == Recording!Edited(old, c, fields)
             b == Recording!Edited(new, c, fields)
         IN b \in SomeRow /\ b.status = a.status /\ b.name = a.name /\ b.pinned = a.pinned
<1>. DEFINE a == Recording!Edited(old, c, fields)
            b == Recording!Edited(new, c, fields)
<1>1. /\ a.status = IF "status" \in fields THEN c.status ELSE old.status
      /\ a.downloaded = IF "downloaded" \in fields THEN c.downloaded ELSE old.downloaded
      /\ a.name = IF "name" \in fields THEN c.name ELSE old.name
      /\ a.pinned = IF "pinned" \in fields THEN c.pinned ELSE old.pinned
  BY EditedProperties
<1>2. /\ b.status = IF "status" \in fields THEN c.status ELSE new.status
      /\ b.downloaded = IF "downloaded" \in fields THEN c.downloaded ELSE new.downloaded
      /\ b.name = IF "name" \in fields THEN c.name ELSE new.name
      /\ b.pinned = IF "pinned" \in fields THEN c.pinned ELSE new.pinned
  BY EditedProperties
<1>3. b = [f \in Recording!Fields |-> b[f]]
  BY DEF Recording!Edited
<1>0. a \in SomeRow
  OBVIOUS
<1>4. /\ a.status \in RowStatuses /\ a.downloaded \in Nat /\ a.name \in Nat /\ a.pinned \in BOOLEAN
      /\ new.downloaded \in Nat
  <2>. HIDE DEF a
  <2>. QED
    BY <1>0 DEF SomeRow
<1>. HIDE DEF a, b
<1>5. b.status = a.status /\ b.name = a.name /\ b.pinned = a.pinned /\ b.downloaded \in Nat
  BY <1>1, <1>2, <1>4
<1>6. b \in SomeRow
  BY <1>3, <1>4, <1>5 DEF SomeRow, Recording!Fields
<1>. QED
  BY <1>5, <1>6 DEF a, b

LEMMA RowsToBeBeside ==
  ASSUME RecordInv, LoopTypes, NEW id \in Ids, trackers[id] # "none",
         RowsBeside(record, record', id), writing' = writing
  PROVE  RowsBeside(RowsToBe, RowsToBe', id)
<1>1. /\ RowsToBe \in [Recording!Keys -> RecordRows] /\ RowsToBe[id] # Recording!NoRow
      /\ record[id] # Recording!NoRow /\ id \in Recording!Keys
  BY DEF RecordInv, LoopTypes, Recording!Keys
<1>2. /\ record[id] \in SomeRow /\ record'[id] \in SomeRow /\ RowsToBe[id] \in SomeRow
      /\ record'[id].status = record[id].status /\ record'[id].name = record[id].name
      /\ record'[id].pinned = record[id].pinned
      /\ \A key \in Recording!Keys \ {id} : record'[key] = record[key]
  <2>1. record'[id] # Recording!NoRow
    BY <1>1, BesideIsThere
  <2>. QED
    BY <1>1, <2>1 DEF RowsBeside, RecordRows
<1>3. /\ \A key \in Recording!Keys :
           RowsToBe[key] = IF key \in DOMAIN writing.changed
                           THEN Recording!Edited(record[key], writing.changed[key], writing.fields)
                           ELSE record[key]
      /\ \A key \in Recording!Keys :
           RowsToBe'[key] = IF key \in DOMAIN writing.changed
                            THEN Recording!Edited(record'[key], writing.changed[key], writing.fields)
                            ELSE record'[key]
      /\ RowsToBe' = [key \in Recording!Keys |-> RowsToBe'[key]]
  BY DEF RowsToBe, Recording!Applied
<1>4. \A key \in Recording!Keys \ {id} : RowsToBe'[key] = RowsToBe[key]
  BY <1>2, <1>3
<1>5. /\ RowsToBe'[id] \in SomeRow /\ RowsToBe'[id].status = RowsToBe[id].status
      /\ RowsToBe'[id].name = RowsToBe[id].name /\ RowsToBe'[id].pinned = RowsToBe[id].pinned
  <2>1. CASE id \in DOMAIN writing.changed
    <3>. DEFINE c == writing.changed[id]
                fields == writing.fields
    <3>1. /\ RowsToBe[id] = Recording!Edited(record[id], c, fields)
          /\ RowsToBe'[id] = Recording!Edited(record'[id], c, fields)
      BY <1>1, <1>3, <2>1
    <3>. HIDE DEF c, fields
    <3>. QED
      BY <1>2, <3>1, EditedBeside
  <2>2. CASE id \notin DOMAIN writing.changed
    BY <1>1, <1>2, <1>3, <2>2
  <2>. QED
    BY <2>1, <2>2
<1>6. RowsToBe' \in [Recording!Keys -> RecordRows]
  <2>1. \A key \in Recording!Keys : RowsToBe'[key] \in RecordRows
    BY <1>1, <1>4, <1>5 DEF RecordRows
  <2>. QED
    BY <1>3, <2>1
<1>. QED
  BY <1>1, <1>4, <1>5, <1>6 DEF RowsBeside

LEMMA BesideKeeps ==
  ASSUME RecordAssumptions, RecordInv, NEW id \in Ids, trackers[id] # "none",
         RowsBeside(record, record', id), TablesBeside(tables, tables', id),
         writing' = writing, TrackersType', SameWorkers(trackers, trackers')
  PROVE  RecordInv'
<1>1. /\ record' \in [Recording!Keys -> RecordRows] /\ Loadable(tables')
      /\ trackers' \in [Ids -> {"none", "running", "flushing", "exiting"}]
  BY LoadableBeside DEF RecordInv, RowsBeside, TrackersType
<1>2. \A key \in Recording!Keys : record'[key] = Recording!NoRow <=> record[key] = Recording!NoRow
  BY BesideIsThere
<1>3. \A k \in Ids : trackers'[k] # "none" => record'[k] # Recording!NoRow
  BY <1>2 DEF RecordInv, SameWorkers, Recording!Keys
<1>4. ASSUME LoopTypes
      PROVE  /\ LoopTypes' /\ RowsBeside(RowsToBe, RowsToBe', id)
             /\ \A key \in Recording!Keys :
                  RowsToBe'[key] = Recording!NoRow <=> RowsToBe[key] = Recording!NoRow
  <2>1. RowsBeside(RowsToBe, RowsToBe', id)
    BY <1>4, RowsToBeBeside
  <2>2. \A key \in Recording!Keys :
          RowsToBe'[key] = Recording!NoRow <=> RowsToBe[key] = Recording!NoRow
    BY <2>1, BesideIsThere
  <2>3. RowsToBe' \in [Recording!Keys -> RecordRows]
    BY <2>1 DEF RowsBeside
  <2>4. \A k \in Ids : k \in writing.starts \/ trackers'[k] # "none" => RowsToBe'[k] # Recording!NoRow
    BY <1>4, <2>2 DEF LoopTypes, SameWorkers, Recording!Keys
  <2>. QED
    BY <1>4, <2>1, <2>2, <2>3, <2>4 DEF LoopTypes
<1>5. writing' = Recording!Nothing \/ LoopTypes'
  BY <1>4 DEF RecordInv
<1>6. writing'.step # "apply" =>
        \A key \in Recording!Keys :
          Agree(record'[key], tables'.rows[key],
                Excused(trackers', key, record'[key].status)
                  \cup (IF key \in Left' THEN {"downloaded"} ELSE {}))
  <2>. SUFFICES ASSUME writing.step # "apply" PROVE Agreed(trackers', record', tables', Left')
    BY DEF Agreed
  <2>1. Left' = Left
    BY DEF Left
  <2>2. Agreed(trackers, record, tables, Left)
    BY IdleAgrees
  <2>3. Agreed(trackers, record', tables', Left)
    BY <2>2, AgreedBeside
  <2>. QED
    BY <2>1, <2>3, SameAgreed
<1>7. ASSUME writing.step = "write" PROVE Prepared(Recording!Written(writing.statements))' /\ FailsItsRow'
  <2>1. LoopTypes /\ Prepared(Recording!Written(writing.statements)) /\ FailsItsRow
    BY <1>7 DEF RecordInv, Recording!Nothing
  <2>. DEFINE S == writing.statements
              t == Recording!Execute(tables, S)
              u == Recording!Execute(tables', S)
  <2>2. LegalStatements(S)
    BY <2>1 DEF LoopTypes
  <2>3. /\ Recording!Written(writing.statements) = t
        /\ Recording!Written(writing.statements)' = u
    BY DEF Recording!Written
  <2>. HIDE DEF S
  <2>4. TablesBeside(t, u, id)
    BY <2>2, WrittenBeside
  <2>. HIDE DEF t, u
  <2>5. Loadable(t) /\ Matches(trackers, RowsToBe, t.rows)
    BY <2>1, <2>3 DEF Prepared
  <2>6. Loadable(u)
    BY <2>4, <2>5, LoadableBeside
  <2>7. Matches(trackers, RowsToBe', u.rows)
    BY <1>4, <2>1, <2>4, <2>5, MatchesBeside DEF TablesBeside
  <2>8. Matches(trackers', RowsToBe', u.rows)
    BY <2>7, SameMatches
  <2>9. FailsItsRow'
    <3>1. DOMAIN writing.changed \subseteq Recording!Keys
      BY <2>1 DEF LoopTypes
    <3>. QED
      BY <1>2, <2>1, <3>1 DEF FailsItsRow, SameWorkers
  <2>. QED
    BY <2>3, <2>6, <2>8, <2>9 DEF Prepared
<1>8. ASSUME writing.step = "apply" PROVE Prepared(tables)'
  <2>1. LoopTypes /\ Loadable(tables) /\ Matches(trackers, RowsToBe, tables.rows)
    BY <1>8 DEF RecordInv, Recording!Nothing, Prepared
  <2>2. Matches(trackers, RowsToBe', tables'.rows)
    BY <1>4, <2>1, MatchesBeside DEF TablesBeside
  <2>3. Matches(trackers', RowsToBe', tables'.rows)
    BY <2>2, SameMatches
  <2>. QED
    BY <1>1, <2>3 DEF Prepared
<1>. QED
  BY <1>1, <1>3, <1>5, <1>6, <1>7, <1>8 DEF RecordInv

LEMMA BesideItself ==
  ASSUME NEW id
  PROVE  /\ \A rs : rs \in [Recording!Keys -> RecordRows] => RowsBeside(rs, rs, id)
         /\ \A t : t \in TableStates => TablesBeside(t, t, id)
<1>1. \A rs : rs \in [Recording!Keys -> RecordRows] => RowsBeside(rs, rs, id)
  BY DEF RowsBeside
<1>2. \A t : t \in TableStates => t.rows \in [Recording!Keys -> RecordRows]
  BY DEF TableStates
<1>. QED
  BY <1>1, <1>2 DEF TablesBeside

LEMMA WorkerKeeps ==
  ASSUME RecordAssumptions, RecordInv, NEW id \in Ids,
         Recording!TrackProgress(id) \/ Recording!UpdateProgress(id) \/ Recording!Exit(id)
  PROVE  RecordInv'
<1>1. /\ record \in [Recording!Keys -> RecordRows] /\ tables \in TableStates /\ TrackersType
      /\ tables.rows \in [Recording!Keys -> RecordRows] /\ id \in Recording!Keys
      /\ trackers[id] # "none" => record[id] \in SomeRow
  BY DEF RecordInv, Loadable, TableStates, TrackersType, Recording!Keys, RecordRows
<1>2. /\ writing' = writing /\ trackers[id] # "none"
      /\ TrackersType' /\ SameWorkers(trackers, trackers')
  BY <1>1 DEF TrackersType, SameWorkers, Recording!TrackProgress, Recording!UpdateProgress,
              Recording!Exit
<1>3. RowsBeside(record, record', id) /\ TablesBeside(tables, tables', id)
  <2>1. CASE Recording!TrackProgress(id)
    <3>1. record' = [record EXCEPT ![id].downloaded = @ + 1] /\ tables' = tables
      BY <2>1 DEF Recording!TrackProgress
    <3>. DEFINE count == record[id].downloaded + 1
                row == [record[id] EXCEPT !.downloaded = count]
    <3>3. record' = [record EXCEPT ![id] = row]
      BY <1>1, <3>1
    <3>5. count \in Nat
      BY <1>1, <1>2 DEF SomeRow
    <3>. HIDE DEF count
    <3>2. /\ row \in SomeRow /\ row.status = record[id].status
          /\ row.name = record[id].name /\ row.pinned = record[id].pinned
      BY <1>1, <1>2, <3>5 DEF SomeRow
    <3>. HIDE DEF row
    <3>4. RowsBeside(record, record', id)
      BY <1>1, <3>2, <3>3 DEF RowsBeside, RecordRows
    <3>. QED
      BY <1>1, <3>1, <3>4, BesideItself
  <2>2. CASE Recording!UpdateProgress(id)
    <3>1. /\ record' = record
          /\ \/ tables' = tables
             \/ tables' = Recording!Written({Recording!Update(id, record[id], {"downloaded"})})
      BY <2>2 DEF Recording!UpdateProgress
    <3>2. CASE tables' = Recording!Written({Recording!Update(id, record[id], {"downloaded"})})
      <4>. DEFINE K == {id}
                  C == [k \in {id} |-> record[k]]
                  G == [k \in {id} |-> {"downloaded"}]
                  S == {Recording!Update(id, record[id], {"downloaded"})}
                  u == Recording!Execute(tables, S)
      <4>1. UpdatesOf(S, K, C, G)
        BY <1>1, <1>2 DEF UpdatesOf
      <4>2. tables' = u
        BY <3>2 DEF Recording!Written
      <4>3. /\ K \in SUBSET Recording!Keys /\ id \in K /\ \A key \in K : key = id
            /\ C[id] = record[id] /\ G[id] = {"downloaded"}
        BY <1>1
      <4>. HIDE DEF S, C, G, K
      <4>9. /\ LegalStatements(S)
            /\ u.states = tables.states /\ u.items = tables.items
            /\ \A key \in Recording!Keys :
                 u.rows[key] =
                   IF key \in K /\ tables.rows[key] # Recording!NoRow
                   THEN Recording!Edited(tables.rows[key], C[key], G[key]) ELSE tables.rows[key]
        BY <1>1, <4>1, <4>3, UpdateExecuted
      <4>. HIDE DEF u
      <4>4. /\ LegalStatements(S)
            /\ tables'.states = tables.states /\ tables'.items = tables.items
            /\ \A key \in Recording!Keys :
                 tables'.rows[key] =
                   IF key \in K /\ tables.rows[key] # Recording!NoRow
                   THEN Recording!Edited(tables.rows[key], C[key], G[key]) ELSE tables.rows[key]
        BY <4>2, <4>9
      <4>5. tables' \in TableStates
        BY <1>1, <4>2, <4>4, ExecuteType DEF u
      <4>6. \A key \in Recording!Keys \ {id} : tables'.rows[key] = tables.rows[key]
        BY <4>3, <4>4
      <4>7. /\ tables'.rows[id].status = tables.rows[id].status
            /\ tables'.rows[id].name = tables.rows[id].name
            /\ tables'.rows[id].pinned = tables.rows[id].pinned
        <5>. DEFINE new == Recording!Edited(tables.rows[id], record[id], {"downloaded"})
        <5>1. tables'.rows[id] = new \/ tables'.rows[id] = tables.rows[id]
          BY <1>1, <4>3, <4>4
        <5>2. /\ new.status = tables.rows[id].status /\ new.name = tables.rows[id].name
              /\ new.pinned = tables.rows[id].pinned
          BY EditedProperties
        <5>. HIDE DEF new
        <5>. QED
          BY <5>1, <5>2
      <4>8. tables'.rows \in [Recording!Keys -> RecordRows]
        BY <4>5 DEF TableStates
      <4>. QED
        BY <1>1, <3>1, <4>4, <4>5, <4>6, <4>7, <4>8, BesideItself DEF TablesBeside, RowsBeside
    <3>. QED
      BY <1>1, <3>1, <3>2, BesideItself
  <2>3. CASE Recording!Exit(id)
    <3>1. record' = record /\ tables' = tables
      BY <2>3 DEF Recording!Exit
    <3>. QED
      BY <1>1, <3>1, BesideItself
  <2>. QED
    BY <2>1, <2>2, <2>3
<1>. QED
  BY <1>2, <1>3, BesideKeeps

-----------------------------------------------------------------------------
LEMMA RecordInit ==
  ASSUME RecordAssumptions, Recording!Init PROVE RecordInv
<1>1. /\ record = [key \in Recording!Keys |-> Recording!NoRow]
      /\ tables = [rows |-> record, states |-> {}, items |-> {}]
      /\ writing = Recording!Nothing /\ writing.step = "none"
      /\ trackers = [id \in Ids |-> "none"]
  BY DEF Recording!Init, Recording!Nothing
<1>2. record \in [Recording!Keys -> RecordRows] /\ tables \in TableStates
  BY <1>1 DEF RecordRows, TableStates
<1>3. \A key \in Recording!Keys :
        record[key] = Recording!NoRow /\ tables.rows[key] = Recording!NoRow
  BY <1>1
<1>4. Loadable(tables)
  <2>1. \A id \in Ids : id \in Recording!Keys
    BY DEF Recording!Keys
  <2>2. \A s \in Recording!Sets : s \in Recording!Keys
    BY DEF Recording!Keys
  <2>3. tables.states = {} /\ tables.items = {}
    BY <1>1
  <2>. QED
    BY <1>2, <1>3, <2>1, <2>2, <2>3 DEF Loadable
<1>5. \A key \in Recording!Keys :
        Agree(record[key], tables.rows[key],
              Excused(trackers, key, record[key].status) \cup (IF key \in Left THEN {"downloaded"} ELSE {}))
  BY <1>3 DEF Agree
<1>6. /\ trackers \in [Ids -> {"none", "running", "flushing", "exiting"}]
      /\ \A id \in Ids : trackers[id] = "none"
  BY <1>1
<1>. QED
  BY <1>1, <1>2, <1>4, <1>5, <1>6 DEF RecordInv

LEMMA RecordNext ==
  ASSUME RecordAssumptions, RecordInv, Recording!Next PROVE RecordInv'
<1>1. CASE Recording!Loop
  <2>1. Recording!Idle
    BY <1>1 DEF Recording!Loop
  <2>2. ASSUME NEW id \in Ids, Recording!Add(id) PROVE RecordInv'
    BY <2>1, <2>2, AddPrepares
  <2>3. ASSUME NEW id \in Ids, Recording!Start(id) PROVE RecordInv'
    BY <2>1, <2>3, StartPrepares
  <2>4. ASSUME NEW id \in Ids, Recording!ClaimFilename(id) PROVE RecordInv'
    BY <2>1, <2>4, NamesPrepare
  <2>5. ASSUME NEW id \in Ids, Recording!Finish(id) PROVE RecordInv'
    BY <2>1, <2>5, FinishPrepares
  <2>6. ASSUME NEW s \in Recording!Sets, Recording!AddSet(s) PROVE RecordInv'
    BY <2>1, <2>6, AddSetPrepares
  <2>7. ASSUME NEW s \in Recording!Sets, Recording!StartExtract(s) \/ Recording!FinishExtract(s)
        PROVE  RecordInv'
    BY <2>1, <2>7, ExtractPrepares
  <2>8. ASSUME NEW key \in Recording!Keys, Recording!Pause(key) PROVE RecordInv'
    <3>. DEFINE from == {"queued", "active"}
    <3>1. "none" \notin from /\ "paused" \in RowStatuses
      BY DEF RowStatuses
    <3>2. Recording!Command(key, from, "paused")
      BY <2>8 DEF Recording!Pause
    <3>. HIDE DEF from
    <3>. QED
      BY <2>1, <3>1, <3>2, CommandPrepares
  <2>9. ASSUME NEW key \in Recording!Keys, Recording!Resume(key) PROVE RecordInv'
    <3>. DEFINE from == {"paused", "error", "unwritten"}
    <3>1. "none" \notin from /\ "queued" \in RowStatuses
      BY DEF RowStatuses
    <3>2. Recording!Command(key, from, "queued")
      BY <2>9 DEF Recording!Resume
    <3>. HIDE DEF from
    <3>. QED
      BY <2>1, <3>1, <3>2, CommandPrepares
  <2>10. ASSUME NEW key \in Recording!Keys, Recording!SetPin(key) PROVE RecordInv'
    BY <2>1, <2>10, NamesPrepare
  <2>11. ASSUME NEW key \in Recording!Keys, Recording!RemoveRow(key) PROVE RecordInv'
    BY <2>1, <2>11, RemovePrepares
  <2>. QED
    BY <1>1, <2>2, <2>3, <2>4, <2>5, <2>6, <2>7, <2>8, <2>9, <2>10, <2>11 DEF Recording!Loop
<1>2. CASE Recording!Write
  BY <1>2, WriteKeeps
<1>3. CASE Recording!Apply
  BY <1>3, ApplyKeeps
<1>4. CASE Recording!WriteFails
  BY <1>4, WriteFailsKeeps
<1>5. CASE Recording!Restart
  BY <1>5, RestartKeeps
<1>6. ASSUME NEW id \in Ids,
             Recording!TrackProgress(id) \/ Recording!UpdateProgress(id) \/ Recording!Exit(id)
      PROVE  RecordInv'
  BY <1>6, WorkerKeeps
<1>. QED
  BY <1>1, <1>2, <1>3, <1>4, <1>5, <1>6 DEF Recording!Next

LEMMA RecordStutters ==
  ASSUME RecordInv, UNCHANGED Recording!vars PROVE RecordInv'
<1>1. record' = record /\ tables' = tables /\ writing' = writing /\ trackers' = trackers
  BY DEF Recording!vars
<1>2. /\ RowsToBe' = RowsToBe /\ Left' = Left
      /\ Recording!Written(writing.statements)' = Recording!Written(writing.statements)
  BY <1>1 DEF RowsToBe, Left, Recording!Applied, Recording!Written
<1>3. /\ LoopTypes' <=> LoopTypes
      /\ Prepared(tables)' <=> Prepared(tables)
      /\ Prepared(Recording!Written(writing.statements))'
           <=> Prepared(Recording!Written(writing.statements))
      /\ FailsItsRow' <=> FailsItsRow
  BY <1>1, <1>2 DEF LoopTypes, Prepared, FailsItsRow
<1>. QED
  BY <1>1, <1>2, <1>3 DEF RecordInv

(* What the invariant says of a row, field by field. *)
LEMMA RecordShows ==
  ASSUME RecordAssumptions, RecordInv PROVE Recording!RecordIsRows
<1>1. /\ Loadable(tables) /\ record \in [Recording!Keys -> RecordRows]
      /\ tables.items \subseteq Recording!Sets \X Ids
      /\ tables.rows \in [Recording!Keys -> RecordRows]
  BY DEF RecordInv, Loadable, TableStates
<1>2. /\ Ids \subseteq Recording!Keys /\ Recording!Sets \subseteq Recording!Keys
      /\ \A s \in Recording!Sets : Grouped[s] \subseteq Ids
  BY DEF Recording!Keys, RecordAssumptions
<1>3. \A key \in Recording!Keys :
        key \in Recording!Recorded <=> tables.rows[key] # Recording!NoRow
  BY DEF Recording!Recorded
<1>4. Recording!TablesLoad
  <2>1. \A id \in Ids : id \in Recording!Recorded <=> Recording!Loads(id)
    BY <1>1, <1>2, <1>3 DEF Loadable, Recording!Loads
  <2>2. ASSUME NEW s \in Recording!Sets
        PROVE  Recording!ItemsOf(s) = IF s \in Recording!Recorded THEN Grouped[s] ELSE {}
    <3>1. \A id : id \in Recording!ItemsOf(s) <=> <<s, id>> \in tables.items
      <4>1. ASSUME NEW id, id \in Recording!ItemsOf(s) PROVE <<s, id>> \in tables.items
        <5>1. PICK item \in tables.items : item[1] = s /\ item[2] = id
          BY <4>1 DEF Recording!ItemsOf
        <5>2. item = <<item[1], item[2]>>
          BY <1>1, <5>1
        <5>. QED
          BY <5>1, <5>2
      <4>2. ASSUME NEW id, <<s, id>> \in tables.items PROVE id \in Recording!ItemsOf(s)
        <5>. DEFINE item == <<s, id>>
        <5>1. item \in tables.items /\ item[1] = s /\ item[2] = id
          BY <4>2
        <5>. HIDE DEF item
        <5>. QED
          BY <5>1 DEF Recording!ItemsOf
      <4>. QED
        BY <4>1, <4>2
    <3>2. \A id : <<s, id>> \in tables.items => id \in Ids
      BY <1>1
    <3>3. \A id : id \in Recording!ItemsOf(s) <=> s \in Recording!Recorded /\ id \in Grouped[s]
      BY <1>1, <1>2, <1>3, <3>1, <3>2 DEF Loadable
    <3>. QED
      BY <3>3
  <2>3. \A s \in Recording!Recorded \cap Recording!Sets : Grouped[s] \subseteq Recording!Recorded
    BY <1>1, <1>2, <1>3 DEF Loadable
  <2>. QED
    BY <2>1, <2>2, <2>3 DEF Recording!TablesLoad
<1>5. ASSUME Recording!Idle, NEW key \in Recording!Keys
      PROVE  LET row == Recording!Restored(record[key])
                 of == Recording!Restored(tables.rows[key])
                 excused == (IF key \in Ids /\ trackers[key] # "none" THEN {"downloaded"} ELSE {})
                            \cup (IF row.status = "unwritten" THEN {"status", "downloaded"} ELSE {})
             IN /\ Recording!Has(key) <=> key \in Recording!Recorded
                /\ \A f \in Recording!Fields \ excused : row[f] = of[f]
  <2>. DEFINE r == record[key]
              t == tables.rows[key]
              row == Recording!Restored(r)
              of == Recording!Restored(t)
              excused == (IF key \in Ids /\ trackers[key] # "none" THEN {"downloaded"} ELSE {})
                         \cup (IF row.status = "unwritten" THEN {"status", "downloaded"} ELSE {})
  <2>1. Agree(r, t, Excused(trackers, key, r.status))
    <3>1. Agree(r, t, Excused(trackers, key, r.status)
                        \cup (IF key \in {} THEN {"downloaded"} ELSE {}))
      BY <1>5, LoopStarts DEF Agreed
    <3>. QED
      BY <3>1
  <2>2. r \in RecordRows /\ t \in RecordRows
    BY <1>1
  <2>3. /\ Recording!Has(key) <=> r # Recording!NoRow
        /\ key \in Recording!Recorded <=> t # Recording!NoRow
    BY <1>3 DEF Recording!Has
  <2>. HIDE DEF r, t
  <2>4. /\ row.downloaded = r.downloaded /\ row.name = r.name /\ row.pinned = r.pinned
        /\ of.downloaded = t.downloaded /\ of.name = t.name /\ of.pinned = t.pinned
        /\ row.status = "unwritten" <=> r.status = "unwritten"
    BY <2>2, RestoredProperties
  <2>5. /\ "status" \in Excused(trackers, key, r.status) => "status" \in excused
        /\ "downloaded" \in Excused(trackers, key, r.status) => "downloaded" \in excused
    BY <2>4 DEF Excused
  <2>6. /\ "status" \in excused \/ row.status = of.status
        /\ "downloaded" \in excused \/ row.downloaded = of.downloaded
        /\ row.name = of.name /\ row.pinned = of.pinned
        /\ r = Recording!NoRow <=> t = Recording!NoRow
    <3>. HIDE DEF excused
    <3>. QED
      BY <2>1, <2>4, <2>5 DEF Agree
  <2>. HIDE DEF row, of, excused
  <2>7. \A f \in Recording!Fields \ excused : row[f] = of[f]
    BY <2>6 DEF Recording!Fields
  <2>8. Recording!Has(key) <=> key \in Recording!Recorded
    BY <2>3, <2>6
  <2>. QED
    BY <2>7, <2>8 DEF row, of, excused, r, t
<1>. QED
  BY <1>4, <1>5, Zenon DEF Recording!RecordIsRows

LEMMA RecordSpec ==
  ASSUME RecordAssumptions PROVE Recording!Spec => []Recording!RecordIsRows
<1>1. Recording!Init => RecordInv
  BY RecordInit
<1>2. RecordInv /\ [Recording!Next]_(Recording!vars) => RecordInv'
  BY RecordNext, RecordStutters
<1>3. RecordInv => Recording!RecordIsRows
  BY RecordShows
<1>. QED
  BY <1>1, <1>2, <1>3, PTL DEF Recording!Spec

-----------------------------------------------------------------------------
(* A behaviour of MCDesktop is one of either part: no step moves both.     *)
LEMMA ListRuns == MCSpec => Listing!Spec
<1>1. MCInit => Listing!Init
  BY DEF MCInit
<1>2. [MCNext]_allVars => [Listing!Next]_(Listing!vars)
  BY DEF MCNext, allVars, listVars, Listing!vars
<1>. QED
  BY <1>1, <1>2, PTL DEF MCSpec, Listing!Spec, allVars

LEMMA RecordsRun == MCSpec => Recording!Spec
<1>1. MCInit => Recording!Init
  BY DEF MCInit
<1>2. [MCNext]_allVars => [Recording!Next]_(Recording!vars)
  BY DEF MCNext, allVars, recordVars, Recording!vars
<1>. QED
  BY <1>1, <1>2, PTL DEF MCSpec, Recording!Spec, allVars

(***************************************************************************)
(* What the menu of a row offers is for rows that the engine accepts it of *)
(* (views/menus.rs, app/state.rs, engine.rs), whatever lists it tells,     *)
(* however many archive sets with whatever parts they have and whatever is *)
(* selected.                                                               *)
(***************************************************************************)
THEOREM MenusOfferWhatWorks == ASSUME ListAssumptions PROVE MCSpec => []OfferedIsAccepted
<1>1. Listing!Init => ListInv
  BY ListInit
<1>2. content \in Told => DerivedFacts
  BY DerivedProperties
<1>3. ListInv /\ (content \in Told => DerivedFacts)' /\ [Listing!Next]_(Listing!vars) => ListInv'
  BY ListNext
<1>4. ListInv => Listing!OfferedIsAccepted
  BY RowsAreOffered
<1>. QED
  BY ListRuns, <1>1, <1>2, <1>3, <1>4, PTL DEF Listing!Spec, OfferedIsAccepted

(***************************************************************************)
(* Every row shown is of a record the engine told last, at the index it    *)
(* has and with its status (app/state.rs, refresh), and what changes the   *)
(* lists or the filter leaves nothing selected that is not shown.          *)
(***************************************************************************)
THEOREM RowsFollowLists == ASSUME ListAssumptions PROVE MCSpec => ListIsCurrent
<1>1. Listing!Init => ListInv
  BY ListInit
<1>2. content \in Told => DerivedFacts
  BY DerivedProperties
<1>3. ListInv /\ (content \in Told => DerivedFacts)' /\ [Listing!Next]_(Listing!vars)
        => /\ ListInv'
           /\ Listing!RowsAreCurrent'
           /\ <<content, tab, query>>' # <<content, tab, query>> => Listing!OnlyShownSelected'
  <2>1. ListInv' => Listing!RowsAreCurrent'
    BY DEF ListInv
  <2>. QED
    BY <2>1, ListNext
<1>. QED
  BY ListRuns, <1>1, <1>2, <1>3, PTL DEF Listing!Spec, ListIsCurrent, Listing!ListIsCurrent

(***************************************************************************)
(* A restart would show what the user is shown (engine.rs, commit;         *)
(* db/mod.rs): the tables can be loaded, and once the loop has applied     *)
(* what it wrote, each row is recorded as it is in memory but for bytes    *)
(* that a worker is counting and rows shown as unwritten.  This is so for  *)
(* any downloads and sets of them, whatever writes fail, whatever is       *)
(* flushed meanwhile and whenever the process is killed.                   *)
(***************************************************************************)
THEOREM RecordFollowsRows == ASSUME RecordAssumptions PROVE MCSpec => []RecordIsRows
BY RecordsRun, RecordSpec, PTL DEF RecordIsRows
=============================================================================
