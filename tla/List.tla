-------------------------------- MODULE List --------------------------------
(***************************************************************************)
(* The list of downloads in the window.  Its rows are derived from what    *)
(* the engine last told (app/state.rs, refresh): filtered by tab and       *)
(* search, sorted, each pointing by index at its download or archive set;  *)
(* the selection, its anchor and the row menu name rows by id.  Menus and  *)
(* keys offer actions on what is shown (views/menus.rs, update/list.rs,    *)
(* update/keyboard.rs).                                                    *)
(*                                                                         *)
(* EventStream shows how events reach the window; here the lists just      *)
(* become others.                                                          *)
(***************************************************************************)
EXTENDS Naturals, Sequences, FiniteSets, SequencesExt

CONSTANTS
  Contents,  \* what the engine may tell: its downloads and archive sets
  RowIds,    \* the ids of rows; a click may name one that has just gone
  Matched    \* the ids of the rows that a search finds

VARIABLES
  content,     \* `downloads` and `packages`
  tab, query, descending,
  rows,        \* the rows shown
  selection, anchor, menu

vars == <<content, tab, query, descending, rows, selection, anchor, menu>>

Nobody == 0
NoMenu == [kind |-> "none", id |-> Nobody]
SortMenu == [kind |-> "sort", id |-> Nobody]
RowMenu(id) == [kind |-> "row", id |-> id]

Pausable == {"Queued", "Starting", "Downloading", "FetchingMetadata", "Seeding"}
Resumable == {"Paused", "Error"}
Cancellable ==
  {"Queued", "Starting", "Downloading", "FetchingMetadata", "Extracting", "Paused", "Error"}
Failed == {"Error", "ExtractError", "PasswordRequired"}
Verifiable == {"Paused", "Completed", "Seeding", "Error"}

TabOf(status) ==
  CASE status = "Seeding" -> "Seeding"
    [] status = "Completed" -> "Done"
    [] status \in Failed -> "Failed"
    [] status = "Cancelled" -> "none"
    [] OTHER -> "Active"

Downloads == Range(content.downloads)
Packages == Range(content.packages)
Parts == UNION {package.parts : package \in Packages}
Children(package) == {d \in Downloads : d.id \in package.parts}

(* What a set shows: what extraction came to, or the busiest of its parts. *)
PackageStatus(package) ==
  LET Some(statuses) == \E part \in Children(package) : part.status \in statuses
  IN CASE package.state = "Extracting" -> "Extracting"
       [] package.state = "PasswordRequired" -> "PasswordRequired"
       [] package.state = "Error" -> "ExtractError"
       [] package.state = "Completed" -> "Completed"
       [] OTHER ->
            IF Some({"Starting", "Downloading", "FetchingMetadata"}) THEN "Downloading"
            ELSE IF Some({"Pending", "Queued"}) THEN "Queued"
            ELSE IF Some(Failed) THEN "Error"
            ELSE IF Some({"Paused"}) THEN "Paused"
            ELSE IF \A part \in Children(package) : part.status = "Completed" THEN "Completed"
            ELSE IF Some({"Cancelled"}) THEN "Cancelled"
            ELSE "Queued"

RowOf(source, record, status, torrent) ==
  [id |-> record.id, source |-> source, status |-> status, pinned |-> record.pinned,
   torrent |-> torrent]

DownloadRow(i) ==
  LET d == content.downloads[i] IN RowOf(<<"download", i>>, d, d.status, d.kind = "torrent")
PackageRow(i) ==
  LET p == content.packages[i] IN RowOf(<<"package", i>>, p, PackageStatus(p), FALSE)

Derived ==
  {DownloadRow(i) : i \in {j \in DOMAIN content.downloads : content.downloads[j].id \notin Parts}}
  \cup {PackageRow(i) : i \in DOMAIN content.packages}

Retained(row, inTab, search) ==
  /\ inTab # "All" => TabOf(row.status) = inTab
  /\ search => row.id \in Matched

(* Pinned rows come first; the key is the age, which the ids stand for.    *)
Before(a, b, down) ==
  IF a.pinned # b.pinned THEN a.pinned
  ELSE IF down THEN a.id > b.id ELSE a.id < b.id

Sorted(set, down) ==
  CHOOSE s \in [1 .. Cardinality(set) -> set] :
    \A i, j \in DOMAIN s : i < j => Before(s[i], s[j], down)

(* A mutant: what is not shown any more stays selected.                    *)
KeepAll(visible) == UNCHANGED <<selection, anchor>>

Prune(visible) ==
  /\ selection' = selection \cap visible
  /\ anchor' = IF anchor \in visible THEN anchor ELSE Nobody

(* `refresh`, of what the step made of the lists, the filter and the menu. *)
Refresh(opened) ==
  LET shown == {row \in Derived' : Retained(row, tab', query')}
      visible == {row.id : row \in shown}
  IN /\ rows' = Sorted(shown, descending')
     /\ IF selection # {} \/ opened # NoMenu
        THEN /\ Prune(visible)
             /\ menu' = IF opened.kind = "row" /\ opened.id \notin visible THEN NoMenu ELSE opened
        ELSE UNCHANGED <<selection, anchor>> /\ menu' = opened

ApplyEngineEvents ==
  /\ content' \in Contents
  /\ UNCHANGED <<tab, query, descending>>
  /\ Refresh(menu)

SelectTab ==
  /\ tab' \in {"All", "Active", "Failed"}
  /\ UNCHANGED <<content, query, descending>>
  /\ Refresh(menu)

SetSearch ==
  /\ query' = ~query
  /\ UNCHANGED <<content, tab, descending>>
  /\ Refresh(menu)

SortBy ==
  /\ menu = SortMenu
  /\ descending' = ~descending
  /\ UNCHANGED <<content, tab, query>>
  /\ Refresh(NoMenu)

Position(id) == CHOOSE i \in DOMAIN rows : rows[i].id = id
Shown == {rows[i].id : i \in DOMAIN rows}

Unfiltered == UNCHANGED <<content, tab, query, descending, rows>>

Press(id) ==
  /\ selection' = {id} /\ anchor' = id
  /\ menu' = NoMenu
  /\ Unfiltered

PressRange(id) ==
  /\ anchor # Nobody
  /\ selection' = IF {anchor, id} \subseteq Shown
                  THEN LET from == Position(anchor)
                           to == Position(id)
                       IN {rows[i].id : i \in (from .. to) \cup (to .. from)}
                  ELSE selection
  /\ menu' = NoMenu
  /\ UNCHANGED anchor /\ Unfiltered

PressToggle(id) ==
  /\ selection' = IF id \in selection THEN selection \ {id} ELSE selection \cup {id}
  /\ anchor' = id
  /\ menu' = NoMenu
  /\ Unfiltered

SelectAll ==
  /\ selection' = Shown
  /\ anchor' = IF rows = <<>> THEN Nobody ELSE rows[1].id
  /\ UNCHANGED menu /\ Unfiltered

OpenRowMenu(id) ==
  /\ IF id \in selection THEN UNCHANGED <<selection, anchor>>
     ELSE selection' = {id} /\ anchor' = id
  /\ menu' = RowMenu(id)
  /\ Unfiltered

ToggleSortMenu ==
  /\ menu' = IF menu = SortMenu THEN NoMenu ELSE SortMenu
  /\ UNCHANGED <<selection, anchor>> /\ Unfiltered

CloseMenu ==
  /\ menu' = NoMenu
  /\ UNCHANGED <<selection, anchor>> /\ Unfiltered

(* Closes the menu, else clears the search, else the selection.            *)
Escape ==
  IF menu # NoMenu THEN CloseMenu
  ELSE IF query THEN SetSearch
  ELSE /\ selection' = {} /\ anchor' = Nobody
       /\ UNCHANGED menu /\ Unfiltered

(***************************************************************************)
(* The commands that a row offers, and those the engine accepts: for a row *)
(* of its own, or for the parts of a set that it applies to.               *)
(***************************************************************************)
Primary(row) ==
  CASE row.status \in {"Pending", "Queued", "Starting", "Downloading", "FetchingMetadata"} ->
         {"pause"}
    [] row.status \in {"Paused", "Cancelled"} -> {"resume"}
    [] row.status = "Error" -> {"retry"}
    [] row.status \in {"ExtractError", "PasswordRequired"} -> {"retry_extract"}
    [] row.status = "Seeding" -> {"stop_seeding"}
    [] OTHER -> {}

(* A mutant: what runs offers to be stopped, a torrent that seeds as well. *)
StoppableOrSeeding ==
  {"Pending", "Queued", "Starting", "Downloading", "FetchingMetadata", "Paused", "Extracting",
   "Seeding"}

Stoppable ==
  {"Pending", "Queued", "Starting", "Downloading", "FetchingMetadata", "Paused", "Extracting"}

Offered(row) ==
  Primary(row)
  \cup (IF row.torrent /\ row.status \in Verifiable THEN {"verify"} ELSE {})
  \cup (IF row.status \in Stoppable THEN {"cancel"} ELSE {})

Eligible(command, row) ==
  CASE command = "pause" -> row.status \in Pausable
    [] command = "resume" -> row.status \in Resumable
    [] command = "retry" -> row.status = "Error"
    [] command = "retry_extract" -> row.status \in {"ExtractError", "PasswordRequired"}
    [] command = "stop_seeding" -> row.status = "Seeding"
    [] command = "cancel" -> row.status \in Cancellable
    [] command = "verify" -> row.torrent

(* An action on one of several selected rows is for those it applies to.   *)
Targets(command, row) ==
  IF Cardinality(selection) > 1 /\ row.id \in selection
  THEN {other \in Range(rows) : other.id \in selection /\ Eligible(command, other)}
  ELSE {row}

AcceptedStatuses(command) ==
  CASE command = "pause" -> Pausable
    [] command = "resume" -> Resumable
    [] command = "retry" -> {"Error"}
    [] command = "retry_extract" -> {"ExtractError", "PasswordRequired"}
    [] command = "stop_seeding" -> {"Seeding"}
    [] command = "cancel" -> Cancellable
    [] command = "verify" -> Verifiable

AcceptedForSet(command, package) ==
  CASE command = "retry_extract" ->
         /\ package.state \in {"NotStarted", "Error", "PasswordRequired"}
         /\ \A part \in Children(package) : part.status = "Completed"
    [] command = "cancel" /\ package.state = "Extracting" -> TRUE
    [] OTHER -> \E part \in Children(package) :
                  part.status \in AcceptedStatuses(command) \ {"Extracting"}

Accepted(command, row) ==
  IF row.source[1] = "package"
  THEN AcceptedForSet(command, content.packages[row.source[2]])
  ELSE row.status \in AcceptedStatuses(command)

Init ==
  /\ content \in Contents
  /\ tab = "All" /\ query = FALSE /\ descending = TRUE
  /\ rows = Sorted(Derived, TRUE)
  /\ selection = {} /\ anchor = Nobody /\ menu = NoMenu

Next ==
  \/ ApplyEngineEvents \/ SelectTab \/ SetSearch \/ SortBy
  \/ \E id \in RowIds : Press(id) \/ PressRange(id) \/ PressToggle(id) \/ OpenRowMenu(id)
  \/ SelectAll \/ ToggleSortMenu \/ CloseMenu \/ Escape

Spec == Init /\ [][Next]_vars

(***************************************************************************)
(* Every row shown points at the record it was made of, with its status:   *)
(* an index that is stale would draw another download or panic.  When the  *)
(* lists or the filter change, only rows still shown stay selected or keep *)
(* their menu, so no key acts on a download the user does not see.         *)
(***************************************************************************)
RowsAreCurrent ==
  /\ \A i, j \in DOMAIN rows : rows[i].id = rows[j].id => i = j
  /\ Range(rows) = {row \in Derived : Retained(row, tab, query)}

OnlyShownSelected ==
  /\ selection \subseteq Shown
  /\ menu.kind = "row" => menu.id \in Shown
  /\ selection # {} => anchor \in Shown \cup {Nobody}

ListIsCurrent ==
  [][/\ RowsAreCurrent'
     /\ <<content, tab, query>>' # <<content, tab, query>> => OnlyShownSelected']_vars

(***************************************************************************)
(* What the menu of a row offers, alone or for the selected rows it        *)
(* applies to, reaches a row, and the engine accepts it: the lists of      *)
(* statuses of the menu, of the bulk actions and of the engine, and the    *)
(* status an archive set is shown with, agree.  Verifying several torrents *)
(* is left out, as it is asked of all of them whatever they are doing, and *)
(* so is resuming a stopped download, which the engine refuses.            *)
(***************************************************************************)
OfferedIsAccepted ==
  \A row \in Range(rows) : \A command \in Offered(row) :
    LET targets == Targets(command, row)
    IN \/ command = "verify" /\ Cardinality(targets) > 1
       \/ command = "resume" /\ row.status = "Cancelled"
       \/ targets # {} /\ \A target \in targets : Accepted(command, target)
=============================================================================
