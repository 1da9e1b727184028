----------------------------- MODULE MCDesktop -----------------------------
(***************************************************************************)
(* What the user is shown, for TLC: EventStream, AddDialog, Instance,      *)
(* Settings, List, Preferences, and Records, which is what the user will   *)
(* be shown after a restart.  They share nothing: a behaviour is one of    *)
(* them.                                                                   *)
(***************************************************************************)
EXTENDS Settings, Integers, Sequences

CONSTANTS
  Ids, Contents, EventCapacity, InboxCapacity,
  Http, Magnets, PreviewLimit, EarlyMemory, MaxRequests, MaxDialogs, ClosesBusy,
  Processes, ChannelSize, MaxKilled,
  Told, RowIds, Matched,
  Given, Texts, MaxPort, Unit, MinLimit, MaxDays, DefaultLimit, DefaultRatio, DefaultDays,
  MaxEdits, CommandQueue,
  Grouped, MaxBytes, MaxPins, MaxFaults

VARIABLES
  part,
  rows, stream, pending, lost, resync, inbox, view,
  open, dialogs, lines, links, torrents, submitted, failures, submissions, commands,
  previews, early, forgotten, tasks, replies, done, next,
  phase, lock, endpoint, accepting, peer, late, backlog, hand, channel, opened, dropped, killed,
  content, tab, query, descending, shownRows, selection, anchor, menu,
  settings, draft, queued, unsent, engineSettings, overflowed, edits,
  record, tables, writing, trackers, pins, faults

eventVars == <<rows, stream, pending, lost, resync, inbox, view>>
addVars ==
  <<open, dialogs, lines, links, torrents, submitted, failures, submissions, commands,
    previews, early, forgotten, tasks, replies, done, next>>
instanceVars ==
  <<phase, lock, endpoint, accepting, peer, late, backlog, hand, channel, opened, dropped, killed>>
listVars == <<content, tab, query, descending, shownRows, selection, anchor, menu>>
draftVars == <<settings, draft, queued, unsent, engineSettings, overflowed, edits>>
recordVars == <<record, tables, writing, trackers, pins, faults>>
allVars ==
  <<part, eventVars, addVars, instanceVars, vars, listVars, draftVars,
    recordVars>>

Events == INSTANCE EventStream
Dialog == INSTANCE AddDialog
Processing == INSTANCE Instance

(***************************************************************************)
(* Lists of nothing, of one download in every status it may have, of an    *)
(* archive set with two parts in every two statuses or in every state of   *)
(* its extraction, and of both with the download pinned.                   *)
(***************************************************************************)
Download(id, kind, status, pinned) ==
  [id |-> id, kind |-> kind, status |-> status, pinned |-> pinned]
TwoParts(status, other) ==
  <<Download(2, "http", status, FALSE), Download(3, "http", other, FALSE)>>
SetOf(state) == [id |-> 4, parts |-> {2, 3}, state |-> state, pinned |-> FALSE]
Lists(downloads, packages) == [downloads |-> downloads, packages |-> packages]

HttpStatuses == <<"Queued", "Downloading", "Paused", "Error", "Completed", "Cancelled">>
TorrentStatuses ==
  {HttpStatuses[i] : i \in DOMAIN HttpStatuses}
  \cup {"FetchingMetadata", "Seeding", "ExtractError", "PasswordRequired", "Extracting", "Starting"}

SomeLists ==
  {Lists(<<>>, <<>>)}
  \cup {Lists(<<Download(1, "torrent", status, FALSE)>>, <<>>) : status \in TorrentStatuses}
  \cup {Lists(TwoParts(HttpStatuses[pair[1]], HttpStatuses[pair[2]]), <<SetOf("NotStarted")>>) :
          pair \in {p \in (1 .. 6) \X (1 .. 6) : p[1] <= p[2]}}
  \cup {Lists(<<Download(1, "http", pair[1], TRUE)>> \o TwoParts("Completed", pair[2]),
              <<SetOf("NotStarted")>>) :
          pair \in {<<"Paused", "Paused">>, <<"Paused", "Error">>, <<"Error", "Cancelled">>}}
  \cup {Lists(TwoParts("Completed", "Completed") \o <<Download(1, "http", "Error", FALSE)>>,
              <<SetOf(state)>>) :
          state \in {"Extracting", "Error", "Completed", "PasswordRequired"}}

Listing == INSTANCE List WITH Contents <- Told, rows <- shownRows

(* Settings with and without a limit, that seed forever, to a ratio or for *)
(* days; texts that do not parse, zero, and a number that is no port.      *)
SomeSettings ==
  {[limit |-> limit, port |-> 1, seed |-> [kind |-> seed[1], ratio |-> seed[2], days |-> seed[3]],
    switch |-> FALSE] :
     limit \in {0, 5}, seed \in {<<"forever", 0, 0>>, <<"ratio", 2, 0>>, <<"days", 0, 1>>}}
SomeTexts == {-1, 0, 2, 3}

Drafting == INSTANCE Preferences
  WITH Capacity <- CommandQueue, config <- settings, commands <- queued, engine <- engineSettings

(* A set of the two downloads. *)
OneSet == [s \in {3} |-> Ids]

Recording == INSTANCE Records
  WITH Parts <- Grouped, MaxEdits <- MaxPins,
       rows <- record, pending <- writing, worker <- trackers, edits <- pins

(* What a part that does not move starts with. *)
MCInit ==
  /\ part \in {"events", "dialog", "instance", "settings", "list", "draft", "record"}
  /\ Init /\ Events!Init /\ Dialog!Init /\ Processing!Init /\ Listing!Init /\ Drafting!Init
  /\ Recording!Init
  /\ part # "events" => rows = <<>>
  /\ part # "list" => content = Lists(<<>>, <<>>)
  /\ part # "draft" => settings.limit = 0 /\ settings.seed.kind = "forever"

MCNext ==
  /\ UNCHANGED part
  /\ \/ /\ part = "events" /\ Events!Next
        /\ UNCHANGED <<addVars, instanceVars, vars, listVars, draftVars, recordVars>>
     \/ /\ part = "dialog" /\ Dialog!Next
        /\ UNCHANGED <<eventVars, instanceVars, vars, listVars, draftVars, recordVars>>
     \/ /\ part = "instance" /\ Processing!Next
        /\ UNCHANGED <<eventVars, addVars, vars, listVars, draftVars, recordVars>>
     \/ /\ part = "settings" /\ Next
        /\ UNCHANGED <<eventVars, addVars, instanceVars, listVars, draftVars, recordVars>>
     \/ /\ part = "list" /\ Listing!Next
        /\ UNCHANGED <<eventVars, addVars, instanceVars, vars, draftVars, recordVars>>
     \/ /\ part = "draft" /\ Drafting!Next
        /\ UNCHANGED <<eventVars, addVars, instanceVars, vars, listVars, recordVars>>
     \/ /\ part = "record" /\ Recording!Next
        /\ UNCHANGED <<eventVars, addVars, instanceVars, vars, listVars, draftVars>>

MCSpec == MCInit /\ [][MCNext]_allVars

ViewFollows == Events!ViewFollows
NoOrphanPreviews == Dialog!NoOrphanPreviews
ForwardedIsOpened == Processing!ForwardedIsOpened
OfferedIsAccepted == Listing!OfferedIsAccepted
ListIsCurrent == Listing!ListIsCurrent
SettingsReachEngine == Drafting!SettingsReachEngine
RecordIsRows == Recording!RecordIsRows
=============================================================================
