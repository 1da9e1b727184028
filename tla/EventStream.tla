---------------------------- MODULE EventStream ----------------------------
(***************************************************************************)
(* How the desktop follows the engine's rows (engine.rs 63-227, app/sub-   *)
(* scription.rs, app/update/engine.rs).  "Every event is sent while hold-  *)
(* ing the `rows` write lock": each change of the rows and its event are   *)
(* one step.  A bounded broadcast channel carries the events; a receiver   *)
(* that falls behind loses the oldest, subscribes again and is given a     *)
(* snapshot.  The subscription of iced hands batches to the application,   *)
(* which applies them to its own copy.                                     *)
(*                                                                         *)
(* The contents of a row, of a download or of an archive set, are one of a *)
(* few values, and any change gives it another.                            *)
(***************************************************************************)
EXTENDS Naturals, Sequences, Functions

CONSTANTS
  Ids,            (* The rows.                                              *)
  Contents,       (* Bound: a row's contents are 0..Contents - 1, in turn.  *)
  EventCapacity,  (* Events a receiver may be behind.                       *)
  InboxCapacity   (* Events handed over and not yet applied.                *)

VARIABLES
  rows,           (* `Shared::rows`: the contents of the rows there are.    *)
  stream,         (* Where the subscription is: not "started", "on", or     *)
                  (* "lagged": told that it lost events.                    *)
  pending,        (* Events that the receiver has not seen.                 *)
  lost,           (* Some of them were dropped.                             *)
  resync,         (* Snapshots that the stream returns first: one or none.  *)
  inbox,          (* Events on their way to the application.                *)
  view            (* The application's copy.                                *)

vars == <<rows, stream, pending, lost, resync, inbox, view>>

Present == DOMAIN rows
Only(r, S) == Restrict(r, S \cap DOMAIN r)
Over(r, s) == [i \in DOMAIN r \cup DOMAIN s |-> IF i \in DOMAIN r THEN r[i] ELSE s[i]]
Changing(S) == [i \in Present |-> IF i \in S THEN (rows[i] + 1) % Contents ELSE rows[i]]

-----------------------------------------------------------------------------
(* The engine. *)

(* `events.send`, by the holder of the lock. *)
Send(e) ==
  IF stream = "started" THEN UNCHANGED <<pending, lost>>
  ELSE LET sent == Append(pending, e) IN
       IF Len(sent) > EventCapacity THEN pending' = Tail(sent) /\ lost' = TRUE
       ELSE pending' = sent /\ UNCHANGED lost

(* `Rows::changed`: those of the rows that exist, as they are now. *)
Changed(r, S) == [type |-> "Changed", rows |-> Only(r, S)]

(* `insert` *)
Insert(S) ==
  /\ S \cap Present = {}
  /\ rows' = Over(rows, [i \in S |-> 0])
  /\ Send(Changed(rows', S))
  /\ UNCHANGED <<stream, resync, inbox, view>>

(* `commit`, `commit_package` and the other commits; a row may be gone. *)
Change(S) ==
  /\ rows' = Changing(S)
  /\ Send(Changed(rows', S))
  /\ UNCHANGED <<stream, resync, inbox, view>>

(* `track_progress` *)
Progress(i) ==
  /\ i \in Present
  /\ rows' = Changing({i})
  /\ Send([type |-> "Update", rows |-> Only(rows', {i})])
  /\ UNCHANGED <<stream, resync, inbox, view>>

(* `remove` *)
Remove(S) ==
  /\ S \subseteq Present
  /\ rows' = Only(rows, Present \ S)
  /\ Send([type |-> "Removed", rows |-> Only(rows, S)])
  /\ UNCHANGED <<stream, resync, inbox, view>>

-----------------------------------------------------------------------------
(* The subscription. *)

(* `Rows::resync` *)
Snapshot == [type |-> "Resync", rows |-> rows]

(* `ProgressStream::resubscribe`, under the read lock. *)
Start ==
  /\ stream = "started"
  /\ stream' = "on"
  /\ resync' = <<Snapshot>>
  /\ UNCHANGED <<rows, pending, lost, inbox, view>>

Deliver(e) == Len(inbox) < InboxCapacity /\ inbox' = Append(inbox, e)

(* `recv`: the snapshot first, then the events. *)
Receive ==
  /\ stream = "on"
  /\ IF resync # <<>>
     THEN Deliver(Head(resync)) /\ resync' = <<>> /\ UNCHANGED <<stream, pending>>
     ELSE IF lost THEN stream' = "lagged" /\ UNCHANGED <<pending, resync, inbox>>
     ELSE /\ pending # <<>>
          /\ Deliver(Head(pending)) /\ pending' = Tail(pending)
          /\ UNCHANGED <<stream, resync>>
  /\ UNCHANGED <<rows, lost, view>>

(* After `Lagged`, again under the read lock. *)
Resubscribe ==
  /\ stream = "lagged"
  /\ Deliver(Snapshot)
  /\ pending' = <<>> /\ lost' = FALSE
  /\ stream' = "on"
  /\ UNCHANGED <<rows, resync, view>>

-----------------------------------------------------------------------------
(* The application. *)

(* Mutant: rows that are not in a snapshot are kept. *)
MergedSnapshot(v, e) == Over(e.rows, v)

(* A snapshot replaces the rows. *)
AppliedSnapshot(v, e) == e.rows

(* `apply_engine_event`; an update of a row that is not there is ignored. *)
Applied(v, e) ==
  CASE e.type = "Resync" -> AppliedSnapshot(v, e)
    [] e.type = "Changed" -> Over(e.rows, v)
    [] e.type = "Update" -> IF DOMAIN e.rows \subseteq DOMAIN v THEN Over(e.rows, v) ELSE v
    [] e.type = "Removed" -> Only(v, DOMAIN v \ DOMAIN e.rows)

Apply ==
  /\ inbox # <<>>
  /\ view' = Applied(view, Head(inbox))
  /\ inbox' = Tail(inbox)
  /\ UNCHANGED <<rows, stream, pending, lost, resync>>

-----------------------------------------------------------------------------
Init ==
  /\ rows \in UNION {[S -> {0}] : S \in SUBSET Ids}
  /\ stream = "started"
  /\ pending = <<>> /\ lost = FALSE /\ resync = <<>> /\ inbox = <<>>
  /\ view = <<>>

Next ==
  \/ \E S \in SUBSET Ids \ {{}} : Insert(S) \/ Change(S) \/ Remove(S)
  \/ \E i \in Ids : Progress(i)
  \/ Start \/ Receive \/ Resubscribe \/ Apply

Spec == Init /\ [][Next]_vars

-----------------------------------------------------------------------------
(* Properties. *)

(***************************************************************************)
(* Unless it has to start anew, the application will have the rows of the  *)
(* engine once it has applied what is on its way to it, whatever was lost  *)
(* before and however snapshots and changes raced.                         *)
(***************************************************************************)
ViewFollows ==
  stream # "started" /\ ~lost =>
    LET coming == inbox \o resync \o pending
        after[n \in 0..Len(coming)] == IF n = 0 THEN view ELSE Applied(after[n - 1], coming[n])
    IN  after[Len(coming)] = rows
=============================================================================
