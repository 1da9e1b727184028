----------------------------- MODULE AddDialog -----------------------------
(***************************************************************************)
(* The add dialog and the previews of its links (app/add_model.rs, app/    *)
(* update/add.rs, engine/preview.rs).  The dialog follows its text: a new  *)
(* link asks the engine for a preview, a link that left it cancels its.    *)
(* Requests and cancels are sent by tasks of their own and arrive in any   *)
(* order, so the engine remembers cancels that came early.  A submission   *)
(* runs on while the text changes or the dialog is closed and opened anew. *)
(*                                                                         *)
(* The text is a set of links, a magnet that was resolved a torrent to     *)
(* pick files from.  Left out: names, sizes and the grouping of links into *)
(* archive sets, whose parts are submitted as one; torrent files, which    *)
(* have no preview; sources that wait for another dialog to close.         *)
(* "Mutant" marks a bug that the run must notice.                          *)
(***************************************************************************)
EXTENDS Naturals, FiniteSets, SequencesExt

CONSTANTS
  Http, Magnets,  (* Links.                                                 *)
  PreviewLimit,   (* HTTP_PREVIEW_LIMIT                                     *)
  EarlyMemory,    (* EARLY_CANCEL_MEMORY                                    *)
  MaxRequests,    (* Bound: previews asked for.                             *)
  MaxDialogs,     (* Bound: times the dialog is opened.                     *)
  ClosesBusy      (* A dialog is closed while its submission runs.          *)

VARIABLES
  open, dialogs,  (* The dialog is open; dialogs opened so far.             *)
  lines,          (* The links in its text.                                 *)
  links,          (* `AddDialog::links`: state and request of each.         *)
  torrents,       (* Magnets that were resolved, with their request.        *)
  submitted,      (* What the dialog submitted, in order.                   *)
  failures,       (* What of it failed.                                     *)
  submissions,    (* Submissions that run: the dialog, the items, results.  *)
  commands,       (* Requests and cancels on their way.                     *)
  previews,       (* `DownloadEngine::previews`                             *)
  early,          (* `DownloadEngine::early_cancels`                        *)
  forgotten,      (* Cancels that memory had no room for.                   *)
  tasks,          (* Previews that run, and whether they are cancelled.     *)
  replies,        (* Results on their way to the dialog.                    *)
  done,           (* PreviewDone messages on their way to the engine.       *)
  next            (* `Shio::next_request`                                   *)

dialogVars == <<open, dialogs, lines, links, torrents, failures>>
submitVars == <<submitted, submissions>>
engineVars == <<previews, early, forgotten, tasks, done>>
vars == <<dialogVars, submitVars, commands, engineVars, replies, next>>

Links == Http \cup Magnets
States == {"unchecked", "resolving", "ready", "blocked", "failed", "stopped"}
Unasked == [state |-> "unchecked", request |-> 0]

-----------------------------------------------------------------------------
(* The dialog. *)

Requests(L) == {L[l].request : l \in {k \in DOMAIN L : L[k].state = "resolving"}}

(* `sync_links`: the torrents, links, requests and cancels of a new text. *)
SyncedTorrents(T) == [m \in DOMAIN torrents \cap T |-> torrents[m]]
Kept(T, old) == (T \ DOMAIN SyncedTorrents(T)) \cap DOMAIN old
Fresh(T, old) == (T \ DOMAIN SyncedTorrents(T)) \ DOMAIN old
PreviewsHttp(T) == Cardinality(T \cap Http) <= PreviewLimit
Asks(T, old) == {l \in Fresh(T, old) : l \in Magnets \/ PreviewsHttp(T)}

(* With too many links those that wait for a preview do without. *)
GivesUp(T, old) ==
  {l \in Kept(T, old) : l \in Http /\ ~PreviewsHttp(T) /\ old[l].state = "resolving"}

Cancelled(T, old) ==
  {old[l].request : l \in {k \in (DOMAIN old \ Kept(T, old)) \cup GivesUp(T, old) :
                             old[k].state = "resolving"}}

Synced(T, old, ids) ==
  [l \in Kept(T, old) \cup Fresh(T, old) |->
     IF l \in GivesUp(T, old) THEN Unasked
     ELSE IF l \in DOMAIN old THEN old[l]
     ELSE IF l \in Asks(T, old) THEN [state |-> "resolving", request |-> ids[l]] ELSE Unasked]

Cancel(S) == {[what |-> "cancel", link |-> "none", id |-> i] : i \in S}
Ask(ids) == {[what |-> "preview", link |-> l, id |-> ids[l]] : l \in DOMAIN ids}

(* Requests are numbered one after the other. *)
Numbered(S) ==
  LET s == SetToSeq(S) IN [l \in S |-> next + CHOOSE i \in DOMAIN s : s[i] = l]

SyncLinks(T, old) ==
  LET ids == Numbered(Asks(T, old)) IN
  /\ next + Cardinality(DOMAIN ids) <= MaxRequests
  /\ next' = next + Cardinality(DOMAIN ids)
  /\ lines' = T
  /\ torrents' = SyncedTorrents(T)
  /\ links' = Synced(T, old, ids)
  /\ commands' = commands \cup Cancel(Cancelled(T, old)) \cup Ask(ids)

(* `show_pending`: links from a launch, the clipboard or a drop. *)
Open ==
  /\ ~open
  /\ dialogs < MaxDialogs
  /\ open' = TRUE /\ dialogs' = dialogs + 1
  /\ submitted' = <<>>
  /\ \E T \in SUBSET Links : SyncLinks(T, [l \in {} |-> Unasked])
  /\ failures' = {}
  /\ UNCHANGED <<submissions, engineVars, replies>>

(* `add_urls_action`, while nothing is submitted, or another paste. *)
Submitting == submitted # <<>>
Edit(T) ==
  /\ open
  /\ T # lines
  /\ Submitting => lines \subseteq T
  /\ SyncLinks(T, links)
  /\ UNCHANGED <<open, dialogs, failures, submitVars, engineVars, replies>>

(* Mutant: a closed dialog leaves its previews alone. *)
CancelNothing == {}

(* `close_overlay` *)
CancelAll == Cancel(Requests(links))

Closed ==
  /\ open' = FALSE
  /\ lines' = {} /\ failures' = {}
  /\ links' = [l \in {} |-> Unasked] /\ torrents' = [m \in {} |-> 0]

Close ==
  /\ open
  /\ Submitting => ClosesBusy
  /\ Closed
  /\ commands' = commands \cup CancelAll
  /\ submitted' = <<>>
  /\ UNCHANGED <<dialogs, submissions, engineVars, replies, next>>

(* `apply_http_preview`, `apply_magnet_preview`: the link that asked, if it  *)
(* still waits. *)
Waits(r) == {l \in DOMAIN links : links[l].request = r.id /\ links[l].state = "resolving"}

Previewed(r) ==
  /\ r \in replies
  /\ replies' = replies \ {r}
  /\ IF open /\ r.state = "ready" /\ Waits(r) \cap Magnets # {}
     THEN /\ links' = [l \in DOMAIN links \ Waits(r) |-> links[l]]
          /\ torrents' = [m \in DOMAIN torrents \cup Waits(r) |->
                            IF m \in Waits(r) THEN r.id ELSE torrents[m]]
     ELSE /\ links' = [l \in DOMAIN links |->
                         IF l \in Waits(r) THEN [links[l] EXCEPT !.state = r.state] ELSE links[l]]
          /\ UNCHANGED torrents
  /\ UNCHANGED <<open, dialogs, lines, failures, submitVars, commands, engineVars, next>>

(* `submit`: the links that are not blocked, and the torrents. *)
Addable == {l \in DOMAIN links : links[l].state # "blocked"}
Items == {[link |-> l, pick |-> 0] : l \in Addable}
           \cup {[link |-> m, pick |-> torrents[m]] : m \in DOMAIN torrents}

Submit ==
  /\ open
  /\ ~Submitting
  /\ Items # {}
  /\ submitted' = SetToSeq(Items)
  /\ submissions' = submissions \cup {[dialog |-> dialogs, items |-> SetToSeq(Items), results |-> <<>>]}
  /\ failures' = {}
  /\ UNCHANGED <<open, dialogs, lines, links, torrents, commands, engineVars, replies, next>>

(* `add_submitted`, `finish_submit`: the results settle the items of the   *)
(* dialog that is open, one by one. *)
Settled(results) == {n \in DOMAIN submitted : n \in DOMAIN results}
Accepted(results) == {submitted[n] : n \in {k \in Settled(results) : results[k]}}
Refused(results) == {submitted[n] : n \in {k \in Settled(results) : ~results[k]}}

(* An added torrent takes its magnet along only while it is still picked. *)
AddedLinks(items) ==
  {i.link : i \in {j \in items : j.pick = 0 \/ (j.link \in DOMAIN torrents /\ torrents[j.link] = j.pick)}}

AddSubmitted(s) ==
  /\ s \in submissions
  /\ s.results # <<>>
  /\ submissions' = submissions \ {s}
  /\ submitted' = <<>>
  /\ IF open
     THEN LET remaining == lines \ AddedLinks(Accepted(s.results))
              failed == failures \cup Refused(s.results)
          IN  IF failed = {} /\ remaining = {}
              THEN /\ Closed
                   /\ commands' = commands \cup Cancel(Requests(links))
                   /\ UNCHANGED <<dialogs, next>>
              ELSE /\ failures' = failed
                   /\ SyncLinks(remaining, links)
                   /\ UNCHANGED <<open, dialogs>>
     ELSE UNCHANGED <<dialogVars, commands, next>>
  /\ UNCHANGED <<engineVars, replies>>

-----------------------------------------------------------------------------
(* The engine. *)

(* The items of a submission are added or refused. *)
AddItems(s) ==
  /\ s \in submissions
  /\ s.results = <<>>
  /\ \E results \in [DOMAIN s.items -> BOOLEAN] :
       submissions' = (submissions \ {s}) \cup {[s EXCEPT !.results = results]}
  /\ UNCHANGED <<dialogVars, submitted, commands, engineVars, replies, next>>

Reply(id, state) == replies' = replies \cup {[id |-> id, state |-> state]}

(* `start_preview`; the reply of a preview that was cancelled before is    *)
(* dropped, which `ask` takes for the end of the engine. *)
StartPreview(c) ==
  /\ c \in commands /\ c.what = "preview"
  /\ commands' = commands \ {c}
  /\ IF Contains(early, c.id)
     THEN /\ early' = RemoveFirst(early, c.id)
          /\ Reply(c.id, "stopped")
          /\ UNCHANGED <<previews, tasks>>
     ELSE /\ previews' = previews \cup {c.id}
          /\ tasks' = tasks \cup {[id |-> c.id, link |-> c.link, cancelled |-> FALSE]}
          /\ UNCHANGED <<early, replies>>
  /\ UNCHANGED <<dialogVars, submitVars, forgotten, done, next>>

(* A cancel that came early; the oldest makes room. *)
Remember(id) ==
  IF Len(early) = EarlyMemory
  THEN early' = Append(Tail(early), id) /\ forgotten' = forgotten \cup {Head(early)}
  ELSE early' = Append(early, id) /\ UNCHANGED forgotten

(* `cancel_preview` *)
CancelPreview(c) ==
  /\ c \in commands /\ c.what = "cancel"
  /\ commands' = commands \ {c}
  /\ IF c.id \in previews
     THEN /\ previews' = previews \ {c.id}
          /\ tasks' = {[t EXCEPT !.cancelled = @ \/ t.id = c.id] : t \in tasks}
          /\ UNCHANGED <<early, forgotten>>
     ELSE Remember(c.id) /\ UNCHANGED <<previews, tasks>>
  /\ UNCHANGED <<dialogVars, submitVars, done, replies, next>>

(* A preview ends: probed, resolved, failed, timed out or cancelled. *)
EndPreview(t) ==
  /\ t \in tasks
  /\ tasks' = tasks \ {t}
  /\ \E state \in {"ready", "failed"} \cup (IF t.link \in Http THEN {"blocked"} ELSE {}) :
       Reply(t.id, IF t.cancelled THEN "stopped" ELSE state)
  /\ done' = done \cup {t.id}
  /\ UNCHANGED <<dialogVars, submitVars, commands, previews, early, forgotten, next>>

PreviewDone(id) ==
  /\ id \in done
  /\ done' = done \ {id}
  /\ previews' = previews \ {id}
  /\ UNCHANGED <<dialogVars, submitVars, commands, early, forgotten, tasks, replies, next>>

-----------------------------------------------------------------------------
Init ==
  /\ open = FALSE /\ dialogs = 0 /\ lines = {} /\ failures = {}
  /\ links = [l \in {} |-> Unasked] /\ torrents = [m \in {} |-> 0]
  /\ submitted = <<>> /\ submissions = {}
  /\ commands = {} /\ previews = {} /\ early = <<>> /\ forgotten = {}
  /\ tasks = {} /\ replies = {} /\ done = {} /\ next = 0

Next ==
  \/ Open \/ Close \/ Submit
  \/ \E T \in SUBSET Links : Edit(T)
  \/ \E r \in replies : Previewed(r)
  \/ \E s \in submissions : AddItems(s) \/ AddSubmitted(s)
  \/ \E c \in commands : StartPreview(c) \/ CancelPreview(c)
  \/ \E t \in tasks : EndPreview(t)
  \/ \E id \in done : PreviewDone(id)

Spec == Init /\ [][Next]_vars

-----------------------------------------------------------------------------
(* Properties. *)

(***************************************************************************)
(* A preview that nobody waits for is cancelled: it is waited for by a     *)
(* link, or its cancel is on its way, or the engine had to forget it.  In  *)
(* turn a link is never told that the engine stopped, which it did not.    *)
(***************************************************************************)
NoOrphanPreviews ==
  /\ \A t \in tasks : t.cancelled \/ \/ t.id \in Requests(links)
                                     \/ \E c \in commands : c.what = "cancel" /\ c.id = t.id
                                     \/ t.id \in forgotten
  /\ \A l \in DOMAIN links : links[l].state # "stopped"

(***************************************************************************)
(* Only what the engine added for this dialog leaves it when a submission  *)
(* ends ("failed items stay in the form with their reason").               *)
(***************************************************************************)
FailedItemsStay ==
  [][\A s \in submissions \ submissions' :
       s.results # <<>> /\ open
         => \A l \in lines \ lines' :
              /\ s.dialog = dialogs
              /\ \E n \in DOMAIN s.items : s.items[n].link = l /\ s.results[n]]_vars
=============================================================================
