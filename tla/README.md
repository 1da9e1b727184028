# shio: specifications, model checking and proofs

shio is a download manager: a core library (`crates/shio-core`) whose engine
runs HTTP downloads, archive sets and torrents, and a desktop application
(`crates/shio-app`).  This directory holds TLA+ modules translated from the
source, the TLC runs that check them and the TLAPS proofs about them.
`PROJECT.json` maps every definition to the lines it stands for, lists the
hazards at their lines with the properties that would catch them, and gives for
every checked property a plausible bug that breaks it.

## The system

| Component | State it keeps | Operations | Talks to |
|---|---|---|---|
| Engine loop (`engine.rs`) | rows and packages in memory, start queue, worker table, previews, shutdown token | the commands of `EngineCommand`; worker exits, filename claims and metadata commits (`Internal`); `start_queued`; `stop`; `restore` | workers by `tokio::spawn` and an unbounded channel; database; subscribers by broadcast |
| Slots (`engine/job.rs`) | an atomic count and a `Notify` | `ActiveSlot::new`, `drop` | engine, every download worker |
| Progress tracker (`engine/job.rs`) | none of its own; writes rows in memory | `track_progress` | one per download worker, shares the rows with the loop |
| Requests, names (`engine/request.rs`, `filename.rs`, `path.rs`) | the paths that rows own | `into_download`, `reject_collisions`, `claim_filename`, `commit_torrent_metadata` | engine |
| Previews (`engine/preview.rs`) | running previews, the last early cancels | resolve, cancel, done | application, engine |
| HTTP worker (`worker.rs`, `probe.rs`) | staging directory, resume metadata, chunk offsets | probe, prepare, transfer, checkpoint, publish, extract | chunked transfer, database, extraction |
| Chunked transfer (`chunk.rs`) | pieces, host limits, bandwidth bucket | plan, claim, advance, release, fetch | HTTP worker |
| Torrent worker (`torrent.rs`, `torrent/`) | staging, librqbit session entries | metadata, download, publish, extract, seed | librqbit session, engine |
| Deletion journal (`engine/delete.rs`) | quarantine directories, journal rows | quarantine, rollback, commit, recover | engine, database |
| Extraction (`extract.rs`) | a temporary folder | plan, check, extract, name, tidy | workers |
| Database (`db/`) | rows, packages, chunks, journals | one transaction per write | all of the core |
| Event stream (`engine.rs`, `app/subscription.rs`) | broadcast receiver, pending resync, the application's copy | `recv`, `resubscribe`, batches | application |
| Application (`shio-app/src/app`) | list, selection, menus, dialogs, settings and their draft | commands, events, saves | engine |
| Single instance (`instance.rs`) | lock file, endpoint | acquire, listen, forward | other processes |

What is hard here:

* Commands commit a row's status while its worker still runs and will still
  report phases and an exit; two commands wait for a worker's exit inside the
  task that processes exits; slots are released by other tasks and announced by
  a permit that holds one wake-up.
* Memory, database and file system are written at different moments, and a crash
  or a failure may come between any two: at publication, at deletion, at
  checkpoints, during extraction, during a write of a row.
* A torrent's entry in the session outlives its worker and even the process, and
  operations on it may take effect after they timed out.
* The application follows the engine through a channel that drops events; its
  requests, cancels, saves and results overtake each other; a second process may
  start or die at any moment.

## Modules

| Module | What it is |
|---|---|
| `StartQueue` | the `VecDeque` operations the engine applies to its queue, without recursion |
| `Lifecycle` | abstract: the life a user sees each row and the archive set have, with tasks behind them, faults and crashes |
| `Engine` | the engine loop, its workers as tasks, progress trackers, slots, database records, shutdown and restart; implements `Lifecycle` |
| `Pieces` | how a body is cut into pieces; claim, advance, release, checkpoint bookkeeping |
| `Transfer` | one HTTP payload: the worker loop, its connections, checkpoints, cancellation, crashes, a server that changes |
| `HttpFiles` | the files of one HTTP row: owner file, partial file, publication and its recovery, unpacking |
| `TorrentFiles` | the files of one torrent row: staging, publication and its rollback, markers, unpacking, seeding, rechecks, removal |
| `TorrentSession` | one torrent's entry in librqbit's session across workers, rows and starts |
| `Extraction` | one archive set: plan, readiness, limits, temporary folder, free name, deletion of the volumes |
| `AtomicDelete` | abstract: rows and their files go together or not at all |
| `DeleteJournal` | the journalled deletion, every step a point of failure or crash; implements `AtomicDelete` |
| `Destinations` | the paths that rows own as they are added, renamed, numbered, settled and removed |
| `Filenames` | `sanitize_filename` and the validation of names |
| `Records` | rows in memory and their tables: writes in transactions, trackers that count and flush, failures, kills |
| `EventStream` | events, lag, resynchronisation, batches, the application's copy |
| `AddDialog` | the add dialog, its previews in the engine, its submissions |
| `Instance` | processes, lock, endpoint, forwarding of launches |
| `Settings` | saves of the settings that race, their results and the notice |
| `Preferences` | the settings draft, its validation, and the command queue to the engine |
| `List` | the rows shown, their order, selection, menus, keys and what they ask of the engine |
| `MCEngine`, `MCTransfer`, `MCFiles`, `MCDesktop` | values for the constants and compositions for TLC |
| `EngineProofs`, `TransferProofs`, `HttpFilesProofs`, `TorrentFilesProofs`, `DestinationsProofs` | the proofs about one module |
| `FilesProofs` | the proofs about `DeleteJournal`, `TorrentSession` and `Extraction`, and about all that `MCFiles` composes |
| `DesktopProofs` | the proofs about `EventStream`, `AddDialog`, `Instance`, `Settings` and `Preferences`, as `MCDesktop` composes them |
| `RowsProofs` | the proofs about `List` and `Records`, as `MCDesktop` composes them |

Definitions marked *Mutant* are plausible bugs.  They are not part of the model:
each one stands next to the definition it would replace and shows that a
property can fail.

`MCFiles` and `MCDesktop` check several modules in one run.  Those modules share
nothing: the variable `part` picks one at the start, only that one moves, and
`MCInit` keeps the others in a single initial state.  The state space is the
sum of theirs, not the product.

### How `Engine` corresponds to the code

* `status`, `pkg` are the rows and the package in `Shared::rows`; `durable`,
  `durablePkg` what the database records; `created` the order of `created_at`,
  in which `restore` reads.  "New" and "Gone" rows are not in the table.
* `worker[w]` is the entry of `workers` together with the task behind it: what it
  was spawned for, the phase it is in, the last report on its way to the
  tracker, its result, whether its token is cancelled, whether it holds an
  `ActiveSlot`.  A phase "exited" is an `Internal::Exit` in the loop's channel.
* `permit` is the stored permit of `Slots::freed`.
* `loop` says where the engine's task stands: "scan" in `start_queued`, "select"
  in `run`'s `select!`, "remove" and "recheck" in the awaits of those two
  commands, "stop" in `stop`, "off" once it returned.
* Commands are one action each, including the commit, the queue and the
  cancellations.  They are not atomic with respect to trackers in the code, but a
  tracker touches only rows in active statuses under the same lock, and both
  orders of such a race end in states the model has.  A command the engine
  rejects changes nothing and is no action.
* `Start` is one turn of the loop of `start_queued`, `ScanDone` its end.  A write
  that fails is the second disjunct.
* `remove` and `force_recheck` are split at their awaits: `Remove`, `StopWorker`
  for each worker, `StopTimeout`, then `RemoveRows` or `Recheck`.  Meanwhile the
  loop takes the messages of workers (`Receiving`), as `stop_worker` does.
* `Finish` and `FinishParts` are `finish`: the second is the case in which the
  exit completes the archive set and spawns its extraction.  A kill between the
  two commits gives the same record as the failed second write, so no separate
  state is kept for it.
* `Stopped` may come at any time during shutdown: the ten seconds are over, or
  all workers have left.
* `Restart` may happen at any moment: a kill (nothing but the record survives)
  and the next start, whose `restore` runs before anything else.

`Lives` maps this to `Lifecycle`: a row's life is its status without the phases of a
worker, and, once the process ended, what a restart would make of the record
(`Life`); it has a task while its entry stands in the worker table.  The queue, the
slots, reports and exits on their way and the waits of commands are not seen there.

`Engine` leaves byte counters and pins to `Records`, names and paths to
`Destinations`, the session to `TorrentSession`, events to `EventStream`.
Packages that are not to be extracted (`auto_extract` false) are left out: the
trigger is simply off.  Ids stand for rows whose paths do not collide.

### How `Transfer` corresponds to the code

* `rows` are the chunk rows of the database, `meta` the resume metadata next to
  the partial file, `cache` the partial file as the process sees it, `disk` as it
  was last synced.  A file is a sequence of blocks, each the version of the
  resource it came from, or `Hole`.  A block is what one write moves from a
  connection's buffer to the file.  A missing file is an empty one: neither is
  resumed.
* `phase` says where `download_payload` and `prepare_payload` stand; "drain",
  "final" and "verify" are what follows the loop of `transfer`.  `pieces` is
  `Pieces`, `conn[c]` one task of the `JoinSet`, `signals` the messages that make
  the loop add a connection, `failure` and `stop` the loop's result and its
  child token.
* A preparation that resets is `ResetRows`, `Create`, `Identify`, in the order of
  the code: rows first, then the file, then the metadata.  A failing step of it
  ends the run as a kill does.
* A connection's `at` names the await it is in.  `Send` is apart from the answer,
  because a cancelled token beats a request that has not been polled, and either
  may win afterwards.  `restart` is split at its await, between the truncation of
  an open-ended file and the reset of its count.  Writing a block and counting it
  are two steps.
* `checkpoint` is `TakeSnapshot`, `Sync`, `Update`, `MarkSaved`, and connections
  write on between them.  The database runs with `synchronous=FULL`, so its rows
  are durable with the commit; the metadata are written atomically and synced.
* `Crash` keeps of every write since the last sync all or nothing, and either
  length of the file (`Survivors`).  That everything survives is one of these
  outcomes: a kill.
* Servers honour If-Range and frame their bodies.  `ServerChanges` replaces the
  resource between any two requests, or moves it to a machine without ranges;
  which servers there are is the constant `Servers`.  `gone` and `returned` are
  history: the versions the server held before, and whether one of them came
  back.  No guard reads them; theorems and known limits speak of them.
* `Publish` is one step here: `HttpFiles` has its steps.

### How the file modules correspond to the code

* `HttpFiles`.  `root`, `partial`, `metadata`, `place` are the staging directory,
  `payload.part`, `resume.json` and the destination.  The worker's `pc` goes
  through `ensure_root`, `recover_publication`, `prepare_payload`, `publish`
  (intent, rename, record) and the extraction, one file system operation a step.
  `Intrude` is a user who puts a file at the destination, of another size or of
  the same; `Restart` a kill at any step.  What was written survives a kill.
  `restore` sees what the database was told, and `track_progress` tells it no
  status: only an extraction that `retry_extract` started is recorded as one
  (`RecordedExtracting`) and tidied up after; one at the end of a download is taken
  for a download and queued again.  `scratch` counts the half-filled folders.
* `TorrentFiles`.  `staging`, `place` and the markers, with `publish_payload`
  file by file (hard link, else copy, else move back on failure), `auto_extract`,
  the seed, `force_recheck`, removal, and the detached clean-up of
  `forget_torrent`.  `unpack` is history: whether the payload is still to be
  unpacked.  A restart sees what was recorded, as in `HttpFiles`.  Reports reach the
  row at once and a removal of files is one step: `Engine` and `DeleteJournal` have
  those in detail.  Assumed: the tick of `download_phase` sees a detached task's
  effects only when it is done (`DownloadTick`).
* `TorrentSession`.  `entry` is the session's entry for one info hash: which
  row's folder it has, its state, whether an operation on it failed; `late` a
  pause that timed out and may still take effect; `forgetting` the detached task.
  Assumed: the next row of a torrent is added once the worker and the tasks of
  the one before are done, and the old row is left alone then (see Known limits).
* `DeleteJournal`.  `quarantine_one`, `rollback`, the transaction, `commit` and
  `recover`, step by step; a failure of any of them, a kill at any point, and a
  user who puts a file where a quarantined one came from.
* `Extraction`.  `step` follows `run_extract` and `extract`.  Archives are
  records with volumes and entries whose declared and real sizes may differ; the
  readers of formats are external, modelled by when they fail.
* `Destinations`.  `rows` own the paths they write; `Add...` runs
  `reject_collisions` against rows and disk, `ClaimFilename` and the metadata
  commit rename later.  Paths are sequences of components and compared as the
  code does, in lower case and with prefixes.
* `Filenames`.  Every name up to `MaxLength` characters, by class of character,
  is given; `NamesAreStable` compares one pass with the next.

### How the application modules correspond to the code

* `EventStream`.  Each change of the rows and its event are one step, for every
  event is sent under the rows' write lock.  `pending` is the broadcast channel
  as one receiver sees it, `resync` the snapshot that comes first after a lag,
  `inbox` the batches iced has not handed over.
* `AddDialog`.  `commands` holds requests and cancels that tasks of their own will
  send, in any order; `early` is `early_cancels` with its bound; a submission runs
  on when its dialog is closed.
* `Instance`.  One value of `phase` per await of `acquire`, `forward` and the
  listener; the kernel's backlog of connections; kills at any step.
* `Settings`, `Preferences`.  A change is applied, saved by a task under
  `SAVE_GATE`, and sent through the command queue, whose overflow is a task.
  The notice that a save failed may be dismissed at any time; then the user was told.
* `List`.  `refresh` after any change of the contents, then what clicks, keys and
  menus do.  `Records`.  `pending` is the write between reading a row and changing
  it in memory; trackers count and flush in between.

## Runs

Each passing run reaches the whole state space of its bounds.

| Run | Instance | Question |
|---|---|---|
| `engine_torrents` | two rows of one torrent, one slot, queue of at most 3, one restart | do rows, queue, workers, slots and wake-ups agree under every row command, and do the rows follow `Lifecycle`? |
| `engine_package` | an archive set of two parts, two slots, `set_config`, one failed write, one restart | is the set extracted only while complete, by one worker; do the parts and the set follow `Lifecycle`, whose crashes ask that the record says what the user was told? |
| `engine_live` | an archive set, one slot, fairness | do queued rows start, waits end, cancelled workers leave? |
| `transfer_connections` | one resource of five blocks in three pieces, two connections, one retry, failures everywhere, fairness | has each piece one writer, does a transfer end? |
| `transfer_resume` | four versions of two or three blocks, one connection, two runs, one change of the server, one checkpoint by the clock | is every byte counted really there, from one version, resumable, and published whole? |
| `files` | the seven file modules, each with failures, kills and a user in the same folder | is what is published whole and the row's own, nothing lost or left behind, a removal atomic, no path shared, every name stable? |
| `desktop` | the six application modules and `Records` | does the view follow, is every preview waited for or cancelled, every launch opened, the last setting saved and sent, do keys act on what is shown, is the record what a restart must show? |
| `engine_package_stuck`, `torrent_not_unpacked`, `engine_duplicates`, `delete_stuck`, `add_stale` | minimal | the findings below |

Bounds.  Two rows are enough for every relation between a row that works, one
that waits and one that drains, and one slot makes them compete; two parts make
the order of exits matter.  `MaxQueue` bounds what commands push, so that a row
can stand in the queue twice (3 with two rows).  One restart suffices because
a restart forgets everything but the record, of which every reachable one is
restarted from.  One failed write shows each failure path in every context; the
theorems below do not depend on any of these bounds.  The rows of `engine_torrents`
are symmetric: no order of ids is used.  No run checks
`NoRevival` and `CrashLosesNothing` by themselves, for the refinement says as much of
them; they are theorems.  Deadlock is not checked:
after `Shutdown` the engine has returned, a published transfer is over, and the
bounds end every run.

Five blocks in pieces of two, two and one, with two connections, meet every case of
`claim` and `advance`: the second connection takes the middle of the run behind the
first, which then streams on into the piece between them.
`MCTransfer` checks the order of claims on eight pieces by evaluation.  Of the
versions, v and w have a validator and the same length, so that they can be
taken for each other; u has neither validator nor an announced length, so that it
comes as one stream that no run resumes; x has a validator only, so that its
stream is resumed.  Two runs suffice for what a run leaves to the next: all of it
is in `rows`, `meta` and the file, and the second run starts from every such
state.  One change of the server falls between any two requests of either run; it
never serves x without ranges (`NoneRegrown`, see Known limits).  `MaxSignals`
drops a wake-up only while another one waits.  `TransfersEnd` is about transfers of
several pieces: with one piece, any progress resets the count of retries
(chunk.rs:322), and a stream that breaks after its first block may begin again for
ever.

In `files`, a torrent of two files shows a publication that stops half-way; an
HTTP row meets two kills, so that a recovery is itself interrupted; a removal of
two rows, one with one file and one with two, meets three failures and two kills:
a step fails, its rollback fails, and recovery is killed.  The archives are one
for each way in which entries may lie, collide or be missing.  Names of two
letters in two cases, one too long for a number, two folders of which one is
named like a file, and three torrents whose files collide with each other or
with a folder are what `Destinations` needs for every kind of overlap.  Names of
five characters in six classes reach every rule of `sanitize_filename` with a
limit of four bytes.

In `desktop`, a channel of two events is overrun by three changes; one early
cancel fills the memory of early cancels, so that another one is forgotten; of
three processes one is killed while the two others start; three saves are
enough for an old failure and an old success around the last one; the lists hold
every status, and every two statuses of a set's parts.

`QueuedRowsWait` and `NoLostWakeup` are run without failed writes; the theorems
say what holds with them.  A failed Error write in `force_recheck`
(engine.rs:947) leaves a Queued row in no queue.

What each property says stands above it in its module.

### Fairness

`FairSpec` of `Engine` asks of the loop that it goes on (weak fairness of its own
steps, which stay enabled), and strong fairness of the branches of `select!`: they
are not enabled while the loop scans or a command waits, and tokio picks at random
among the ready ones, so none that is ready again and again is passed over for
ever.  Tasks run until they send their exit.  Transfers and extractions are
assumed to end, torrents only once cancelled, for a seeding torrent may go on
for ever.  Nothing is asked of users, timeouts, faults, or restarts; `Stopped` is
fair because the code has a deadline there.

In `Transfer` the loop, the checkpoint and each connection are weakly fair: they are
tasks, and a step of theirs that is possible stays possible until it is taken or a
fault takes its place.  Broken connections, failing writes, missing answers,
cancellation, crashes and changes of the server are not fair.

In `TorrentSession` only `CheckState` is fair: a running worker is polled at each
tick of its interval.

## Findings

1. `engine_package_stuck`: the last part of a set that finishes during shutdown
   leaves the set complete but never extracted, not after a restart either
   (engine.rs:1121, 1347); the application shows it as completed and offers no
   extraction.
2. `torrent_not_unpacked`: a torrent unpacks only in the run that publishes it
   (`was_published`, torrent.rs:166 and 175).  A run that is paused, cancelled,
   killed or quit after the payload was published and before it was unpacked is
   resumed by one that skips the extraction; the row completes, nothing was
   unpacked and no menu offers it (against views/settings.rs:179).  The run needs no
   kill, only a pause while the payload is published.
3. `engine_duplicates`: a failed final write turns a cancelled row, whose torrent
   was added again, back into an unfinished one; resumed, it makes a database
   that `restore` refuses (engine.rs:1116, 637 against 550).
4. `delete_stuck`: a row whose rollback could not move a file back, removed again
   before the next start, drops the journal that names the file
   (delete.rs:215, 242 against its first line).
5. `add_stale`: the results of a submission whose dialog was closed settle the
   items of the next dialog by position (update/add.rs:167).

### Known limits of the code, met while modelling

The properties above hold with these excluded by an assumption that is named at
the constant or action, or they are outside what a property speaks about:

* A worker that ends with success before it sees the cancellation of
  `force_recheck` turns the row Completed (engine.rs:1288), although the comment at
  engine.rs:937 says that the exit keeps it queued; the recheck is lost and the command
  answers Ok.  `QueuedRowsWait` is about rows that are still Queued.
* The `.shio-extract-*` folder of an extraction that was killed at the end of a
  download stays: its row is not recorded as Extracting, and no worker calls
  `remove_stale_staging` (only the restore of another extraction in the same directory
  would), which says "call before any extraction" (extract.rs:175).
  The row is queued again; killed after its folder was published, an HTTP row unpacks
  once more, into "(2)", or downloads again if the archive was deleted already.
  `NoTraceLeft` allows one such folder for each kill.
* A whole body is accepted by its length alone and recorded under the probe's
  validator (chunk.rs:422): a resource that changes and changes back is resumed
  behind bytes of the other version.  `transfer_resume` lets the server change once;
  the theorems about single streams have `[]~returned` as a hypothesis.
* A resumable stream without a length, on a server that ignores ranges, truncates
  its file while a row or a checkpoint under way counts the old bytes
  (chunk.rs:524): `NoneRegrown` in the run, `~Regrows` in the theorems.
* The loop of `transfer` still starts a connection after `stop` when a message
  waits (worker.rs:212), which that connection undoes; a connection that breaks
  after its last byte asks for an empty range, and the 416 fails the download.
* Stops, pauses and deletions in the session act by info hash
  (engine.rs:870, 985): removing a finished row of a torrent deletes the entry of a
  newer one, whose worker then fails.  `TorrentSession` leaves the old row alone.
* A torrent never adopts a bare staging directory, the state between making it and
  writing its owner file.
* A failed sync of the folder after the rename of an extraction makes a retry use
  the next free name, "(2)"; a RAR set retried by hand is not checked for missing
  volumes first; folders that an extraction made are not claimed against later rows.
* The rollback of a deletion renames a file back over one that was put there
  between its check and the rename; a crash between making the quarantine
  directory (delete.rs:162) and its journal leaves an empty directory.
* A name derived from a URL that equals a numbered name lets a published row be
  renamed after a crash.
* A command that finds the queue full is left to a task, and newer ones may
  overtake it, against the comment at update/mod.rs:342: `SettingsReachEngine` is
  about a queue that has not been full.
* Menu and row button offer "resume" for cancelled rows (menus.rs:121,
  download_row.rs:162), which the engine rejects; "verify files" of a selection
  counts every torrent as eligible (list.rs:170), so that busy ones are asked and
  refused; the menu of a failed row lacks "stop download" although it could be
  cancelled.  `OfferedIsAccepted` leaves these three out.
* Opening and closing the settings turns seed policies of ratio or time alone into
  one of both, and rounds odd speed limits (state.rs:188-283).
* A completion is not announced if the view missed the seeding before it.

## Proofs

TLC agrees with every property below on its run; TLAPS proves them for all values
of the constants.

**`Engine`**, for any rows, any archive set, any limits and bounds; the
assumptions are those of `EngineAssumption` (finitely many rows, HTTP and torrent
ids disjoint, the set's row id distinct, natural bounds), which TLC evaluates in
each run.

* The queue: `Retain` returns a well-formed queue with exactly the wanted
  entries (by way of `RankIsBijective`: ranks enumerate a finite set of
  positions), and what appending, dropping and orderings do to the entries.
* `EngineProofs!TypeCorrect`: `TypeOK` is inductive, one step per action.
* `WorkersAndRowsAgree` and `CrashesLoseNothing`, from the invariant
  `IInv == TypeOK /\ Agreement /\ WaitCovers`.  Agreement between table and rows is
  not inductive alone.  `RemoveRows` drops rows without looking into the table: it
  is right because the wait before it has seen every worker of the command's rows
  off (`WaitCovers`), the one that extracts a set last, since a part that completes
  during the wait may still start it.  A tracker may move a row only while a
  download owns it (`WorkerShape`).  `CrashLosesNothing` needs the job of the worker
  of an active row and is proved along with the agreement.  The lemmas
  `Agreement...` state how each kind of step keeps it, and the actions cite them.
* `OneWorker`, `LateReports`, `LateExits` and `Bounded` rest on what one step can do
  to one entry of the worker table (`StepOfWorker`): it stays, departs by its exit,
  or is entered where none was.  A row turns active only with its entry
  (`Activation`), and an entry takes a slot only in `Start`, which looked for a
  free one (`SlotsStep`).
* `WakesForWork`: the loop comes to wait only from a scan that found nothing to
  start, and a task that gives a slot back leaves the permit in the same step
  (`TaskPermits`).
* `NoRowIsForgotten`: `QueuedRowsWait` while no write has failed, or no row is a
  torrent; the condition excludes exactly the failed recheck of engine.rs:947.  It
  needs that the database lists every row there is (`RowsAreListed`), for a restart
  queues from that list.
* `ExtractsFinishedParts`: a part must be neither taken back nor at work under the
  extraction.  A removal of the set has seen the extraction off (`WaitCovers`), a
  recheck is of a torrent, and a part never seeds, or `StopSeeding` would complete
  it under its worker (`HttpRowsEnd`).
* `EngineIsALifecycle`: each step of `Engine` is one of `Lifecycle` or a stutter.
  Beyond `IInv` this needs `LifeInv`, which is inductive too: a row is in memory just
  when the database has it and likewise for the set (`RowsAreRecorded`,
  `SetIsRecorded`), parts come and go with their set (`SetIsWhole`), the row
  that a command waits for is still there (`TargetIsPresent`), and a row shows that
  it is unpacked only while its worker unpacks (`ExtractsShow`).  That a restart is
  a `Crash` of the abstract engine is `CrashLosesNothing`; that removed rows have no
  task is `WaitCovers`; that a worker starts where there is none is in the table.

**`Transfer`** and **`Pieces`**, for any number of connections, pieces, versions and
servers, any piece size and any bounds; the assumptions are `TransferAssumption`
and `PiecesAssumption`.  The invariant has five layers, and each is inductive only
with those before it:

* `Control`: a busy piece has exactly one owner, and what the owner believes to
  have of it is what `Pieces` counts (`Owned`).  `OneWriterPerPiece` alone is not
  inductive: two connections are kept apart by the busy flag, which says nothing
  until it is tied to an owner.  `claim` is right because the run it picks is
  free: that a run with the greatest sum exists and contains a free piece is
  `ClaimsFreePiece`.
* `Shape`: while a worker runs its pieces are the database's rows, cut as
  `plan_pieces` cuts (`PlanPiecesTile`), and several of them only with a validator
  to ask for.
* `Talks`: what each connection has asked for and been answered (`Asked`), that a
  probe tells the length of what it names, that a version that is not the probed
  one is either to come or gone, and that the loop sees every failure before it ends.
* `Contents`: where in the file what is counted lies, and of which version it is;
  a block that was just written is still there when it is counted, for no other
  connection writes that piece.
* `Storage`: what the rows and metadata promise is on the disk as well as in the
  file, and what a checkpoint under way will promise is there too.  A crash leaves
  of each block the one in the file or the one last synced; both keep the promise.

From these: `OneWriter`, `NothingIsLeftBehind`, `ProgressNeverGoesBack` and
`PiecesHoldOneVersion` hold with no hypothesis.  `CountedIsWritten`, `ProgressResumes`
and `DeliversWhole` have two, which are the two known limits of a single stream
above and are satisfied by the run `transfer_resume`: `~Regrows`, no server with a
tagged resource of unknown length and without ranges, and `[]~returned`, no
replaced version comes back.  Where one of them fails, the code does what the limit says.
The bodies of several pieces need neither, for every 206 names its version.

The sums in `Pieces` are folds.  Where a proof needs an
induction (a sum over a run, a greatest run, rows end to end) it takes the least
member of a set of numbers (`LeastNatural`, from the well-foundedness of the natural
numbers), since the induction rules of the library take an operator.

**`HttpFiles`**, without assumptions: `NeverRefusesItsOwn`, `CompletesWithItsOwn`,
`LeavesNoScratch` and `SparesForeignFiles`.  `LeavesNoScratch` says that a row that
rests has left no more half-filled folders than it was killed; while it unpacks there
is one more, which every way out of the extraction but a kill drops.  The rest of the
invariant is what the metadata know about the destination: the own payload is there
only if it is recorded as published, or the intent is recorded and the partial file is
gone or was linked (`OwnIsRecorded`), and conversely (`MovedIsThere`, `PublishedIsOwn`).

**`TorrentFiles`**, for any payload: `PublishedPayloadsAreWhole`,
`NothingDownloadedIsLost` and `SparesForeignFiles`.  The
invariant says of each place that may claim that the payload is published (the
marker, the status, the step of the worker) that it is, and of a publication under
way that it can be taken back: every file is whole in staging or one that the
rollback moves back, and those are at their destinations (`Publishing`).

**`Destinations`**, without assumptions: `DestinationsAreOwned`.  Of paths only
that prefixes compose is used.

**The files together** (`FilesProofs`).  A step of `MCFiles` moves one part and
leaves the variables of the others alone, so `MCSpec` implies the specification of
each (`RemovalRuns`, `PublishedRuns`, `SessionRuns`, `HttpRuns`, `SetRuns`,
`PathsRun`, `NamesRun`) and what is proved of a part holds of `MCSpec`; that is how the safety
properties of the run `files` become theorems, those about several parts
(`NoTraceLeft`, `UserFilesStay`) included.  The hypotheses are
`RemovalAssumptions` (each file has an owner among the rows, and nobody retries as
in finding 4: `RetryWhileStuck = FALSE`), that the payload is a sequence, that
`MAX_DESTINATION_ATTEMPTS` is a number, and for archives and names what is said
below.  The parts proved about here:

* The removal, for any number of rows and files and any failures, crashes and
  intruders.  `NothingIsForgotten` needs an invariant that says for each stage of the
  removal which owners have been moved, which directories exist, and what a
  rollback or `recover` has still to move (`Stage`).  `RemovalIsAtomic`: every step
  is one of `AtomicDelete` or a stutter, where a quarantined file counts as long as
  its row does; the step that deletes the rows maps to a removal of all because
  `OwnersInOrder` has moved every owner before it.  No file of the user is touched
  because one can only be where a quarantined file came from, and then a journal
  forbids the next removal (`ForeignApart`).  `LeavesNoTrace`: as long as nothing
  disturbs it, what there is of directories and journals is of owners that the
  removal still has to purge, and the folder is judged after staging went (`Tidy`).
* `TorrentsRunForTheirRow`, for any number of rows of the torrent: a worker resumes
  a paused entry without asking whose it is; that the entry is its row's
  (`WatchesItsOwn`) is what makes it right.
* `VolumesGoUnpacked`: the folder that was published is there until the volumes
  are gone, for nothing replaces a folder (`FoldersStay`, `StaysFilled`).
* `FoldersHoldTheArchive`, for any archives whose entries have sizes and any limits
  (`ArchiveAssumptions`).  The invariant says of the temporary folder, entry by
  entry, which names it holds, that no file and no sum of files is above its limit,
  and that the count of entries bounds the names (`Loaded`); and that a set that was
  found complete stays so from that look until its folder is published, whatever the
  user puts beside it (`StaysComplete`).  The total is a fold over a set: `SumGrows`,
  that one more file adds its size whatever order the fold takes, is proved by a
  least counterexample among the subsets (`TotalsAdd`, `TotalsAgree`).
* `SanitizedNamesAreStable`, for names of any length and any limits of which that on
  an extension is not above that on a name (`NameAssumptions`; 16 and 240 bytes in the
  code).  The argument is that no stage undoes what an earlier one did: what joins
  dots leaves none beside another (`NothingClimbs`), what trims or cuts returns a part
  of its text, flat as that is and of no more bytes (`PartIsFlat`, `BytesOfPart`), an
  extension is put back behind one dot and ends as the name did (`ExtensionKept`),
  and a device's name keeps the `_` in front whatever is cut behind it
  (`EscapedIsFinal`).  Each stage leaves such a text as it is, so the second pass does
  nothing (`FinalIsValid`).  The fold over the characters is followed without an
  induction rule, by the least place where it would fail (`JoinsExist`, `AllUpTo`).

**What the user is shown** (`DesktopProofs`, `RowsProofs`).  As with the files, a step
of `MCDesktop` moves one part, so `MCSpec` implies the specification of each
(`StreamRuns`, `DialogRuns`, `InstancesRun`, `DraftRuns`, `SettingsRun`, `ListRuns`,
`RecordsRun`), and all safety properties of the run `desktop` are theorems.  TLC
evaluates to true, with the values of the run, every hypothesis named below.

* `WindowFollowsEngine`, for any rows with any contents and queues of any length
  (`EventAssumptions`).  The invariant is that applying what is on its way (the
  copy, the inbox, a snapshot that was asked for, what the channel still holds) gives
  the engine's rows (`Becomes`, a chain of copies along the events), or that
  events were dropped and the receiver has yet to notice.  A snapshot stands for
  every event before it, which is what makes the events that raced it harmless.
* `PreviewsAreAwaited`, for any finite sets of links and any bounds of the engine and
  the dialog (`AddAssumptions`).  Every request number lives once: with a link of
  the dialog, as a command, a task, a reply or a number that the engine remembers
  as cancelled before it came.  What has no link has a cancellation behind it.
* `HandedOverIsOpened`, without hypotheses.  Every launch is in one place of one
  instance (`InstanceInv`): in the connection, in the hand of the server, in its
  channel, opened or dropped; an instance that accepts launches serves all that
  wait for it, and what it acknowledged it has opened, will open or has counted
  as dropped.
* `EngineHasSettings`, for any valid settings and any typed numbers
  (`DraftAssumptions`: limits, ports and days are numbers, a unit is not zero, the
  least limit is within one unit).  Whatever is typed, applying the draft makes
  valid settings, and the last command that is queued carries those of the window.
* `LastSettingsAreSaved`, for any number of changes.  The save of the last settings
  waits, is being written, has been written or is known to have failed, and a
  result that says otherwise is one of an older save (`ResultsHold`).  A notice that
  the user dismissed has been read.
* `MenusOfferWhatWorks` and `RowsFollowLists`, for any lists of downloads and archive
  sets whose ids are distinct, and where the listed parts of a set are HTTP
  downloads, which are complete when the set's extraction has failed
  (`ListAssumptions`).  The rows shown are those derived from what was
  told last (`ListInv`), in an order of which only that there is one is used; a
  step that changes them leaves nothing selected that is not shown.
* `RecordFollowsRows`, for any sets of downloads apart from the downloads' own ids
  (`RecordAssumptions`).  What is recorded is not enough for an induction: between
  preparing a transaction and applying it, a tracker may count and flush.  The
  invariant (`RecordInv`) says that what the transaction *would* make of the tables
  agrees with what the loop *would* make of the rows (`Prepared`), and that before
  it is written the old tables agree with the old rows.  A flush disturbs neither,
  since the count of a download with a worker is excused on both sides
  (`BesideKeeps`), and when the worker has left, its count is written with the
  status (`FinishPrepares`).  That a set's parts are removed with it needs that no
  download is part of two recorded sets (`Loadable`).

Only model-checked:

* liveness (`QueuedRowsStart`, `CommandsEnd`, `TransfersEnd`,
  `PausedTorrentsResume`): fairness and ENABLED are out of the prover's reach;
* what the findings refute (`FinishedSetIsExtracted`, `CompletedWasUnpacked`,
  `RestoreAccepts`, `FailedItemsStay`, and `QuarantineIsJournaled` where such a removal
  is retried).

## Not modelled, and why

* The probe's requests and redirects, host limits and the bandwidth bucket: a
  permit may be missing whenever a connection would be added, and a limit only
  delays.  The halves of the speed limit that torrents get are arithmetic.
* Parsing of URLs, headers, magnets, bencode and configuration files, encoding of
  columns, checks on hostile databases: functions of one input, which the tests
  cover.
* librqbit, the archive readers, SQLite, iced and the operating system: external,
  modelled by how the code uses them.
* Views, widgets, themes, search ranking, tray, platform glue, toasts, drag and
  drop, the arrow keys: they keep no state that outlives a frame, or none that
  interleavings, failures or crashes could break.

## Next

Two rows of one torrent at the same time in `TorrentSession`, as a violation of what
removal promises.  In `Lifecycle`, an error that could not be written may become any
settled status after a crash; the record behind it would say which.
