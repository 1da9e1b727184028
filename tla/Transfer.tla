------------------------------ MODULE Transfer ------------------------------
(***************************************************************************)
(* One HTTP payload on its way from a server to the disk: the worker loop  *)
(* that spawns connections and checkpoints (worker.rs), and the connections*)
(* that fill pieces (chunk.rs).                                            *)
(*                                                                         *)
(* The worker can be cancelled, the process or the machine can stop at any *)
(* moment, and the server can replace the resource between two requests.   *)
(* What survives is the database's chunk rows, the resume metadata and     *)
(* those blocks of the partial file that were synced or happened to be     *)
(* written back.                                                           *)
(*                                                                         *)
(* A block stands for the bytes that one write moves from a connection's   *)
(* buffer to the file; what is only buffered is lost in a crash just like  *)
(* what was never received.  A missing file is an empty one: neither can be*)
(* resumed.  Servers honour If-Range and frame their bodies, so a stream   *)
(* ends cleanly only at the end of the resource.  Left to other modules:   *)
(* the probe's own requests, rates and limits, and the publication of the  *)
(* finished file, which is one step here.                                  *)
(***************************************************************************)
EXTENDS Pieces

CONSTANTS
  Versions,       (* What the server may hold at the URL.                   *)
  Servers,        (* ... and whether it serves ranges of it.                *)
  Size,           (* The length of each version, in blocks.                 *)
  Tagged,         (* The versions that come with a strong validator.        *)
  Announced,      (* The versions whose length a probe learns.              *)
  Conns,          (* The connections one transfer may have, `segments`.     *)
  MaxRetries,     (* max_retries.                                           *)
  MaxRuns,        (* Bound: times a worker is started.                      *)
  MaxChanges,     (* Bound: changes of the server.                          *)
  MaxTicks,       (* Bound: checkpoints by the clock.                       *)
  MaxSignals      (* Bound: 206 answers the loop has not yet looked at.     *)

ASSUME TransferAssumption ==
  /\ IsFiniteSet(Conns) /\ Conns # {}
  /\ Size \in [Versions -> Nat]
  /\ Servers \subseteq [version : Versions, ranges : BOOLEAN]
  /\ Tagged \subseteq Versions
  /\ Announced \subseteq Versions
  /\ {MaxRetries, MaxRuns, MaxChanges, MaxTicks, MaxSignals} \subseteq Nat

None == "none"
Hole == "hole"    (* A block of the file that nobody wrote.                 *)
ASSUME TransferNames == {None, Hole} \cap Versions = {}

VARIABLES
  server,         (* What the server holds, and whether it serves ranges.   *)
  gone,           (* History: the versions it held before.                  *)
  returned,       (* History: one of them came back.                        *)
  rows,           (* The chunk rows in the database.                        *)
  meta,           (* The resume metadata on disk.                           *)
  cache,          (* The partial file as the system shows it.               *)
  disk,           (* The partial file as of its last sync.                  *)
  phase,          (* Where the worker is.                                   *)
  probe,          (* What its probe learned.                                *)
  pieces,         (* `Pieces`.                                              *)
  conn,           (* The connections.                                       *)
  target,         (* How many the loop wants.                               *)
  signals,        (* The messages in `ranged`.                              *)
  failure,        (* Why the transfer stops.                                *)
  cancelled,      (* The job's token.                                       *)
  stop,           (* The transfer's child token.                            *)
  saving,         (* The checkpoint under way.                              *)
  snapshot,       (* The rows that checkpoint writes.                       *)
  delivered,      (* The published file, as a set of at most one.           *)
  runs, changes, ticks

diskVars == <<rows, meta, cache, disk, delivered>>
loopVars == <<phase, probe, target, failure, cancelled, stop>>
saveVars == <<saving, snapshot>>
serverVars == <<server, gone, returned, changes>>
(* What no step of the worker itself touches. *)
outside == <<serverVars, runs>>
transferVars == <<pieces, conn, signals, saveVars, ticks>>
vars == <<serverVars, diskVars, loopVars, pieces, conn, signals, saveVars,
          runs, ticks>>

Phases ==
  {"off", "prepare", "create", "identify", "transfer", "drain", "final", "verify", "done"}
Ends == {"complete", "refused", "failed", "cancelled"}
(* A connection that still owns its piece. *)
Writing ==
  {"request", "restart", "asked", "body", "written", "fetched", "error", "pause", "quit"}
Errors == {None, "transient", "fatal", "cancelled", "refused"}
Connection ==
  [at : {"off", "claim"} \cup Writing \cup Ends, piece : Nat, downloaded : Nat,
   progressed : BOOLEAN, retries : Nat, error : Errors,
   from : Versions \cup {None}]

-----------------------------------------------------------------------------
(* Files *)

(* `write_all_at` one block at offset o. *)
WriteAt(f, o, v) ==
  [i \in 1..Max({Len(f), o + 1}) |->
     IF i = o + 1 THEN v ELSE IF i <= Len(f) THEN f[i] ELSE Hole]

(* What may be left of a file after a crash: of each write since the last   *)
(* sync all or nothing, and either length.                                  *)
Survivors(now, synced) ==
  {[i \in 1..n |->
      IF i \in kept /\ i <= Len(now) THEN now[i]
      ELSE IF i <= Len(synced) THEN synced[i] ELSE Hole] :
     n \in {Len(now), Len(synced)}, kept \in SUBSET DOMAIN now}

-----------------------------------------------------------------------------
(* The identity of a resource: HttpProbe and ResumeMetadata. *)

Tag(v) == IF v \in Tagged THEN v ELSE None
NoIdentity == [tag |-> None, length |-> Unknown]
Identity ==
  [tag |-> Tag(server.version),
   length |-> IF server.version \in Announced THEN Size[server.version] ELSE Unknown]

(* Mutant: the resource may have changed. *)
SameLength(saved, other) == saved.length = other.length

(* `same_resource` *)
SameResource(saved, other) ==
  /\ saved.tag # None
  /\ saved.tag = other.tag
  /\ saved.length = other.length

(* `resumable` *)
Resumable(saved, total, ranged, length) ==
  IF total = Unknown
  THEN /\ Len(saved) = 1
       /\ saved[1].downloaded \in 1..length
  ELSE /\ Tiles(saved, total)
       /\ \A i \in DOMAIN saved :
            saved[i].downloaded > 0 => saved[i].start + saved[i].downloaded <= length
       /\ length <= total
       /\ ranged \/ Len(saved) = 1
       /\ \E i \in DOMAIN saved : saved[i].downloaded > 0

Total == probe.identity.length
RequireRange == Len(pieces) > 1
IfRange == probe.identity.tag

NoConnection ==
  [at |-> "off", piece |-> 0, downloaded |-> 0, progressed |-> FALSE,
   retries |-> 0, error |-> None, from |-> None]
Connections == {c \in Conns : conn[c].at # "off"}

Piece(c) == pieces[conn[c].piece]
Offset(c) == Piece(c).start + conn[c].downloaded
(* `room` is positive. *)
HasRoom(c) == Piece(c).len = Unknown \/ conn[c].downloaded < Piece(c).len
(* `load` *)
Loaded(k, i) == [k EXCEPT !.piece = i, !.downloaded = pieces[i].downloaded]

-----------------------------------------------------------------------------
Goto(p) == phase' = p /\ UNCHANGED <<probe, target, failure, cancelled, stop>>

(* `download_payload` *)

(* The probe answers and the worker runs. *)
Begin ==
  /\ phase = "off"
  /\ delivered = {}
  /\ runs < MaxRuns
  /\ runs' = runs + 1
  /\ probe' = [identity |-> Identity,
               ranged |-> server.ranges /\ Identity.tag # None]
  /\ phase' = "prepare"
  /\ UNCHANGED <<serverVars, diskVars, target, failure, cancelled, stop,
                 transferVars>>

(* `prepare_payload`: resume, or reset the rows before the file. *)
Resumes ==
  /\ Resumable(rows, Total, probe.ranged, Len(cache))
  /\ SameResource(meta, probe.identity)

Resume ==
  /\ phase = "prepare"
  /\ Resumes
  /\ cache' = IF Total = Unknown THEN SubSeq(cache, 1, rows[1].downloaded) ELSE cache
  /\ Goto("identify")
  /\ UNCHANGED <<outside, rows, meta, disk, delivered, transferVars>>

(* Mutant: the file is truncated first, the rows are left for later. *)
KeepRows ==
  /\ phase = "prepare"
  /\ ~Resumes
  /\ rows' = IF rows = <<>> THEN PlanPieces(Total, probe.ranged) ELSE rows
  /\ Goto("create")
  /\ UNCHANGED <<outside, meta, cache, disk, delivered, transferVars>>

(* `replace_chunks` *)
ResetRows ==
  /\ phase = "prepare"
  /\ ~Resumes
  /\ rows' = PlanPieces(Total, probe.ranged)
  /\ Goto("create")
  /\ UNCHANGED <<outside, meta, cache, disk, delivered, transferVars>>

(* `File::create` *)
Create ==
  /\ phase = "create"
  /\ cache' = <<>>
  /\ Goto("identify")
  /\ UNCHANGED <<outside, rows, meta, disk, delivered, transferVars>>

(* `write_resume_metadata`, then the transfer begins. *)
Identify ==
  /\ phase = "identify"
  /\ meta' = probe.identity
  /\ pieces' = Load(rows, Total)
  /\ target' = Cardinality(Conns)
  /\ stop' = cancelled
  /\ failure' = None
  /\ phase' = "transfer"
  /\ UNCHANGED <<outside, rows, cache, disk, delivered, probe, cancelled, conn,
                 signals, saveVars, ticks>>

(* `connections.spawn(connect(..))`, on the piece just claimed. *)
Spawn(c) ==
  /\ conn[c].at = "off"
  /\ Claimable(pieces)
  /\ pieces' = Claim(pieces)
  /\ conn' = [conn EXCEPT ![c] =
                [Loaded(NoConnection, ToClaim(pieces)) EXCEPT !.at = "request"]]

Over == failure # None \/ stop \/ AllComplete(pieces)

(* No connection is left: the loop starts the next one. *)
SpawnFirst(c) ==
  /\ phase = "transfer"
  /\ Connections = {}
  /\ ~Over
  /\ Spawn(c)
  /\ UNCHANGED <<outside, diskVars, loopVars, signals, saveVars, ticks>>

(* A 206 arrived: one more connection, if the host has a permit for it. *)
RampUp ==
  /\ phase = "transfer"
  /\ Connections # {}
  /\ signals > 0
  /\ signals' = signals - 1
  /\ \/ /\ Cardinality(Connections) < target
        /\ \E c \in Conns : Spawn(c)
     \/ UNCHANGED <<pieces, conn>>
  /\ UNCHANGED <<outside, diskVars, loopVars, saveVars, ticks>>

(* A refused connection is one less to want. *)
Fewer(n) == Max({n - 1, 1})

(* `join_next` *)
Join(c) ==
  /\ phase = "transfer"
  /\ conn[c].at \in Ends
  /\ conn' = [conn EXCEPT ![c] = NoConnection]
  /\ target' = IF conn[c].at = "refused" THEN Fewer(target) ELSE target
  /\ stop' = (stop \/ conn[c].at = "failed")
  /\ failure' = IF /\ conn[c].at \in {"failed", "cancelled"}
                   /\ failure \in {None, "cancelled"}
                THEN conn[c].at ELSE failure
  /\ UNCHANGED <<outside, diskVars, phase, probe, cancelled, pieces, signals,
                 saveVars, ticks>>

(* The loop breaks. *)
Leave ==
  /\ phase = "transfer"
  /\ Connections = {}
  /\ Over \/ ~Claimable(pieces)
  /\ Goto("drain")
  /\ signals' = 0
  /\ UNCHANGED <<outside, diskVars, pieces, conn, saveVars, ticks>>

(* What the run leaves in memory is dropped. *)
Dropped(cause) ==
  /\ phase' = cause
  /\ probe' = [identity |-> NoIdentity, ranged |-> FALSE]
  /\ pieces' = <<>>
  /\ conn' = [c \in Conns |-> NoConnection]
  /\ target' = 0
  /\ signals' = 0
  /\ failure' = None
  /\ cancelled' = FALSE
  /\ stop' = FALSE
  /\ saving' = "idle"
  /\ snapshot' = <<>>

Verified ==
  /\ failure = None
  /\ ~cancelled
  /\ Total # Unknown => Downloaded(pieces) = Total

(* `publish`, whose own steps are another module's. *)
Publish ==
  /\ phase = "verify"
  /\ Verified
  /\ disk' = cache
  /\ delivered' = {cache}
  /\ Dropped("done")
  /\ UNCHANGED <<outside, rows, meta, cache, ticks>>

(* The worker returns an error. *)
GiveUp ==
  /\ phase = "verify"
  /\ ~Verified
  /\ Dropped("off")
  /\ UNCHANGED <<outside, diskVars, ticks>>

-----------------------------------------------------------------------------
(* `checkpoint` *)

TakeSnapshot ==
  /\ snapshot' = Unsaved(pieces)
  /\ saving' = IF DOMAIN Unsaved(pieces) = {} THEN "idle" ELSE "taken"

(* By the clock, once the last one is over. *)
Tick ==
  /\ phase = "transfer"
  /\ Connections # {}
  /\ saving = "idle"
  /\ ticks < MaxTicks
  /\ DOMAIN Unsaved(pieces) # {}
  /\ TakeSnapshot
  /\ ticks' = ticks + 1
  /\ UNCHANGED <<outside, diskVars, loopVars, pieces, conn, signals>>

(* The last one, after the one by the clock. *)
FinalCheckpoint ==
  /\ phase = "drain"
  /\ saving = "idle"
  /\ TakeSnapshot
  /\ Goto("final")
  /\ UNCHANGED <<outside, diskVars, pieces, conn, signals, ticks>>

Verify ==
  /\ phase = "final"
  /\ saving = "idle"
  /\ Goto("verify")
  /\ UNCHANGED <<outside, diskVars, transferVars>>

(* Mutant: the file is not synced. *)
NoSync ==
  /\ saving = "taken"
  /\ saving' = "synced"
  /\ UNCHANGED <<outside, diskVars, loopVars, pieces, conn, signals, snapshot, ticks>>

(* `sync_data` *)
Sync ==
  /\ saving = "taken"
  /\ saving' = "synced"
  /\ disk' = cache
  /\ UNCHANGED <<outside, rows, meta, cache, delivered, loopVars, pieces, conn,
                 signals, snapshot, ticks>>

(* `update_chunks` *)
Update ==
  /\ saving = "synced"
  /\ saving' = "updated"
  /\ rows' = UpdateChunks(rows, snapshot)
  /\ UNCHANGED <<outside, meta, cache, disk, delivered, loopVars, pieces, conn,
                 signals, snapshot, ticks>>

(* `saved` *)
MarkSaved ==
  /\ saving = "updated"
  /\ saving' = "idle"
  /\ snapshot' = <<>>
  /\ pieces' = Saved(pieces, snapshot)
  /\ UNCHANGED <<outside, diskVars, loopVars, conn, signals, ticks>>

(* The sync or the write failed, which is only logged. *)
CheckpointFails ==
  /\ saving \in {"taken", "synced"}
  /\ saving' = "idle"
  /\ snapshot' = <<>>
  /\ UNCHANGED <<outside, diskVars, loopVars, pieces, conn, signals, ticks>>

-----------------------------------------------------------------------------
(* `connect` and `fetch` *)

ConnUnchanged ==
  UNCHANGED <<outside, rows, meta, disk, delivered, loopVars, saveVars, ticks>>
OnlyConn == UNCHANGED <<pieces, cache, signals>> /\ ConnUnchanged
OnlyPieces == UNCHANGED <<cache, signals>> /\ ConnUnchanged
OnlyFile == UNCHANGED <<pieces, signals>> /\ ConnUnchanged
Goes(c, k) == conn' = [conn EXCEPT ![c] = k]
Fails(c, error) == Goes(c, [conn[c] EXCEPT !.at = "error", !.error = error, !.from = None])

(* What was counted cannot be asked for again without a validator. *)
MustRestart(c) == conn[c].downloaded > 0 /\ IfRange = None

(* `restart`, up to its await: an open-ended stream gives up its file. *)
Truncated == IF Total = Unknown THEN <<>> ELSE cache

RestartFirst(c) ==
  /\ conn[c].at = "request"
  /\ MustRestart(c)
  /\ cache' = Truncated
  /\ Goes(c, [conn[c] EXCEPT !.at = "restart"])
  /\ OnlyFile

(* `restart`, after its await *)
Restarted(c) ==
  /\ conn[c].at = "restart"
  /\ pieces' = Record(pieces, conn[c].piece, 0)
  /\ Goes(c, [conn[c] EXCEPT !.downloaded = 0,
                             !.at = IF conn[c].from = None THEN "request" ELSE "body"])
  /\ OnlyPieces

(* The request is sent, unless the token is cancelled: no answer is there   *)
(* yet that `select!` could prefer.                                         *)
Send(c) ==
  /\ conn[c].at = "request"
  /\ ~MustRestart(c)
  /\ ~stop
  /\ Goes(c, [conn[c] EXCEPT !.at = "asked"])
  /\ OnlyConn

(* The request carries a Range. *)
Ranged(c) == RequireRange \/ conn[c].downloaded > 0
Asks(c) == conn[c].at = "asked"
(* Mutant: a whole body of any version is taken for the rest of the file. *)
ServesAnything(c) == Ranged(c)
ServesRange(c) == Ranged(c) /\ server.ranges /\ IfRange = Tag(server.version)

(* 206: the rest of the resource, from the offset. *)
PartialContent(c) ==
  /\ Asks(c)
  /\ ServesRange(c)
  /\ Offset(c) < Size[server.version]
  /\ signals < MaxSignals
  /\ signals' = signals + 1
  /\ Goes(c, [conn[c] EXCEPT !.at = "body", !.from = server.version])
  /\ UNCHANGED <<pieces, cache>>
  /\ ConnUnchanged

(* Mutant: a piece of several begins again too. *)
UnfitByLength(lengthKnown) ==
  Total # Unknown /\ lengthKnown /\ Total # Size[server.version]
(* A whole body of no use: of another length, or for a piece of several. *)
Unfit(lengthKnown) ==
  \/ RequireRange
  \/ Total # Unknown /\ lengthKnown /\ Total # Size[server.version]

(* 200: the whole resource, with or without its length.  A started piece    *)
(* begins again.                                                            *)
WholeBody(c) ==
  /\ Asks(c)
  /\ ~ServesRange(c)
  /\ \E lengthKnown \in BOOLEAN :
       \/ Unfit(lengthKnown) /\ Fails(c, "fatal") /\ UNCHANGED cache
       \/ /\ ~Unfit(lengthKnown)
          /\ cache' = IF Ranged(c) THEN Truncated ELSE cache
          /\ Goes(c, [conn[c] EXCEPT !.at = IF Ranged(c) THEN "restart" ELSE "body",
                                     !.from = server.version])
  /\ OnlyFile

(* 416: nothing is left to ask for. *)
RangeNotSatisfiable(c) ==
  /\ Asks(c)
  /\ ServesRange(c)
  /\ Offset(c) >= Size[server.version]
  /\ Fails(c, "fatal")
  /\ OnlyConn

(* The server or the network fails. *)
NoAnswer(c) ==
  /\ Asks(c)
  /\ \E error \in {"transient", "fatal"} : Fails(c, error)
  /\ OnlyConn

(* A block of the body is written. *)
Write(c) ==
  /\ conn[c].at = "body"
  /\ HasRoom(c)
  /\ Offset(c) < Size[conn[c].from]
  /\ cache' = WriteAt(cache, Offset(c), conn[c].from)
  /\ Goes(c, [conn[c] EXCEPT !.at = "written"])
  /\ OnlyFile

(* ... and counted.  A full piece is left for the one after it. *)
Count(c) ==
  /\ conn[c].at = "written"
  /\ LET i == conn[c].piece
         n == conn[c].downloaded + 1
         counted == Record(pieces, i, n)
         grown == [conn[c] EXCEPT !.at = "body", !.downloaded = n, !.progressed = TRUE]
     IN  IF counted[i].len # n \/ i = Len(pieces)
         THEN pieces' = counted /\ Goes(c, grown)
         ELSE IF CanAdvance(counted, i)
         THEN /\ pieces' = Advance(counted, i)
              /\ Goes(c, [grown EXCEPT !.piece = i + 1, !.downloaded = 0])
         ELSE /\ pieces' = counted
              /\ Goes(c, [grown EXCEPT !.at = "fetched", !.from = None])
  /\ OnlyPieces

(* The disk is full, say. *)
WriteFails(c) ==
  /\ conn[c].at = "body"
  /\ HasRoom(c)
  /\ Fails(c, "fatal")
  /\ OnlyConn

(* The body goes on where the piece and the file end. *)
Overrun(c) ==
  /\ conn[c].at = "body"
  /\ ~HasRoom(c)
  /\ Offset(c) < Size[conn[c].from]
  /\ Fails(c, "transient")
  /\ OnlyConn

(* The body ends, too early perhaps. *)
EndOfBody(c) ==
  /\ conn[c].at = "body"
  /\ Offset(c) >= Size[conn[c].from]
  /\ IF Piece(c).len \in {Unknown, conn[c].downloaded}
     THEN /\ Goes(c, [conn[c] EXCEPT !.at = "fetched", !.from = None])
          /\ pieces' = FinishStream(pieces, conn[c].piece)
     ELSE Fails(c, "transient") /\ UNCHANGED pieces
  /\ OnlyPieces

(* The connection breaks. *)
Break(c) ==
  /\ conn[c].at = "body"
  /\ Fails(c, "transient")
  /\ OnlyConn

(* The token is noticed at an await. *)
Abandon(c) ==
  /\ stop
  /\ \/ conn[c].at = "request" /\ ~MustRestart(c)
     \/ conn[c].at \in {"asked", "body"}
  /\ Fails(c, "cancelled")
  /\ OnlyConn

(* The fetch is over: the piece is given back, *)
GiveBack(c) ==
  /\ conn[c].at = "fetched"
  /\ pieces' = Release(pieces, conn[c].piece)
  /\ Goes(c, [NoConnection EXCEPT !.at = "claim"])
  /\ OnlyPieces

(* and another one claimed, *)
ClaimNext(c) ==
  /\ conn[c].at = "claim"
  /\ Claimable(pieces)
  /\ pieces' = Claim(pieces)
  /\ Goes(c, [Loaded(NoConnection, ToClaim(pieces)) EXCEPT !.at = "request"])
  /\ OnlyPieces

(* unless all of them have writers. *)
NothingToClaim(c) ==
  /\ conn[c].at = "claim"
  /\ ~Claimable(pieces)
  /\ Goes(c, [NoConnection EXCEPT !.at = "complete"])
  /\ OnlyConn

(* Mutant: an error without progress is always a refusal. *)
RefusedAlone(k) == k.error = "transient" /\ ~k.progressed
Refused(k) == k.error = "transient" /\ ~k.progressed /\ HasOtherWriters(pieces)
RetriesOf(k) == IF k.progressed THEN 1 ELSE k.retries + 1

(* The fetch failed: refused, tried again, or given up (`retry_delay`). *)
HandleError(c) ==
  /\ conn[c].at = "error"
  /\ LET k == conn[c]
         again == k.error = "transient" /\ RetriesOf(k) <= MaxRetries
     IN  \/ Refused(k) /\ Goes(c, [k EXCEPT !.at = "quit", !.error = "refused"])
         \/ /\ ~Refused(k) /\ again
            /\ Goes(c, [k EXCEPT !.at = "pause", !.error = None,
                                 !.retries = RetriesOf(k)])
         \/ ~Refused(k) /\ ~again /\ Goes(c, [k EXCEPT !.at = "quit"])
  /\ OnlyConn

(* The delay is over. *)
Retry(c) ==
  /\ conn[c].at = "pause"
  /\ Goes(c, [conn[c] EXCEPT !.at = "request", !.progressed = FALSE])
  /\ OnlyConn

(* The delay is cut short. *)
CancelPause(c) ==
  /\ stop
  /\ conn[c].at = "pause"
  /\ Goes(c, [conn[c] EXCEPT !.at = "quit", !.error = "cancelled"])
  /\ OnlyConn

(* `connect` returns. *)
Quit(c) ==
  /\ conn[c].at = "quit"
  /\ pieces' = Release(pieces, conn[c].piece)
  /\ Goes(c, [NoConnection EXCEPT !.at =
                IF conn[c].error \in {"refused", "cancelled"} THEN conn[c].error
                                                             ELSE "failed"])
  /\ OnlyPieces

-----------------------------------------------------------------------------
(* Around it *)

(* The user pauses or cancels. *)
Cancel ==
  /\ phase \notin {"off", "done"}
  /\ ~cancelled
  /\ cancelled' = TRUE
  /\ stop' = TRUE
  /\ UNCHANGED <<outside, diskVars, phase, probe, target, failure, transferVars>>

(* The process or the machine stops.  That nothing of the file is lost is   *)
(* one of the outcomes, and stands for a kill and for every step of the     *)
(* preparation that fails.                                                  *)
Crash ==
  /\ phase \notin {"off", "done"}
  /\ \E f \in Survivors(cache, disk) : cache' = f /\ disk' = f
  /\ Dropped("off")
  /\ UNCHANGED <<outside, rows, meta, delivered, ticks>>

(* The resource is replaced, or served by another machine. *)
ServerChanges ==
  /\ changes < MaxChanges
  /\ changes' = changes + 1
  /\ \E s \in Servers :
       /\ s # server
       /\ server' = s
       /\ gone' = gone \cup ({server.version} \ {s.version})
       /\ returned' = (returned \/ s.version \in gone)
  /\ UNCHANGED <<diskVars, loopVars, runs, transferVars>>

-----------------------------------------------------------------------------
Init ==
  /\ server \in Servers
  /\ gone = {}
  /\ returned = FALSE
  /\ rows = <<>>
  /\ meta = NoIdentity
  /\ cache = <<>>
  /\ disk = <<>>
  /\ phase = "off"
  /\ probe = [identity |-> NoIdentity, ranged |-> FALSE]
  /\ pieces = <<>>
  /\ conn = [c \in Conns |-> NoConnection]
  /\ target = 0
  /\ signals = 0
  /\ failure = None
  /\ cancelled = FALSE
  /\ stop = FALSE
  /\ saving = "idle"
  /\ snapshot = <<>>
  /\ delivered = {}
  /\ runs = 0
  /\ changes = 0
  /\ ticks = 0

Prepare == Resume \/ ResetRows \/ Create \/ Identify
Checkpoint == Sync \/ Update \/ MarkSaved
LoopStep ==
  \/ Prepare
  \/ \E c \in Conns : SpawnFirst(c) \/ Join(c)
  \/ RampUp
  \/ Leave
  \/ FinalCheckpoint \/ Verify \/ Publish \/ GiveUp
(* What a connection does by itself. *)
ConnStep(c) ==
  \/ RestartFirst(c) \/ Restarted(c) \/ Send(c) \/ Abandon(c)
  \/ PartialContent(c) \/ WholeBody(c) \/ RangeNotSatisfiable(c)
  \/ Write(c) \/ Count(c) \/ Overrun(c) \/ EndOfBody(c)
  \/ GiveBack(c) \/ ClaimNext(c) \/ NothingToClaim(c)
  \/ HandleError(c) \/ Retry(c) \/ CancelPause(c) \/ Quit(c)
(* What others do to it. *)
ConnFault(c) == NoAnswer(c) \/ WriteFails(c) \/ Break(c)

Next ==
  \/ Begin
  \/ LoopStep
  \/ Tick \/ Checkpoint \/ CheckpointFails
  \/ \E c \in Conns : ConnStep(c) \/ ConnFault(c)
  \/ Cancel \/ Crash \/ ServerChanges

Spec == Init /\ [][Next]_vars

(* The loop, the checkpoints and the connections are tasks that go on until *)
(* they wait for each other: each step of theirs stays enabled until it is  *)
(* taken, or a fault takes its place.                                       *)
FairSpec ==
  /\ Spec
  /\ WF_vars(LoopStep)
  /\ WF_vars(Checkpoint)
  /\ \A c \in Conns : WF_vars(ConnStep(c))

-----------------------------------------------------------------------------
(* Properties *)

TypeOK ==
  /\ server \in Servers
  /\ gone \subseteq Versions
  /\ returned \in BOOLEAN
  /\ rows \in Seq([start : Nat, end : Nat, downloaded : Nat])
  /\ meta \in [tag : Tagged \cup {None}, length : Nat \cup {Unknown}]
  /\ {cache, disk} \subseteq Seq(Versions \cup {Hole})
  /\ delivered \subseteq Seq(Versions \cup {Hole})
  /\ phase \in Phases
  /\ probe \in [identity : [tag : Tagged \cup {None}, length : Nat \cup {Unknown}],
                ranged : BOOLEAN]
  /\ pieces \in Seq([start : Nat, len : Nat \cup {Unknown}, downloaded : Nat,
                     persisted : Nat, busy : BOOLEAN])
  /\ conn \in [Conns -> Connection]
  /\ target \in (IF phase = "transfer" THEN 1 ELSE 0)..Cardinality(Conns)
  /\ signals \in 0..MaxSignals
  /\ failure \in {None, "failed", "cancelled"}
  /\ {cancelled, stop} \subseteq BOOLEAN
  /\ saving \in {"idle", "taken", "synced", "updated"}
  /\ DOMAIN snapshot \subseteq DOMAIN pieces
  /\ {runs, changes, ticks} \subseteq Nat

Writers(i) == {c \in Conns : conn[c].at \in Writing /\ conn[c].piece = i}

(* No two connections ever write the same byte (chunk.rs:161), and a piece  *)
(* is taken only while a connection has it: none is lost when a connection  *)
(* leaves, for whatever reason.                                             *)
OneWriterPerPiece ==
  \A i \in DOMAIN pieces : Cardinality(Writers(i)) = IF pieces[i].busy THEN 1 ELSE 0

Written(o) == o < Len(cache) /\ cache[o + 1] # Hole

(* A byte is counted only once it is in the file, and offsets are persisted *)
(* only after the bytes they count are synced (worker.rs:376): whatever     *)
(* stopped the run before, every byte counted by the rows a run resumes     *)
(* from, and by its pieces from then on, is there.  Between the truncation  *)
(* and the reset of `restart` the stream itself knows better.  (The rows do *)
(* not: NoneRegrown leaves out a stream without a length that is resumable  *)
(* and yet begins again.  A checkpoint that has its snapshot then records   *)
(* bytes that `restart` has truncated, chunk.rs:524.)                       *)
CountedBlocksAreWritten ==
  /\ phase = "identify" =>
       \A i \in DOMAIN rows : \A n \in 1..rows[i].downloaded :
         Written(rows[i].start + n - 1)
  /\ \A i \in DOMAIN pieces : \A n \in 1..pieces[i].downloaded :
       \/ Written(pieces[i].start + n - 1)
       \/ \E c \in Writers(i) : conn[c].at = "restart"

(* What several connections put together is one version of the resource,    *)
(* the one that was probed, however often the server changes meanwhile and  *)
(* whatever earlier runs left in the file.                                  *)
PiecesAgree ==
  Len(pieces) > 1 =>
    \A i \in DOMAIN pieces : \A n \in 1..pieces[i].downloaded :
      cache[pieces[i].start + n] = probe.identity.tag

(* What is published is the resource as it was at one time, whole.          *)
DeliveredWhole ==
  \A f \in delivered : \E v \in Versions : f = [i \in 1..Size[v] |-> v]

(* A transfer that nobody stopped leaves no piece behind: connections that  *)
(* are refused or run dry give back theirs, and somebody fetches them.      *)
NothingLeftBehind ==
  phase = "verify" /\ failure = None /\ ~cancelled => AllComplete(pieces)

(* Progress that was saved can be used: while no worker runs, rows that     *)
(* count anything pass `resumable` for the resource they were saved for,    *)
(* after a loss of power too.  (Without a validator they are not looked at, *)
(* and a stream without a length gives up its file for another resource.)   *)
SavedProgressResumes ==
  /\ phase = "off"
  /\ meta.tag # None
  /\ meta.length = Unknown => meta.tag = Tag(server.version)
  /\ \E i \in DOMAIN rows : rows[i].downloaded > 0
  => Resumable(rows, meta.length, Len(rows) > 1, Len(cache))

(* While several connections share a payload, progress never goes back: no  *)
(* answer makes one of them begin again.                                    *)
ProgressIsKept ==
  [][phase' = "transfer" /\ Len(pieces) > 1 =>
       \A i \in DOMAIN pieces : pieces'[i].downloaded >= pieces[i].downloaded]_vars

(* A transfer of several pieces ends: refused connections do not take turns *)
(* for ever, retries are counted, nobody waits for a piece nobody fetches.  *)
(* (A single piece that each answer begins again may break for ever: any    *)
(* progress resets the count of retries, chunk.rs:322.)                     *)
TransfersEnd ==
  phase = "transfer" /\ Len(pieces) > 1 ~> phase \in {"off", "done"}
=============================================================================
