------------------------- MODULE TorrentFilesProofs -------------------------
(***************************************************************************)
(* What the worker of a torrent makes of its files, for any payload and    *)
(* any number of failures, crashes and files of the user: a published      *)
(* payload is whole, nothing downloaded is lost before its row is removed, *)
(* and no file of the user is replaced.                                    *)
(***************************************************************************)
EXTENDS TorrentFiles, TLAPS

(* The payload is a sequence. *)
Assumptions == Len(Payload) \in Nat /\ DOMAIN Payload = 1..Len(Payload)

Places == {"none", "foreign"} \cup Ours
Typed ==
  /\ status \in Statuses
  /\ worker \in Worker
  /\ staging \in Staging
  /\ place \in [FileSet -> Places]
  /\ unpack \in {"due", "done", "none"}
  /\ cleaning \in BOOLEAN /\ op \in Ops

-----------------------------------------------------------------------------
(* The inductive invariant.                                                *)

(* Statuses and steps that only a published payload reaches. *)
Settled == {"Completed", "Seeding", "Extracting", "ExtractError"}
Late == {"ready", "extract", "retry", "seed", "clean"}
Early == {"root", "owner", "check", "handle", "download", "publish"}

Whole == \A f \in FileSet : place[f] \in Ours

(* What a worker remembers. *)
Fresh ==
  /\ worker.pc # "publish" => worker.next = 1 /\ worker.published = {}
  /\ worker.pc = "idle" => worker.was = FALSE
  /\ worker.result # "none" <=> worker.pc = "exited"
NoRoot == staging.root = "none" => staging.whole = {} /\ staging.files = {}

(* Whoever says that the payload is published is right. *)
WholeWhenSaid ==
  /\ staging.marker = TRUE => Whole
  /\ worker.was = TRUE => Whole
  /\ status \in Settled => Whole
WholeWhenLate == worker.pc \in Late \/ worker.result \in {"ok", "extract"} => Whole
WholeWhenCleaned == cleaning = TRUE => Whole \/ status = "Gone"

GoneIsOver == status = "Gone" => worker.pc = "idle" /\ op = "none" /\ staging.root # "owned"
Before ==
  /\ worker.pc \in Early => status \notin Settled
  /\ worker.pc \in {"handle", "download", "publish"} => worker.was = TRUE \/ staging.marker = FALSE
  /\ worker.pc = "owner" => staging.whole = {}

(* A publication under way can be taken back without a loss. *)
Publishing ==
  worker.pc = "publish" =>
    /\ worker.was = FALSE /\ cleaning = FALSE
    /\ staging.root = "none" => FileSet = {}
    /\ staging.whole \cup MovedBack = FileSet
    /\ \A f \in Undone : place[f] \in Ours
    /\ \A n \in 1..worker.next - 1 : place[Payload[n]] \in Ours
Preparing == op = "prepare" => worker.pc = "idle"

IInv ==
  /\ Typed /\ Fresh /\ NoRoot /\ WholeWhenSaid /\ WholeWhenLate /\ WholeWhenCleaned
  /\ GoneIsOver /\ Before /\ Publishing /\ Preparing

(* What a step does to no file: replace one of the user, lose one of ours. *)
ForeignKept == \A f \in FileSet : place[f] = "foreign" => place'[f] = "foreign"
PayloadKept == \A f \in FileSet : Has(f) => Has(f)' \/ status' = "Gone"
Keeps == IInv' /\ ForeignKept /\ PayloadKept

-----------------------------------------------------------------------------
(* How a worker goes on, and ends. *)

SameRun == worker'.was = worker.was /\ worker'.next = worker.next
           /\ worker'.published = worker.published /\ worker'.result = worker.result
NewRun == worker'.was = FALSE /\ worker'.next = 1 /\ worker'.published = {}

LEMMA GotoLooks ==
  ASSUME worker \in Worker, NEW pc \in Steps, Goto(pc)
  PROVE  worker' \in Worker /\ worker'.pc = pc /\ SameRun
BY DEF Goto, Worker, SameRun

LEMMA NoWorkerIsOne ==
  ASSUME Assumptions
  PROVE  /\ NoWorker \in Worker /\ NoWorker.pc = "idle" /\ NoWorker.was = FALSE
         /\ NoWorker.next = 1 /\ NoWorker.published = {} /\ NoWorker.result = "none"
<1>1. 1 \in 1..Len(Payload) + 1
  BY DEF Assumptions
<1>. QED
  BY <1>1 DEF NoWorker, Worker, Steps, Results

LEMMA NoWorkerLooks ==
  ASSUME Assumptions, worker' = NoWorker
  PROVE  worker' \in Worker /\ worker'.pc = "idle" /\ NewRun /\ worker'.result = "none"
BY NoWorkerIsOne DEF NewRun

LEMMA NewWorkerLooks ==
  ASSUME Assumptions, NEW pc \in Steps,
         \/ worker' = [NoWorker EXCEPT !.pc = pc]
         \/ worker' = [NoWorker EXCEPT !.job = "extract", !.pc = pc]
  PROVE  worker' \in Worker /\ worker'.pc = pc /\ NewRun /\ worker'.result = "none"
BY NoWorkerIsOne DEF Worker, NewRun

LEMMA EndsLooks ==
  ASSUME Assumptions, worker \in Worker, NEW result \in Results, Ends(result)
  PROVE  /\ worker' \in Worker /\ worker'.pc = "exited" /\ NewRun
         /\ worker'.result = result /\ worker'.cancelled = worker.cancelled
<1>1. worker.cancelled \in BOOLEAN /\ worker.job \in {"download", "extract"} /\ "exited" \in Steps
  BY DEF Worker, Steps
<1>. QED
  BY <1>1, NoWorkerIsOne DEF Ends, Worker, NewRun

LEMMA CancelLooks ==
  ASSUME worker \in Worker, CancelWorker
  PROVE  worker' \in Worker /\ worker'.pc = worker.pc /\ SameRun
BY DEF CancelWorker, Worker, SameRun

(* A file that leaves the staging directory is still at its destination. *)
LEMMA UnlinkedLooks ==
  ASSUME place \in [FileSet -> Places], NEW F, place' = Unlinked(place, F)
  PROVE  /\ place' \in [FileSet -> Places]
         /\ \A f \in FileSet : place[f] \in Ours => place'[f] \in Ours
         /\ \A f \in FileSet : place[f] = "foreign" => place'[f] = "foreign"
BY DEF Unlinked, Places, Ours

LEMMA CleanupLooks ==
  ASSUME IInv, Whole \/ staging.root # "owned", CleanupStaging
  PROVE  /\ staging' \in Staging /\ place' \in [FileSet -> Places]
         /\ staging'.root \in {"none", staging.root}
         /\ staging'.root = "none" => staging'.whole = {} /\ staging'.files = {}
         /\ staging'.whole \subseteq staging.whole
         /\ staging'.marker = TRUE => staging.marker = TRUE
         /\ \A f \in FileSet : place[f] \in Ours => place'[f] \in Ours
         /\ Whole => Whole'
         /\ ForeignKept
         /\ \A f \in FileSet : Has(f) => Has(f)'
<1>1. CASE staging.root = "owned"
  <2>1. staging' = NoStaging /\ place' = Unlinked(place, {})
    BY <1>1 DEF CleanupStaging
  <2>2. staging' \in Staging /\ staging'.root = "none" /\ staging'.whole = {} /\ staging'.files = {}
        /\ staging'.marker = FALSE
    BY <2>1 DEF Staging, NoStaging
  <2>3. /\ place' \in [FileSet -> Places]
        /\ \A f \in FileSet : place[f] \in Ours => place'[f] \in Ours
        /\ \A f \in FileSet : place[f] = "foreign" => place'[f] = "foreign"
    BY <2>1, UnlinkedLooks DEF IInv, Typed
  <2>. QED
    BY <1>1, <2>2, <2>3 DEF Whole, ForeignKept, Has
<1>2. CASE staging.root # "owned"
  BY <1>2 DEF CleanupStaging, IInv, Typed, NoRoot, Whole, ForeignKept, Has
<1>. QED
  BY <1>1, <1>2

LEMMA FilesStay ==
  ASSUME UNCHANGED <<staging, place>>
  PROVE  ForeignKept /\ PayloadKept /\ (Whole' <=> Whole)
BY DEF ForeignKept, PayloadKept, Has, Whole

(* A publication stays takeable back while its worker and its files stay. *)
LEMMA PublishingStays ==
  ASSUME IInv, UNCHANGED <<staging, place>>, SameRun, worker'.pc = worker.pc,
         cleaning' = TRUE => cleaning = TRUE, cleaning' \in BOOLEAN
  PROVE  Publishing'
BY DEF IInv, Publishing, SameRun, Undone, MovedBack

(* What a publication records can be told from what it did before. *)
LEMMA PublishedGrows ==
  ASSUME NEW f, NEW moved \in BOOLEAN,
         worker'.published = worker.published \cup {[file |-> f, moved |-> moved]}
  PROVE  Undone' = Undone \cup {f} /\ MovedBack' = MovedBack \cup (IF moved THEN {f} ELSE {})
<1> DEFINE r == [file |-> f, moved |-> moved]
<1>1. r.file = f /\ r.moved = moved
  OBVIOUS
<1>2. worker'.published = worker.published \cup {r}
  OBVIOUS
<1>. HIDE DEF r
<1>3. Undone' = Undone \cup {f}
  BY <1>1, <1>2 DEF Undone
<1>4. MovedBack' = MovedBack \cup (IF moved THEN {f} ELSE {})
  BY <1>1, <1>2 DEF MovedBack
<1>. QED
  BY <1>3, <1>4

-----------------------------------------------------------------------------
(* The worker, up to publication. *)

USE DEF IInv, Typed, Fresh, NoRoot, WholeWhenSaid, WholeWhenLate, WholeWhenCleaned, GoneIsOver,
        Before, Preparing, Keeps, SameRun, NewRun, Settled, Late, Early, Work,
        NoFailure

LEMMA CreateRootKeeps == ASSUME Assumptions, IInv, CreateRoot PROVE Keeps
<1>1. worker.pc = "root" /\ UNCHANGED <<status, place, unpack, cleaning, op>>
  BY DEF CreateRoot, At
<1>2. CASE staging.root = "none" /\ staging' = [staging EXCEPT !.root = "bare"] /\ Goto("owner")
  <2>1. worker' \in Worker /\ worker'.pc = "owner" /\ SameRun
    BY <1>2, GotoLooks DEF Steps
  <2>2. staging' \in Staging /\ staging'.root = "bare" /\ staging'.whole = staging.whole
        /\ staging'.marker = staging.marker
    BY <1>2 DEF Staging
  <2>3. ForeignKept /\ PayloadKept /\ (Whole' <=> Whole)
    BY <1>1, <2>2 DEF ForeignKept, PayloadKept, Has, Whole
  <2>. QED
    BY <1>1, <1>2, <2>1, <2>2, <2>3 DEF Publishing
<1>3. CASE staging.root = "owned" /\ Goto("check") /\ UNCHANGED staging
  <2>1. worker' \in Worker /\ worker'.pc = "check" /\ SameRun
    BY <1>3, GotoLooks DEF Steps
  <2>. QED
    BY <1>1, <1>3, <2>1, FilesStay DEF Publishing
<1>4. CASE Fail /\ UNCHANGED staging
  <2>1. worker' \in Worker /\ worker'.pc = "exited" /\ NewRun /\ worker'.result = "error"
    BY <1>4, EndsLooks DEF Fail, Results
  <2>. QED
    BY <1>1, <1>4, <2>1, FilesStay DEF Publishing
<1>. QED
  BY <1>2, <1>3, <1>4 DEF CreateRoot

LEMMA WriteOwnerKeeps == ASSUME Assumptions, IInv, WriteOwner PROVE Keeps
<1>1. worker.pc = "owner" /\ UNCHANGED <<status, place, unpack, cleaning, op>>
  BY DEF WriteOwner, At
<1>2. CASE staging' = [staging EXCEPT !.root = "owned"] /\ Goto("check")
  <2>1. worker' \in Worker /\ worker'.pc = "check" /\ SameRun
    BY <1>2, GotoLooks DEF Steps
  <2>2. staging' \in Staging /\ staging'.root = "owned" /\ staging'.whole = staging.whole
        /\ staging'.marker = staging.marker
    BY <1>2 DEF Staging
  <2>3. ForeignKept /\ PayloadKept /\ (Whole' <=> Whole)
    BY <1>1, <2>2 DEF ForeignKept, PayloadKept, Has, Whole
  <2>. QED
    BY <1>1, <2>1, <2>2, <2>3 DEF Publishing
<1>3. CASE staging' = NoStaging /\ Fail
  <2>1. worker' \in Worker /\ worker'.pc = "exited" /\ NewRun /\ worker'.result = "error"
    BY <1>3, EndsLooks DEF Fail, Results
  <2>2. staging' \in Staging /\ staging'.root = "none" /\ staging'.whole = {}
        /\ staging'.files = {} /\ staging'.marker = FALSE
    BY <1>3 DEF Staging, NoStaging
  <2>3. ForeignKept /\ PayloadKept /\ (Whole' <=> Whole)
    BY <1>1, <2>2 DEF ForeignKept, PayloadKept, Has, Whole
  <2>. QED
    BY <1>1, <2>1, <2>2, <2>3 DEF Publishing
<1>. QED
  BY <1>2, <1>3 DEF WriteOwner

LEMMA CheckDestinationsKeeps == ASSUME Assumptions, IInv, CheckDestinations PROVE Keeps
<1>1. worker.pc = "check" /\ UNCHANGED <<status, staging, place, unpack, cleaning, op>>
  BY DEF CheckDestinations, At, fileVars
<1>2. CASE worker' = [worker EXCEPT !.pc = "handle", !.was = staging.marker]
  <2>1. worker' \in Worker /\ worker'.pc = "handle" /\ worker'.was = staging.marker
        /\ worker'.next = worker.next /\ worker'.published = worker.published
        /\ worker'.result = worker.result
    BY <1>2 DEF Worker, Staging, Steps
  <2>2. staging.marker \in BOOLEAN
    BY DEF Staging
  <2>. QED
    BY <1>1, <2>1, <2>2, FilesStay DEF Publishing
<1>3. CASE Fail
  <2>1. worker' \in Worker /\ worker'.pc = "exited" /\ NewRun /\ worker'.result = "error"
    BY <1>3, EndsLooks DEF Fail, Results
  <2>. QED
    BY <1>1, <2>1, FilesStay DEF Publishing
<1>. QED
  BY <1>2, <1>3 DEF CheckDestinations

LEMMA GetHandleKeeps == ASSUME Assumptions, IInv, GetHandle PROVE Keeps
<1>1. worker.pc = "handle" /\ UNCHANGED <<status, place, unpack, cleaning, op>>
  BY DEF GetHandle, At
<1>2. \/ worker' \in Worker /\ worker'.pc = "download" /\ SameRun
      \/ /\ worker' \in Worker /\ worker'.pc = "exited" /\ NewRun
         /\ worker'.result \in {"cancelled", "error"}
  <2>1. CASE Goto("download")
    BY <2>1, GotoLooks DEF Steps
  <2>2. CASE Ends("cancelled")
    BY <2>2, EndsLooks DEF Results
  <2>3. CASE Fail
    BY <2>3, EndsLooks DEF Fail, Results
  <2>. QED
    BY <2>1, <2>2, <2>3 DEF GetHandle
<1>3. /\ staging' \in Staging /\ staging'.whole = staging.whole /\ staging'.marker = staging.marker
      /\ staging'.root = staging.root \/ staging'.root = "bare"
      /\ staging'.root = "none" => staging'.files = {}
  <2>1. CASE UNCHANGED staging
    BY <2>1
  <2>2. CASE staging' = [staging EXCEPT !.files = FileSet,
                                        !.root = IF @ = "none" THEN "bare" ELSE @]
    BY <2>2 DEF Staging
  <2>. QED
    BY <2>1, <2>2 DEF GetHandle
<1>4. ForeignKept /\ PayloadKept /\ (Whole' <=> Whole)
  BY <1>1, <1>3 DEF ForeignKept, PayloadKept, Has, Whole
<1>. QED
  BY <1>1, <1>2, <1>3, <1>4 DEF Publishing

LEMMA DownloadTickKeeps == ASSUME Assumptions, IInv, DownloadTick PROVE Keeps
<1>1. worker.pc = "download" /\ UNCHANGED <<status, staging, place, unpack, cleaning, op>>
  BY DEF DownloadTick, At, fileVars
<1>2. CASE Fail
  <2>1. worker' \in Worker /\ worker'.pc = "exited" /\ NewRun /\ worker'.result = "error"
    BY <1>2, EndsLooks DEF Fail, Results
  <2>. QED
    BY <1>1, <2>1, FilesStay DEF Publishing
<1>3. CASE staging.whole = FileSet /\ worker.was = TRUE /\ Goto("seed")
  <2>1. worker' \in Worker /\ worker'.pc = "seed" /\ SameRun
    BY <1>3, GotoLooks DEF Steps
  <2>. QED
    BY <1>1, <1>3, <2>1, FilesStay DEF Publishing
<1>4. CASE staging.whole = FileSet /\ worker.was = FALSE /\ cleaning = FALSE /\ Goto("publish")
  <2>1. worker' \in Worker /\ worker'.pc = "publish" /\ SameRun
    BY <1>4, GotoLooks DEF Steps
  <2>2. Undone' = {} /\ MovedBack' = {} /\ worker'.next = 1
    BY <1>1, <2>1 DEF Undone, MovedBack
  <2>3. \A n \in 1..worker'.next - 1 : FALSE
    BY <2>2
  <2>4. Publishing'
    BY <1>1, <1>4, <2>1, <2>2, <2>3 DEF Publishing
  <2>. QED
    BY <1>1, <1>4, <2>1, <2>4, FilesStay
<1>5. worker.was \in BOOLEAN
  BY DEF Worker
<1>. QED
  BY <1>2, <1>3, <1>4, <1>5 DEF DownloadTick

LEMMA InterruptedKeeps == ASSUME Assumptions, IInv, Interrupted PROVE Keeps
<1>1. worker.pc # "publish" /\ UNCHANGED <<status, staging, place, unpack, cleaning, op>>
  BY DEF Interrupted, fileVars
<1>2. worker' \in Worker /\ worker'.pc = "exited" /\ NewRun /\ worker'.result = "cancelled"
  BY EndsLooks DEF Interrupted, Results
<1>3. worker.pc # "idle"
  BY DEF Interrupted
<1>. QED
  BY <1>1, <1>2, <1>3, FilesStay DEF Publishing

-----------------------------------------------------------------------------
(* Publication. *)

LEMMA AtPublish ==
  ASSUME Assumptions, IInv, worker.pc = "publish"
  PROVE  /\ staging.marker = FALSE /\ status \notin Settled /\ status # "Gone"
         /\ worker.was = FALSE /\ cleaning = FALSE /\ worker.result = "none"
         /\ op # "prepare" /\ Undone \subseteq FileSet /\ MovedBack \subseteq Undone
         /\ worker.next \in Nat
<1>1. /\ worker.published \in SUBSET [file : FileSet, moved : BOOLEAN]
      /\ worker.next \in 1..Len(Payload) + 1 /\ worker.result \in Results
  BY DEF Worker
<1>2. Undone \subseteq FileSet /\ MovedBack \subseteq Undone
  BY <1>1 DEF Undone, MovedBack
<1>3. worker.next \in Nat
  BY <1>1 DEF Assumptions
<1>4. worker.result = "none"
  OBVIOUS
<1>. QED
  BY <1>2, <1>3, <1>4 DEF Publishing

LEMMA RollbackLooks ==
  ASSUME Assumptions, IInv, worker.pc = "publish", Rollback
  PROVE  /\ staging' \in Staging /\ place' \in [FileSet -> Places]
         /\ staging'.root = staging.root /\ staging'.marker = FALSE
         /\ staging'.root = "none" => staging'.whole = {} /\ staging'.files = {}
         /\ ForeignKept /\ PayloadKept
<1>1. staging' = [staging EXCEPT !.files = @ \cup MovedBack, !.whole = @ \cup MovedBack]
      /\ place' = Emptied(Undone)
  BY DEF Rollback
<1>2. /\ staging.marker = FALSE /\ Undone \subseteq FileSet /\ MovedBack \subseteq Undone
  BY AtPublish
<1>3. /\ staging' \in Staging /\ staging'.root = staging.root /\ staging'.marker = FALSE
      /\ staging'.whole = staging.whole \cup MovedBack
      /\ staging'.files = staging.files \cup MovedBack
  BY <1>1, <1>2 DEF Staging
<1>4. /\ place' \in [FileSet -> Places]
      /\ \A f \in FileSet : place'[f] = IF f \in Undone THEN "none" ELSE place[f]
  BY <1>1 DEF Emptied, Places
<1>5. staging'.whole = FileSet
  BY <1>3 DEF Publishing
<1>6. PayloadKept
  BY <1>5 DEF PayloadKept, Has
<1>7. ForeignKept
  BY <1>4, <1>2 DEF ForeignKept, Publishing, Ours
<1>8. staging'.root = "none" => staging'.whole = {} /\ staging'.files = {}
  BY <1>2, <1>3 DEF Publishing
<1>. QED
  BY <1>3, <1>4, <1>6, <1>7, <1>8

LEMMA RolledBack ==
  ASSUME Assumptions, IInv, worker.pc = "publish", Rollback, Fail,
         UNCHANGED <<status, unpack, cleaning, op>>
  PROVE  Keeps
<1>1. worker' \in Worker /\ worker'.pc = "exited" /\ NewRun /\ worker'.result = "error"
  BY EndsLooks DEF Fail, Results
<1>2. /\ staging' \in Staging /\ place' \in [FileSet -> Places]
      /\ staging'.root = staging.root /\ staging'.marker = FALSE
      /\ staging'.root = "none" => staging'.whole = {} /\ staging'.files = {}
      /\ ForeignKept /\ PayloadKept
  BY RollbackLooks
<1>3. /\ status \notin Settled /\ status # "Gone" /\ cleaning = FALSE /\ op # "prepare"
  BY AtPublish
<1>. QED
  BY <1>1, <1>2, <1>3 DEF Publishing

LEMMA PublishKeeps ==
  ASSUME Assumptions, IInv, worker.pc = "publish", worker.next \in DOMAIN Payload,
         place[Payload[worker.next]] \in Free, Publish(Payload[worker.next]),
         UNCHANGED <<status, unpack, cleaning, op>>
  PROVE  Keeps
<1> DEFINE f == Payload[worker.next]
<1>0. f \in FileSet /\ worker.next \in 1..Len(Payload)
  BY DEF FileSet, Assumptions
<1>1. PICK moved \in BOOLEAN :
        /\ place' = [place EXCEPT ![f] = IF links THEN "same" ELSE "own"]
        /\ worker' = [worker EXCEPT !.next = @ + 1,
                                    !.published = @ \cup {[file |-> f, moved |-> moved]}]
        /\ staging' = IF moved THEN [staging EXCEPT !.files = @ \ {f}, !.whole = @ \ {f}]
                      ELSE staging
  <2>1. {FALSE, ~links /\ neverSeed} \subseteq BOOLEAN
    OBVIOUS
  <2>. QED
    BY <2>1 DEF Publish
<1>2. /\ staging.marker = FALSE /\ status \notin Settled /\ status # "Gone"
      /\ worker.was = FALSE /\ cleaning = FALSE /\ worker.result = "none"
      /\ op # "prepare" /\ Undone \subseteq FileSet /\ MovedBack \subseteq Undone
      /\ worker.next \in Nat
  BY AtPublish
<1>3. /\ worker' \in Worker /\ worker'.pc = "publish" /\ worker'.was = FALSE
      /\ worker'.result = "none" /\ worker'.next = worker.next + 1
      /\ worker'.published = worker.published \cup {[file |-> f, moved |-> moved]}
  <2>1. worker.next + 1 \in 1..Len(Payload) + 1
    BY <1>0 DEF Assumptions
  <2>2. worker.published \cup {[file |-> f, moved |-> moved]} \in
          SUBSET [file : FileSet, moved : BOOLEAN]
    BY <1>0 DEF Worker
  <2>. HIDE DEF f
  <2>. QED
    BY <1>1, <1>2, <2>1, <2>2 DEF Worker
<1>4. /\ staging' \in Staging /\ staging'.root = staging.root /\ staging'.marker = FALSE
      /\ staging'.whole = IF moved THEN staging.whole \ {f} ELSE staging.whole
      /\ staging'.files \subseteq staging.files
  BY <1>1, <1>2 DEF Staging
<1>5. /\ place' \in [FileSet -> Places] /\ place'[f] \in Ours
      /\ \A g \in FileSet : g # f => place'[g] = place[g]
  BY <1>0, <1>1 DEF Places, Ours
<1>6. Undone' = Undone \cup {f} /\ MovedBack' = MovedBack \cup (IF moved THEN {f} ELSE {})
  BY <1>3, PublishedGrows
<1>7. Publishing'
  <2>1. staging'.whole \cup MovedBack' = FileSet
    BY <1>0, <1>4, <1>6 DEF Publishing
  <2>2. \A g \in Undone' : place'[g] \in Ours
    BY <1>2, <1>5, <1>6 DEF Publishing
  <2>3. ASSUME NEW n \in 1..worker'.next - 1 PROVE place'[Payload[n]] \in Ours
    <3>1. n = worker.next \/ n \in 1..worker.next - 1
      BY <1>2, <1>3
    <3>2. CASE n = worker.next
      BY <3>2, <1>5
    <3>3. CASE n \in 1..worker.next - 1
      <4>1. place[Payload[n]] \in Ours
        BY <3>3 DEF Publishing
      <4>2. Payload[n] \in FileSet
        BY <3>3, <1>0 DEF FileSet, Assumptions
      <4>. QED
        BY <4>1, <4>2, <1>5
    <3>. QED
      BY <3>1, <3>2, <3>3
  <2>. QED
    BY <1>2, <1>3, <1>4, <2>1, <2>2, <2>3 DEF Publishing
<1>8. ForeignKept
  BY <1>5 DEF ForeignKept, Free
<1>9. PayloadKept
  BY <1>4, <1>5 DEF PayloadKept, Has
<1>10. staging'.root = "none" => staging'.whole = {} /\ staging'.files = {}
  BY <1>4
<1>. HIDE DEF f
<1>. QED
  BY <1>2, <1>3, <1>4, <1>5, <1>7, <1>8, <1>9, <1>10

LEMMA PublishFileKeeps == ASSUME Assumptions, IInv, PublishFile PROVE Keeps
<1>1. worker.pc = "publish" /\ UNCHANGED <<status, unpack, cleaning, op>>
      /\ worker.next \in DOMAIN Payload
  BY DEF PublishFile, At
<1>2. CASE Rollback /\ Fail
  BY <1>1, <1>2, RolledBack
<1>3. CASE place[Payload[worker.next]] \in Free /\ Publish(Payload[worker.next])
  BY <1>1, <1>3, PublishKeeps
<1>4. CASE /\ place[Payload[worker.next]] = "same"
           /\ worker' = [worker EXCEPT !.next = @ + 1] /\ UNCHANGED <<staging, place>>
  <2>1. worker.next \in 1..Len(Payload)
    BY <1>1 DEF Assumptions
  <2>2. worker.next + 1 \in 1..Len(Payload) + 1
    BY <2>1 DEF Assumptions
  <2>3. /\ worker' \in Worker /\ worker'.pc = "publish" /\ worker'.was = worker.was
        /\ worker'.result = worker.result /\ worker'.next = worker.next + 1
        /\ worker'.published = worker.published
    BY <1>1, <1>4, <2>2 DEF Worker
  <2>4. ASSUME NEW n \in 1..worker'.next - 1 PROVE place'[Payload[n]] \in Ours
    <3>1. n = worker.next \/ n \in 1..worker.next - 1
      BY <2>1, <2>3
    <3>. QED
      BY <3>1, <1>1, <1>4 DEF Publishing, Ours
  <2>5. Undone' = Undone /\ MovedBack' = MovedBack
    BY <2>3 DEF Undone, MovedBack
  <2>6. Publishing'
    BY <1>1, <1>4, <2>3, <2>4, <2>5 DEF Publishing
  <2>. QED
    BY <1>1, <1>4, <2>3, <2>6, FilesStay
<1>. QED
  BY <1>2, <1>3, <1>4 DEF PublishFile

LEMMA WriteMarkerKeeps == ASSUME Assumptions, IInv, WriteMarker PROVE Keeps
<1>1. worker.pc = "publish" /\ UNCHANGED <<status, unpack, cleaning, op>>
      /\ worker.next > Len(Payload)
  BY DEF WriteMarker, At, AllPublished
<1>2. CASE Rollback /\ Fail
  BY <1>1, <1>2, RolledBack
<1>3. CASE /\ staging' = [staging EXCEPT !.marker = TRUE] /\ UNCHANGED place
           /\ worker' = [worker EXCEPT !.pc = "ready", !.next = 1, !.published = {}]
  <2>1. Whole
    <3>1. ASSUME NEW f \in FileSet PROVE place[f] \in Ours
      <4>1. PICK n \in 1..Len(Payload) : f = Payload[n]
        BY DEF FileSet, Assumptions
      <4>2. worker.next \in Nat
        BY <1>1, AtPublish
      <4>3. n \in 1..worker.next - 1
        BY <1>1, <4>2 DEF Assumptions
      <4>. QED
        BY <1>1, <4>1, <4>3 DEF Publishing
    <3>. QED
      BY <3>1 DEF Whole
  <2>2. 1 \in 1..Len(Payload) + 1 /\ "ready" \in Steps
    BY DEF Assumptions, Steps
  <2>3. /\ worker' \in Worker /\ worker'.pc = "ready" /\ worker'.was = worker.was
        /\ worker'.result = worker.result /\ worker'.next = 1 /\ worker'.published = {}
    BY <1>3, <2>2 DEF Worker
  <2>4. /\ staging' \in Staging /\ staging'.root = staging.root
        /\ staging'.whole = staging.whole /\ staging'.files = staging.files
    BY <1>3 DEF Staging
  <2>5. ForeignKept /\ PayloadKept /\ Whole'
    BY <1>3, <2>1, <2>4 DEF ForeignKept, PayloadKept, Has, Whole
  <2>. QED
    BY <1>1, <1>3, <2>3, <2>4, <2>5, AtPublish DEF Publishing
<1>. QED
  BY <1>2, <1>3 DEF WriteMarker

-----------------------------------------------------------------------------
(* Extraction and seeding, peers and users. *)

LEMMA CheckReadinessKeeps == ASSUME Assumptions, IInv, CheckReadiness PROVE Keeps
<1>1. worker.pc = "ready" /\ UNCHANGED <<staging, place, cleaning, op>> /\ Whole
  BY DEF CheckReadiness, At
<1>2. status # "Gone"
  BY <1>1
<1>3. CASE Goto("seed") /\ UNCHANGED status /\ unpack' \in {unpack, "none"}
  <2>1. worker' \in Worker /\ worker'.pc = "seed" /\ SameRun
    BY <1>3, GotoLooks DEF Steps
  <2>. QED
    BY <1>1, <1>3, <2>1, FilesStay DEF Publishing
<1>4. CASE /\ Goto("extract") /\ UNCHANGED unpack
           /\ status' = IF status \in Active THEN "Extracting" ELSE status
  <2>1. worker' \in Worker /\ worker'.pc = "extract" /\ SameRun
    BY <1>4, GotoLooks DEF Steps
  <2>2. status' \in Statuses /\ status' \in {status, "Extracting"}
    BY <1>4 DEF Statuses, Active
  <2>. QED
    BY <1>1, <1>2, <1>4, <2>1, <2>2, FilesStay DEF Publishing
<1>5. CASE Ends("extract") /\ UNCHANGED <<status, unpack>>
  <2>1. worker' \in Worker /\ worker'.pc = "exited" /\ NewRun /\ worker'.result = "extract"
    BY <1>5, EndsLooks DEF Results
  <2>. QED
    BY <1>1, <1>5, <2>1, FilesStay DEF Publishing
<1>. QED
  BY <1>3, <1>4, <1>5 DEF CheckReadiness

LEMMA ExtractKeeps == ASSUME Assumptions, IInv, Extract PROVE Keeps
<1>1. worker.pc \in {"extract", "retry"} /\ UNCHANGED <<status, staging, cleaning, op>> /\ Whole
  BY DEF Extract, At
<1>2. \/ worker' \in Worker /\ worker'.pc = "seed" /\ SameRun /\ unpack' = "done"
      \/ /\ worker' \in Worker /\ worker'.pc = "exited" /\ NewRun
         /\ \/ worker'.result = "ok" /\ unpack' = "done"
            \/ worker'.result = "extract" /\ unpack' = unpack
  <2>1. CASE Goto("seed") /\ unpack' = "done"
    BY <2>1, GotoLooks DEF Steps
  <2>2. CASE Ends("ok") /\ unpack' = "done"
    BY <2>2, EndsLooks DEF Results
  <2>3. CASE Ends("extract") /\ unpack' = unpack
    BY <2>3, EndsLooks DEF Results
  <2>. QED
    BY <2>1, <2>2, <2>3 DEF Extract
<1>3. place' \in {place, [f \in FileSet |-> "unpacked"]}
  BY DEF Extract
<1>4. place' \in [FileSet -> Places] /\ \A f \in FileSet : place'[f] \in Ours
  BY <1>1, <1>3 DEF Places, Ours, Whole
<1>5. Whole' /\ ForeignKept /\ PayloadKept
  BY <1>1, <1>4 DEF ForeignKept, PayloadKept, Whole, Has, Ours
<1>. QED
  BY <1>1, <1>2, <1>4, <1>5 DEF Publishing

LEMMA SeedTickKeeps == ASSUME Assumptions, IInv, SeedTick PROVE Keeps
<1>1. worker.pc = "seed" /\ UNCHANGED <<staging, place, unpack, cleaning, op>>
      /\ Whole /\ status # "Gone"
  BY DEF SeedTick, At, fileVars
<1>2. status' \in Statuses /\ status' \in {status, "Seeding"}
  BY DEF SeedTick, Statuses, Active
<1>3. CASE Goto("clean")
  <2>1. worker' \in Worker /\ worker'.pc = "clean" /\ SameRun
    BY <1>3, GotoLooks DEF Steps
  <2>. QED
    BY <1>1, <1>2, <2>1, FilesStay DEF Publishing
<1>4. CASE UNCHANGED worker
  BY <1>1, <1>2, <1>4, FilesStay DEF Publishing
<1>5. CASE Fail
  <2>1. worker' \in Worker /\ worker'.pc = "exited" /\ NewRun /\ worker'.result = "error"
    BY <1>5, EndsLooks DEF Fail, Results
  <2>. QED
    BY <1>1, <1>2, <2>1, FilesStay DEF Publishing
<1>. QED
  BY <1>3, <1>4, <1>5 DEF SeedTick

LEMMA LeaveKeeps == ASSUME Assumptions, IInv, Leave PROVE Keeps
<1>1. worker.pc = "clean" /\ UNCHANGED <<status, unpack, cleaning, op>>
      /\ Whole /\ status # "Gone"
  BY DEF Leave, At
<1>2. worker' \in Worker /\ worker'.pc = "exited" /\ NewRun /\ worker'.result = "ok"
  BY EndsLooks DEF Leave, Results
<1>3. CASE CleanupStaging
  <2>1. /\ staging' \in Staging /\ place' \in [FileSet -> Places]
        /\ staging'.root = "none" => staging'.whole = {} /\ staging'.files = {}
        /\ Whole' /\ ForeignKept /\ PayloadKept
    BY <1>1, <1>3, CleanupLooks DEF PayloadKept
  <2>. QED
    BY <1>1, <1>2, <2>1 DEF Publishing
<1>4. CASE UNCHANGED <<staging, place>>
  BY <1>1, <1>2, <1>4, FilesStay DEF Publishing
<1>. QED
  BY <1>3, <1>4 DEF Leave

LEMMA FetchKeeps == ASSUME Assumptions, IInv, Fetch PROVE Keeps
<1>1. worker.pc = "download" /\ UNCHANGED <<status, worker, place, unpack, cleaning, op>>
      /\ staging.files = FileSet /\ staging.whole # FileSet
  BY DEF Fetch, At
<1>2. /\ staging' \in Staging /\ staging'.root = staging.root
      /\ staging'.whole = FileSet /\ staging'.files = staging.files
      /\ staging'.marker = staging.marker
  BY DEF Fetch, Staging
<1>3. staging.whole \subseteq FileSet
  BY DEF Staging
<1>4. staging.root # "none"
  BY <1>1, <1>3
<1>5. ForeignKept /\ PayloadKept /\ (Whole' <=> Whole)
  BY <1>1, <1>2, <1>3 DEF ForeignKept, PayloadKept, Has, Whole
<1>. QED
  BY <1>1, <1>2, <1>4, <1>5 DEF Publishing

LEMMA IntrudeKeeps == ASSUME Assumptions, IInv, NEW f \in FileSet, Intrude(f) PROVE Keeps
<1>1. UNCHANGED <<status, worker, staging, unpack, cleaning, op>> /\ place[f] = "none"
      /\ place' = [place EXCEPT ![f] = "foreign"]
  BY DEF Intrude
<1>2. /\ place' \in [FileSet -> Places] /\ place'[f] = "foreign"
      /\ \A g \in FileSet : g # f => place'[g] = place[g]
  BY <1>1 DEF Places
<1>3. \A g \in FileSet : place[g] \in Ours => place'[g] \in Ours
  BY <1>1, <1>2 DEF Ours
<1>4. ForeignKept /\ PayloadKept /\ (Whole => Whole')
  BY <1>1, <1>2, <1>3 DEF ForeignKept, PayloadKept, Has, Whole
<1>5. Publishing'
  <2>1. SUFFICES ASSUME worker.pc = "publish" PROVE Publishing'
    BY <1>1 DEF Publishing
  <2>2. Undone' = Undone /\ MovedBack' = MovedBack /\ Undone \subseteq FileSet
    BY <1>1, <2>1, AtPublish DEF Undone, MovedBack
  <2>3. ASSUME NEW n \in 1..worker.next - 1 PROVE Payload[n] \in FileSet
    <3>1. worker.next \in 1..Len(Payload) + 1
      BY DEF Worker
    <3>. QED
      BY <3>1 DEF FileSet, Assumptions
  <2>. QED
    BY <1>1, <1>3, <2>2, <2>3 DEF Publishing
<1>. QED
  BY <1>1, <1>2, <1>4, <1>5

-----------------------------------------------------------------------------
(* The engine. *)

USE DEF Engine, Command, fileVars, Idle

(* A command that starts no worker: it may ask one to stop. *)
LEMMA CommandKeeps ==
  ASSUME Assumptions, IInv, UNCHANGED <<fileVars, cleaning>>,
         worker' \in Worker /\ worker'.pc = worker.pc /\ SameRun,
         status' \in Statuses, op' \in Ops,
         status' \in Settled => status \in Settled, status' # "Gone",
         op' # "prepare" \/ op' = op,
         status = "Gone" => status' = "Gone"
  PROVE  Keeps
<1>1. ForeignKept /\ PayloadKept /\ (Whole' <=> Whole)
  BY FilesStay
<1>2. Publishing'
  BY PublishingStays
<1>3. UNCHANGED <<staging, place, unpack>>
  BY DEF fileVars
<1>. QED
  BY <1>1, <1>2, <1>3

LEMMA PauseKeeps == ASSUME Assumptions, IInv, Pause PROVE Keeps
BY CancelLooks, CommandKeeps DEF Pause, Statuses, Active

LEMMA ResumeKeeps == ASSUME Assumptions, IInv, Resume PROVE Keeps
BY CommandKeeps DEF Resume, Statuses, Active

LEMMA CancelKeeps == ASSUME Assumptions, IInv, Cancel PROVE Keeps
BY CancelLooks, CommandKeeps DEF Cancel, Statuses, Active

LEMMA StopSeedingKeeps == ASSUME Assumptions, IInv, StopSeeding PROVE Keeps
BY CancelLooks, CommandKeeps DEF StopSeeding, Statuses, Active

LEMMA ForceRecheckKeeps == ASSUME Assumptions, IInv, ForceRecheck PROVE Keeps
<1>1. op' \in Ops /\ op' # "prepare"
  BY DEF ForceRecheck, Ops
<1>. QED
  BY <1>1, CancelLooks, CommandKeeps DEF ForceRecheck, Statuses, Active

LEMMA RemoveKeeps == ASSUME Assumptions, IInv, NEW files \in BOOLEAN, Remove(files) PROVE Keeps
<1>1. op' \in Ops /\ op' # "prepare"
  BY DEF Remove, Ops
<1>. QED
  BY <1>1, CancelLooks, CommandKeeps DEF Remove

LEMMA StartKeeps == ASSUME Assumptions, IInv, Start PROVE Keeps
<1>1. worker' \in Worker /\ worker'.pc = "root" /\ NewRun /\ worker'.result = "none"
  BY NewWorkerLooks DEF Start, Steps
<1>. QED
  BY <1>1, FilesStay DEF Start, Statuses, Active, Publishing

LEMMA RetryExtractKeeps == ASSUME Assumptions, IInv, RetryExtract PROVE Keeps
<1>1. worker' \in Worker /\ worker'.pc = "retry" /\ NewRun /\ worker'.result = "none"
  BY NewWorkerLooks DEF RetryExtract, Steps
<1>. QED
  BY <1>1, FilesStay DEF RetryExtract, Statuses, Active, Publishing

LEMMA RecheckedKeeps == ASSUME Assumptions, IInv, Rechecked PROVE Keeps
<1>1. worker.pc = "idle" /\ op' \in Ops /\ status # "Gone"
  BY DEF Rechecked, Ops
<1>. QED
  BY <1>1, FilesStay DEF Rechecked, Publishing

(* What a finished run says of the payload. *)
LEMMA ExitStatusLooks ==
  ASSUME IInv, worker.pc = "exited"
  PROVE  /\ ExitStatus \in Statuses /\ ExitStatus # "Gone"
         /\ ExitStatus \in Settled => Whole
<1>1. worker.result \in {"ok", "cancelled", "error", "extract"} /\ worker.cancelled \in BOOLEAN
  BY DEF Worker, Results
<1>2. status # "Gone"
  OBVIOUS
<1>3. CASE worker.result = "ok"
  BY <1>3 DEF ExitStatus, Statuses
<1>4. CASE worker.result # "ok" /\ worker.cancelled = TRUE /\ status = "Extracting"
  BY <1>4 DEF ExitStatus, Statuses
<1>5. CASE worker.result # "ok" /\ worker.cancelled = TRUE /\ status \in Active \ {"Extracting"}
  BY <1>5 DEF ExitStatus, Statuses
<1>6. CASE worker.result # "ok" /\ worker.cancelled = TRUE /\ status \notin Active
  BY <1>2, <1>6 DEF ExitStatus, Active
<1>7. CASE worker.result = "extract" /\ worker.cancelled = FALSE
  BY <1>7 DEF ExitStatus, Statuses
<1>8. CASE worker.result \in {"error", "cancelled"} /\ worker.cancelled = FALSE
  BY <1>8 DEF ExitStatus, Statuses
<1>. QED
  BY <1>1, <1>3, <1>4, <1>5, <1>6, <1>7, <1>8

LEMMA FinishKeeps == ASSUME Assumptions, IInv, Finish PROVE Keeps
<1>1. worker.pc = "exited" /\ UNCHANGED <<staging, place, unpack, op>> /\ status' = ExitStatus
  BY DEF Finish, At
<1>2. worker' \in Worker /\ worker'.pc = "idle" /\ NewRun /\ worker'.result = "none"
  BY NoWorkerLooks DEF Finish
<1>3. /\ status' \in Statuses /\ status' # "Gone"
      /\ status' \in Settled => Whole
  BY <1>1, ExitStatusLooks
<1>4. cleaning' \in BOOLEAN /\ (cleaning' = TRUE => cleaning = TRUE \/ status' = "Completed")
  BY DEF Finish, CleansUp, Worker
<1>5. status # "Gone"
  BY <1>1
<1>. QED
  BY <1>1, <1>2, <1>3, <1>4, <1>5, FilesStay DEF Publishing

LEMMA CleanUpKeeps == ASSUME Assumptions, IInv, CleanUp PROVE Keeps
<1>1. UNCHANGED <<status, worker, unpack, op>> /\ cleaning = TRUE /\ cleaning' = FALSE
  BY DEF CleanUp
<1>2. worker.pc # "publish"
  BY <1>1, AtPublish
<1>3. Whole \/ staging.root # "owned"
  BY <1>1
<1>4. CASE CleanupStaging
  <2>1. /\ staging' \in Staging /\ place' \in [FileSet -> Places]
        /\ staging'.root \in {"none", staging.root}
        /\ staging'.root = "none" => staging'.whole = {} /\ staging'.files = {}
        /\ staging'.whole \subseteq staging.whole
        /\ staging'.marker = TRUE => staging.marker = TRUE
        /\ Whole => Whole'
        /\ ForeignKept /\ PayloadKept
    BY <1>3, <1>4, CleanupLooks DEF PayloadKept
  <2>2. staging.marker \in BOOLEAN /\ staging'.marker \in BOOLEAN
    BY <2>1 DEF Staging
  <2>. QED
    BY <1>1, <1>2, <2>1, <2>2 DEF Publishing
<1>5. CASE UNCHANGED <<staging, place>>
  BY <1>1, <1>2, <1>5, FilesStay DEF Publishing
<1>. QED
  BY <1>4, <1>5 DEF CleanUp

LEMMA PrepareRecheckKeeps == ASSUME Assumptions, IInv, PrepareRecheck PROVE Keeps
<1>1. /\ op = "prepare" /\ op' = "none" /\ op' \in Ops /\ worker.pc = "idle" /\ status # "Gone"
      /\ UNCHANGED <<worker, unpack, cleaning>>
  BY DEF PrepareRecheck, Ops
<1>2. CASE status' \in {status, "Error"} /\ UNCHANGED <<staging, place>>
  <2>1. status' \in Statuses /\ status' # "Gone"
    BY <1>1, <1>2 DEF Statuses
  <2>. QED
    BY <1>1, <1>2, <2>1, FilesStay DEF Publishing
<1>3. CASE /\ staging.root = "none" /\ CanLink /\ UNCHANGED status
           /\ staging' = [root |-> "owned", marker |-> TRUE, files |-> Linkable, whole |-> Linkable]
           /\ place' = [f \in FileSet |-> IF f \in Linkable THEN "same" ELSE place[f]]
  <2>1. Linkable = FileSet
    BY <1>3 DEF CanLink
  <2>2. staging' \in Staging /\ staging'.root = "owned" /\ staging'.whole = FileSet
    BY <1>3, <2>1 DEF Staging
  <2>3. place' \in [FileSet -> Places] /\ \A f \in FileSet : place'[f] = "same"
    BY <1>3, <2>1 DEF Places, Ours
  <2>4. \A f \in FileSet : place[f] # "foreign"
    BY <2>1 DEF Linkable
  <2>5. Whole' /\ ForeignKept /\ PayloadKept
    BY <2>3, <2>4 DEF Whole, ForeignKept, PayloadKept, Has, Ours
  <2>. QED
    BY <1>1, <1>3, <2>2, <2>3, <2>5 DEF Publishing
<1>. QED
  BY <1>2, <1>3 DEF PrepareRecheck

LEMMA RemovedKeeps == ASSUME Assumptions, IInv, Removed PROVE Keeps
<1>1. /\ op \in {"remove", "removeFiles"} /\ op' = "none" /\ op' \in Ops /\ worker.pc = "idle"
      /\ UNCHANGED <<worker, unpack, cleaning>> /\ status # "Gone"
  BY DEF Removed, Ops
<1>2. CASE UNCHANGED <<status, staging, place>>
  BY <1>1, <1>2, FilesStay DEF Publishing
<1>3. CASE /\ op = "removeFiles" => staging.root # "bare"
           /\ status' = "Gone"
           /\ staging' = IF staging.root = "bare" THEN staging ELSE NoStaging
           /\ place' = IF op = "removeFiles" /\ IsPublished THEN [f \in FileSet |-> "none"]
                       ELSE Unlinked(place, {})
  <2>1. /\ staging' \in Staging /\ staging'.root # "owned"
        /\ staging'.root = "none" => staging'.whole = {} /\ staging'.files = {}
        /\ staging'.marker = TRUE => staging.root = "bare" /\ staging.marker = TRUE
    BY <1>3 DEF Staging, NoStaging
  <2>2. status' \in Statuses
    BY <1>3 DEF Statuses
  <2>3. PayloadKept
    BY <1>3 DEF PayloadKept
  <2>4. CASE op = "removeFiles" /\ IsPublished
    <3>1. place' = [f \in FileSet |-> "none"] /\ staging.root # "bare"
      BY <1>3, <2>4
    <3>2. place' \in [FileSet -> Places]
      BY <3>1 DEF Places
    <3>3. Whole
      BY <2>4 DEF IsPublished, Staging
    <3>4. ForeignKept
      BY <3>3 DEF ForeignKept, Whole, Ours
    <3>. QED
      BY <1>1, <1>3, <2>1, <2>2, <2>3, <3>1, <3>2, <3>4 DEF Publishing
  <2>5. CASE ~(op = "removeFiles" /\ IsPublished)
    <3>1. place' = Unlinked(place, {})
      BY <1>3, <2>5
    <3>2. /\ place' \in [FileSet -> Places]
          /\ \A f \in FileSet : place[f] \in Ours => place'[f] \in Ours
          /\ \A f \in FileSet : place[f] = "foreign" => place'[f] = "foreign"
      BY <3>1, UnlinkedLooks
    <3>3. ForeignKept /\ (Whole => Whole')
      BY <3>2 DEF ForeignKept, Whole
    <3>. QED
      BY <1>1, <1>3, <2>1, <2>2, <2>3, <3>2, <3>3 DEF Publishing
  <2>. QED
    BY <2>4, <2>5
<1>. QED
  BY <1>2, <1>3 DEF Removed

-----------------------------------------------------------------------------
(* A crash, and the next start. *)

(* What is torn held nothing that is not also at its destination. *)
LEMMA TornLooks ==
  ASSUME IInv, staging' \in Torn
  PROVE  /\ staging' \in Staging /\ (staging'.marker = TRUE => staging.marker = TRUE)
         /\ staging'.root = "none" => staging'.whole = {} /\ staging'.files = {}
         /\ \/ staging' = staging
            \/ Whole /\ staging.root = "owned"
            \/ op = "prepare" /\ staging.whole = {} /\ staging'.files \subseteq Linkable
<1>1. CASE staging' = staging
  BY <1>1
<1>2. CASE staging' = NoStaging /\ staging.root = "owned" /\ (At("clean") \/ cleaning)
  <2>1. staging' \in Staging /\ staging'.marker = FALSE /\ staging'.whole = {} /\ staging'.files = {}
    BY <1>2 DEF NoStaging, Staging
  <2>. QED
    BY <1>2, <2>1 DEF At
<1>3. ASSUME staging.root = "owned", At("clean") \/ cleaning,
             NEW b \in {"bare", "owned"}, NEW m \in {FALSE, staging.marker},
             NEW F \in SUBSET staging.whole,
             staging' = [root |-> b, marker |-> m, files |-> F, whole |-> F]
      PROVE  /\ staging' \in Staging /\ (staging'.marker = TRUE => staging.marker = TRUE)
             /\ staging'.root # "none" /\ Whole
  <2>1. F \in SUBSET FileSet /\ m \in BOOLEAN
    BY DEF Staging
  <2>2. staging' \in Staging /\ staging'.marker = m /\ staging'.root = b
    BY <1>3, <2>1 DEF Staging
  <2>. QED
    BY <1>3, <2>2 DEF At
<1>4. ASSUME op = "prepare", staging.root = "none",
             NEW b \in {"bare", "owned"}, NEW F \in SUBSET {f \in Linkable : links},
             staging' = [root |-> b, marker |-> FALSE, files |-> F, whole |-> F]
      PROVE  /\ staging' \in Staging /\ staging'.marker = FALSE
             /\ staging'.root # "none" /\ staging'.files \subseteq Linkable
  <2>1. F \subseteq Linkable /\ F \in SUBSET FileSet
    BY DEF Linkable
  <2>. QED
    BY <1>4, <2>1 DEF Staging
<1>5. \/ staging' = staging
      \/ /\ At("clean") \/ cleaning
         /\ staging.root = "owned"
         /\ \/ staging' = NoStaging
            \/ \E b \in {"bare", "owned"}, m \in {FALSE, staging.marker}, F \in SUBSET staging.whole :
                 staging' = [root |-> b, marker |-> m, files |-> F, whole |-> F]
      \/ /\ op = "prepare" /\ staging.root = "none"
         /\ \E b \in {"bare", "owned"}, F \in SUBSET {f \in Linkable : links} :
              staging' = [root |-> b, marker |-> FALSE, files |-> F, whole |-> F]
  <2>. HIDE DEF IInv
  <2>. QED
    BY DEF Torn
<1>6. op = "prepare" /\ staging.root = "none" => staging.whole = {}
  OBVIOUS
<1>. HIDE DEF IInv
<1>. QED
  BY <1>1, <1>2, <1>3, <1>4, <1>5, <1>6

LEMMA RestartKeeps == ASSUME Assumptions, IInv, Restart PROVE Keeps
<1>1. /\ UNCHANGED unpack /\ cleaning' = FALSE /\ op' = "none" /\ op' \in Ops
      /\ staging' \in Torn
      /\ place' = [f \in FileSet |->
                     IF op = "prepare" /\ staging' # staging /\ f \in staging'.files THEN "same"
                     ELSE Unlinked(place, staging'.files)[f]]
  BY DEF Restart, Ops
<1>2. worker' \in Worker /\ worker'.pc = "idle" /\ NewRun /\ worker'.result = "none"
  BY NoWorkerLooks DEF Restart
<1>3. /\ status' \in Statuses /\ (status' = "Gone" => status = "Gone")
      /\ status' \in Settled => status \in Settled
  BY DEF Restart, RecordedExtracting, Statuses, Active
<1>4. /\ staging' \in Staging /\ (staging'.marker = TRUE => staging.marker = TRUE)
      /\ staging'.root = "none" => staging'.whole = {} /\ staging'.files = {}
      /\ \/ staging' = staging
         \/ Whole /\ staging.root = "owned"
         \/ op = "prepare" /\ staging.whole = {} /\ staging'.files \subseteq Linkable
  BY <1>1, TornLooks
<1>5. ASSUME NEW f \in FileSet
      PROVE  /\ place'[f] \in Places
             /\ place[f] \in Ours => place'[f] \in Ours
             /\ place[f] = "foreign" => place'[f] = "foreign"
  <2>1. /\ Unlinked(place, staging'.files)[f] \in Places
        /\ place[f] \in Ours => Unlinked(place, staging'.files)[f] \in Ours
        /\ place[f] = "foreign" => Unlinked(place, staging'.files)[f] = "foreign"
    BY DEF Unlinked, Places, Ours
  <2>2. op = "prepare" /\ staging' # staging /\ f \in staging'.files => place[f] # "foreign"
    BY <1>4 DEF Whole, Linkable, Ours
  <2>. QED
    BY <1>1, <2>1, <2>2 DEF Places, Ours
<1>6. place' \in [FileSet -> Places] /\ (Whole => Whole') /\ ForeignKept
  BY <1>1, <1>5 DEF Whole, ForeignKept
<1>7. PayloadKept
  BY <1>4, <1>5 DEF PayloadKept, Has, Whole
<1>8. status' = "Gone" => staging'.root # "owned"
  BY <1>3, <1>4
<1>. QED
  BY <1>1, <1>2, <1>3, <1>4, <1>6, <1>7, <1>8 DEF Publishing

-----------------------------------------------------------------------------
LEMMA InitIInv == ASSUME Assumptions, Init PROVE IInv
<1>1. worker \in Worker /\ worker.pc = "idle" /\ worker.was = FALSE /\ worker.next = 1
      /\ worker.published = {} /\ worker.result = "none"
  BY NoWorkerIsOne DEF Init
<1>2. staging \in Staging /\ staging.root = "none" /\ staging.whole = {} /\ staging.files = {}
      /\ staging.marker = FALSE
  BY DEF Init, Staging, NoStaging
<1>3. place \in [FileSet -> Places]
  BY DEF Init, Places
<1>. QED
  BY <1>1, <1>2, <1>3 DEF Init, Statuses, Ops, Publishing

LEMMA StutterKeeps == ASSUME IInv, UNCHANGED vars PROVE Keeps
<1>1. UNCHANGED <<status, worker, staging, place, unpack, cleaning, op>>
  BY DEF vars
<1>2. cleaning \in BOOLEAN
  OBVIOUS
<1>3. Publishing'
  BY <1>1, <1>2, PublishingStays
<1>. QED
  BY <1>1, <1>3, FilesStay

HIDE DEF IInv, Typed, Fresh, NoRoot, WholeWhenSaid, WholeWhenLate, WholeWhenCleaned, GoneIsOver,
         Before, Preparing, Keeps, SameRun, NewRun, Settled, Late, Early, Work,
         NoFailure, Engine, Command, fileVars, Idle

LEMMA NextKeeps == ASSUME Assumptions, IInv, [Next]_vars PROVE Keeps
<1>1. CASE WorkerStep
  BY <1>1, CreateRootKeeps, WriteOwnerKeeps, CheckDestinationsKeeps, GetHandleKeeps,
     DownloadTickKeeps, InterruptedKeeps, PublishFileKeeps, WriteMarkerKeeps,
     CheckReadinessKeeps, ExtractKeeps, SeedTickKeeps, LeaveKeeps DEF WorkerStep
<1>2. CASE EngineStep
  BY <1>2, StartKeeps, PauseKeeps, ResumeKeeps, CancelKeeps, StopSeedingKeeps,
     RetryExtractKeeps, FinishKeeps, CleanUpKeeps, ForceRecheckKeeps, RecheckedKeeps,
     PrepareRecheckKeeps, RemoveKeeps, RemovedKeeps DEF EngineStep
<1>. QED
  BY <1>1, <1>2, FetchKeeps, IntrudeKeeps, RestartKeeps, StutterKeeps DEF Next

(***************************************************************************)
(* A marker and the status Completed never lie about the payload: rechecks *)
(* and removals rely on it.                                                *)
(***************************************************************************)
THEOREM PublishedPayloadsAreWhole == ASSUME Assumptions PROVE Spec => []PublishedIsWhole
<1>1. Init => IInv
  BY InitIInv
<1>2. IInv /\ [Next]_vars => IInv'
  BY NextKeeps DEF Keeps
<1>3. IInv => PublishedIsWhole
  BY DEF IInv, Typed, WholeWhenSaid, Whole, Settled, PublishedIsWhole, Staging
<1>. QED
  BY <1>1, <1>2, <1>3, PTL DEF Spec

(***************************************************************************)
(* A complete file is never lost before its row is removed: not by the     *)
(* rollback of a publication, not by cleaning and not by a crash in the    *)
(* middle of either.                                                       *)
(***************************************************************************)
THEOREM NothingDownloadedIsLost == ASSUME Assumptions PROVE Spec => PayloadSurvives
<1>1. Init => IInv
  BY InitIInv
<1>2. IInv /\ [Next]_vars => IInv'
  BY NextKeeps DEF Keeps
<1>3. IInv /\ [Next]_vars => [\A f \in FileSet : Has(f) => Has(f)' \/ status' = "Gone"]_vars
  BY NextKeeps DEF Keeps, PayloadKept
<1>. QED
  BY <1>1, <1>2, <1>3, PTL DEF Spec, PayloadSurvives

(***************************************************************************)
(* A file the user put where a payload file goes is never replaced by one  *)
(* and never removed with it.                                              *)
(***************************************************************************)
THEOREM SparesForeignFiles == ASSUME Assumptions PROVE Spec => ForeignFilesStay
<1>1. Init => IInv
  BY InitIInv
<1>2. IInv /\ [Next]_vars => IInv'
  BY NextKeeps DEF Keeps
<1>3. IInv /\ [Next]_vars => [\A f \in FileSet : place[f] = "foreign" => place'[f] = "foreign"]_vars
  BY NextKeeps DEF Keeps, ForeignKept
<1>. QED
  BY <1>1, <1>2, <1>3, PTL DEF Spec, ForeignFilesStay
=============================================================================
