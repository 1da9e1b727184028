------------------------------- MODULE Records -------------------------------
(***************************************************************************)
(* The engine's rows and their record in the database (engine.rs, db).     *)
(* The loop reads a row, writes it in one transaction and only then        *)
(* changes the row in memory; meanwhile the tracker of a worker counts     *)
(* bytes in memory and flushes the count to the database.  A write may     *)
(* fail, which leaves nothing of it, and the process may be killed at any  *)
(* time; it starts again from the record.  Transfer has the chunks.        *)
(***************************************************************************)
EXTENDS Naturals

CONSTANTS
  Ids,          \* the downloads
  Parts,        \* the archive sets, each with its parts
  MaxBytes,     \* bound: bytes of a download
  MaxEdits,     \* bound: pins and new names
  MaxFaults     \* bound: writes that fail, and kills

VARIABLES
  rows,      \* the rows in memory, of downloads and sets
  tables,    \* the tables of the database
  pending,   \* what the loop is writing
  worker,    \* the worker of each download and what its tracker does
  edits, faults

vars == <<rows, tables, pending, worker, edits, faults>>

Sets == DOMAIN Parts
Keys == Ids \cup Sets
Fields == {"status", "downloaded", "name", "pinned"}

(* The name stands for all that a torrent's metadata and a server tell.    *)
NoRow == [status |-> "none", downloaded |-> 0, name |-> 0, pinned |-> FALSE]
NewRow(status) == [NoRow EXCEPT !.status = status]

Has(key) == rows[key] # NoRow
Recorded == {key \in Keys : tables.rows[key] # NoRow}
SetsOf(id) == {s \in Sets : Has(s) /\ id \in Parts[s]}

(***************************************************************************)
(* The statements of a transaction, and what they make of the tables.      *)
(* Each is about a row of its own, so their order does not matter.         *)
(* Deletions cascade; an update of a row that is gone does nothing.        *)
(***************************************************************************)
Insert(key, row) == [what |-> "insert", key |-> key, row |-> row]
InsertState(id) == [what |-> "state", key |-> id]
InsertItem(s, id) == [what |-> "item", key |-> s, item |-> id]
Update(key, row, fields) == [what |-> "update", key |-> key, row |-> row, fields |-> fields]
Delete(key) == [what |-> "delete", key |-> key]

Edited(old, new, fields) == [f \in Fields |-> IF f \in fields THEN new[f] ELSE old[f]]

RowAfter(old, statement) ==
  CASE statement.what = "insert" -> statement.row
    [] statement.what = "update" ->
         IF old = NoRow THEN NoRow ELSE Edited(old, statement.row, statement.fields)
    [] statement.what = "delete" -> NoRow

Execute(t, statements) ==
  LET Of(what) == {statement \in statements : statement.what = what}
      On(key) == {statement \in statements :
                    statement.key = key /\ statement.what \in {"insert", "update", "delete"}}
      deleted == {statement.key : statement \in Of("delete")}
  IN [rows |-> [key \in Keys |->
                  IF On(key) = {} THEN t.rows[key]
                  ELSE RowAfter(t.rows[key], CHOOSE statement \in On(key) : TRUE)],
      states |-> (t.states \cup {statement.key : statement \in Of("state")}) \ deleted,
      items |-> {item \in t.items \cup {<<new.key, new.item>> : new \in Of("item")} :
                   item[1] \notin deleted /\ item[2] \notin deleted}]

Written(statements) == Execute(tables, statements)

(* The columns that a whole row, a set, a flush or an edit is written to.  *)
RowColumns == {"status", "downloaded", "pinned"}
SetColumns == {"status", "pinned"}

UpdateRow(key, row) == Update(key, row, IF key \in Sets THEN SetColumns ELSE RowColumns)

(* What the loop writes, what of it is then applied, whom it starts, and   *)
(* what it does when the write fails.                                      *)
Nothing == [step |-> "none"]
Writing(statements, changed, fields) ==
  [step |-> "write", statements |-> statements, changed |-> changed, fields |-> fields,
   starts |-> {}, failing |-> "reply"]

Idle == pending = Nothing

(* `set_status` and `commit`: byte counters stay as the tracker set them.  *)
SetStatus(keys, status) ==
  LET changed == [key \in keys |-> [rows[key] EXCEPT !.status = status]]
  IN Writing({UpdateRow(key, changed[key]) : key \in keys}, changed, {"status"})

Fault == faults < MaxFaults /\ faults' = faults + 1

InsertDownload(id) == {Insert(id, NewRow("queued")), InsertState(id)}

Add(id) ==
  /\ ~Has(id)
  /\ pending' = Writing(InsertDownload(id), [key \in {id} |-> NewRow("queued")], Fields)
  /\ UNCHANGED <<rows, tables, worker, edits, faults>>

InsertPackage(s) ==
  {Insert(s, NewRow("not_started"))}
  \cup UNION {InsertDownload(id) \cup {InsertItem(s, id)} : id \in Parts[s]}

AddSet(s) ==
  /\ \A key \in {s} \cup Parts[s] : ~Has(key)
  /\ pending' = Writing(InsertPackage(s),
                        [key \in {s} \cup Parts[s] |->
                           NewRow(IF key = s THEN "not_started" ELSE "queued")],
                        Fields)
  /\ UNCHANGED <<rows, tables, worker, edits, faults>>

(* A command for a set is one for those of its parts that it applies to.   *)
Targets(key, statuses) ==
  {id \in IF key \in Sets THEN Parts[key] ELSE {key} : rows[id].status \in statuses}

Command(key, from, to) ==
  LET targets == Targets(key, from)
  IN /\ Has(key) /\ targets # {}
     /\ pending' = SetStatus(targets, to)
     /\ UNCHANGED <<rows, tables, worker, edits, faults>>

Pause(key) == Command(key, {"queued", "active"}, "paused")
Resume(key) == Command(key, {"paused", "error", "unwritten"}, "queued")

Start(id) ==
  /\ rows[id].status = "queued" /\ worker[id] = "none"
  /\ pending' = [SetStatus({id}, "active") EXCEPT !.starts = {id}, !.failing = "error"]
  /\ UNCHANGED <<rows, tables, worker, edits, faults>>

Edit(key, field, value) ==
  LET changed == [rows[key] EXCEPT ![field] = value]
  IN /\ edits < MaxEdits /\ edits' = edits + 1
     /\ pending' = Writing({Update(key, changed, IF key \in Sets THEN SetColumns ELSE {field})},
                           [k \in {key} |-> changed], {field})
     /\ UNCHANGED <<rows, tables, worker, faults>>

SetPin(key) == Has(key) /\ Edit(key, "pinned", ~rows[key].pinned)

(* A worker asks for another name, or a torrent has learned its files.     *)
ClaimFilename(id) ==
  worker[id] = "running" /\ SetsOf(id) = {} /\ Edit(id, "name", rows[id].name + 1)

(* A mutant: an exit that changes no status is not written.                *)
ExitWrittenIfChanged(id, row) == IF row.status = rows[id].status THEN {} ELSE {UpdateRow(id, row)}

ExitWritten(id, row) == {UpdateRow(id, row)}

(* The status of a row that was stopped stays what the command made of it. *)
Finish(id) ==
  /\ worker[id] = "exiting"
  /\ worker' = [worker EXCEPT ![id] = "none"]
  /\ \E status \in IF rows[id].status = "active" THEN {"completed", "error"}
                   ELSE {rows[id].status} :
       LET row == [rows[id] EXCEPT !.status = status]
       IN pending' = [Writing(ExitWritten(id, row), [key \in {id} |-> row], {"status"})
                        EXCEPT !.failing = "unwritten"]
  /\ UNCHANGED <<rows, tables, edits, faults>>

(* A set whose parts are complete is extracted.                            *)
StartExtract(s) ==
  /\ rows[s].status \in {"not_started", "error", "unwritten"}
  /\ \A id \in Parts[s] : rows[id].status = "completed"
  /\ pending' = SetStatus({s}, "extracting")
  /\ UNCHANGED <<rows, tables, worker, edits, faults>>

FinishExtract(s) ==
  /\ rows[s].status = "extracting"
  /\ \E status \in {"completed", "error"} :
       pending' = [SetStatus({s}, status) EXCEPT !.failing = "unwritten"]
  /\ UNCHANGED <<rows, tables, worker, edits, faults>>

(* A mutant: the parts of a set are left to the cascade.                   *)
DeletedSet(s) == {Delete(s)}

DeletePackage(s) == {Delete(key) : key \in {s} \cup Parts[s]}

(* A part is removed with its set; the workers have stopped.               *)
RemoveRow(key) ==
  LET keys == IF key \in Sets THEN {key} \cup Parts[key] ELSE {key}
  IN /\ Has(key) /\ SetsOf(key) = {}
     /\ \A id \in keys \cap Ids : worker[id] = "none"
     /\ key \in Sets => rows[key].status # "extracting"
     /\ pending' = Writing(IF key \in Sets THEN DeletePackage(key) ELSE {Delete(key)},
                           [k \in keys |-> NoRow], Fields)
     /\ UNCHANGED <<rows, tables, worker, edits, faults>>

-----------------------------------------------------------------------------
(* A transaction is written as a whole or not at all.                      *)
Write ==
  /\ pending.step = "write"
  /\ tables' = Written(pending.statements)
  /\ pending' = [pending EXCEPT !.step = "apply"]
  /\ UNCHANGED <<rows, worker, edits, faults>>

Applied(changed, fields) ==
  [key \in Keys |-> IF key \in DOMAIN changed
                    THEN Edited(rows[key], changed[key], fields) ELSE rows[key]]

Apply ==
  /\ pending.step = "apply"
  /\ rows' = Applied(pending.changed, pending.fields)
  /\ worker' = [id \in Ids |-> IF id \in pending.starts THEN "running" ELSE worker[id]]
  /\ pending' = Nothing
  /\ UNCHANGED <<tables, edits, faults>>

(* A command fails; a row that could not be started fails, and a row whose *)
(* exit is not written shows that it is not.                               *)
WriteFails ==
  /\ pending.step = "write"
  /\ Fault
  /\ LET keys == DOMAIN pending.changed
         Unwritten == [key \in keys |-> [rows[key] EXCEPT !.status = "unwritten"]]
     IN CASE pending.failing = "reply" -> pending' = Nothing /\ UNCHANGED rows
          [] pending.failing = "error" ->
               /\ pending' = [SetStatus(keys, "error") EXCEPT !.failing = "unwritten"]
               /\ UNCHANGED rows
          [] OTHER -> pending' = Nothing /\ rows' = Applied(Unwritten, {"status"})
  /\ UNCHANGED <<tables, worker, edits>>

-----------------------------------------------------------------------------
(* The tracker counts, and every few seconds it flushes what it counted.   *)
TrackProgress(id) ==
  /\ worker[id] = "running" /\ rows[id].downloaded < MaxBytes
  /\ rows' = [rows EXCEPT ![id].downloaded = @ + 1]
  /\ \E next \in {"running", "flushing"} : worker' = [worker EXCEPT ![id] = next]
  /\ UNCHANGED <<tables, pending, edits, faults>>

UpdateProgress(id) ==
  /\ worker[id] = "flushing"
  /\ worker' = [worker EXCEPT ![id] = "running"]
  /\ \/ /\ tables' = Written({Update(id, rows[id], {"downloaded"})})
        /\ UNCHANGED faults
     \/ /\ Fault
        /\ UNCHANGED tables
  /\ UNCHANGED <<rows, pending, edits>>

(* It ends, on its own or because its row was stopped.                     *)
Exit(id) ==
  /\ worker[id] = "running"
  /\ worker' = [worker EXCEPT ![id] = "exiting"]
  /\ UNCHANGED <<rows, tables, pending, edits, faults>>

-----------------------------------------------------------------------------
(* A download is read with its state, a set with its items in their order. *)
(* A row that cannot be read stops the start.                              *)
Loads(id) == id \in tables.states
ItemsOf(s) == {item[2] : item \in {i \in tables.items : i[1] = s}}

(* What a start makes of a row: work that was interrupted is queued again, *)
(* an extraction has failed.  Only the latter is written.                  *)
Restored(row) ==
  [row EXCEPT !.status = CASE @ = "active" -> "queued" [] @ = "extracting" -> "error" [] OTHER -> @]

Restart ==
  /\ Fault
  /\ \A id \in Recorded \cap Ids : Loads(id)
  /\ rows' = [key \in Keys |-> Restored(tables.rows[key])]
  /\ tables' = [tables EXCEPT !.rows = [key \in Keys |-> IF key \in Sets THEN Restored(@[key])
                                                         ELSE @[key]]]
  /\ pending' = Nothing
  /\ worker' = [id \in Ids |-> "none"]
  /\ UNCHANGED <<edits>>

Init ==
  /\ rows = [key \in Keys |-> NoRow]
  /\ tables = [rows |-> rows, states |-> {}, items |-> {}]
  /\ pending = Nothing
  /\ worker = [id \in Ids |-> "none"]
  /\ edits = 0 /\ faults = 0

Loop ==
  /\ Idle
  /\ \/ \E id \in Ids : Add(id) \/ Start(id) \/ ClaimFilename(id) \/ Finish(id)
     \/ \E s \in Sets : AddSet(s) \/ StartExtract(s) \/ FinishExtract(s)
     \/ \E key \in Keys : Pause(key) \/ Resume(key) \/ SetPin(key) \/ RemoveRow(key)

Next ==
  \/ Loop \/ Write \/ Apply \/ WriteFails \/ Restart
  \/ \E id \in Ids : TrackProgress(id) \/ UpdateProgress(id) \/ Exit(id)

Spec == Init /\ [][Next]_vars

(***************************************************************************)
(* The tables can be loaded: a download is there with its state, a set     *)
(* with all of its parts.                                                  *)
(***************************************************************************)
TablesLoad ==
  /\ \A id \in Ids : id \in Recorded <=> Loads(id)
  /\ \A s \in Sets : ItemsOf(s) = IF s \in Recorded THEN Parts[s] ELSE {}
  /\ \A s \in Recorded \cap Sets : Parts[s] \subseteq Recorded

(***************************************************************************)
(* Between two writes a restart would show what the user is shown: each    *)
(* row is recorded as it is in memory, but for bytes that a worker is      *)
(* still counting and for a row that says that it could not be written.    *)
(* No flush, failed write, kill or command for another row makes the two   *)
(* drift apart.                                                            *)
(***************************************************************************)
RecordIsRows ==
  /\ TablesLoad
  /\ Idle => \A key \in Keys :
       LET row == Restored(rows[key])
           record == Restored(tables.rows[key])
           excused == (IF key \in Ids /\ worker[key] # "none" THEN {"downloaded"} ELSE {})
                      \cup (IF row.status = "unwritten" THEN {"status", "downloaded"} ELSE {})
       IN /\ Has(key) <=> key \in Recorded
          /\ \A f \in Fields \ excused : row[f] = record[f]
=============================================================================
