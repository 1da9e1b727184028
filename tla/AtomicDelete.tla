---------------------------- MODULE AtomicDelete ----------------------------
(***************************************************************************)
(* What the removal of a download, or of an archive set, promises          *)
(* (engine/delete.rs:1): its rows and its published files go together, or  *)
(* not at all, whatever fails and whenever the process is killed.          *)
(***************************************************************************)
CONSTANT Files

VARIABLES
  rows,           (* The rows are in the database.                          *)
  files           (* Their published files that there are.                  *)

vars == <<rows, files>>

Init == rows = TRUE /\ files \in SUBSET Files

Remove ==
  /\ rows
  /\ rows' = FALSE
  /\ files' \in {{}, files}

Spec == Init /\ [][Remove]_vars
=============================================================================
