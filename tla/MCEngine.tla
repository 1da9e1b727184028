------------------------------ MODULE MCEngine ------------------------------
(* Values for the constants of Engine. *)
EXTENDS Engine, TLC

CONSTANTS a, b, set

ASSUME RetainIsSelectSeq ==
  \A n \in 0..4 : \A q \in [1..n -> {1, 2, 3}] : \A S \in SUBSET {1, 2, 3} :
    Retain(q, S) = SelectSeq(q, LAMBDA i : i \in S)

OneTorrent == [i \in {a, b} |-> "hash"]
NoTorrent == [i \in {} |-> "hash"]
(* Rows of one torrent are alike: no order of the ids is used. *)
RowSymmetry == Permutations({a, b})
TwoParts == <<a, b>>
NoParts == <<>>
RowCommands ==
  {"Add", "Pause", "Resume", "Cancel", "StopSeeding", "RetryExtract", "Remove",
   "ForceRecheck", "Shutdown"}
PackageCommands ==
  {"AddArchiveSet", "Pause", "Resume", "Retry", "Cancel", "RetryExtract", "Remove",
   "PauseAll", "ResumeAll", "SetConfig", "Shutdown"}
LiveCommands == {"AddArchiveSet", "Pause", "Resume", "Cancel", "Remove"}
StuckCommands == {"AddArchiveSet", "Shutdown"}
DuplicateCommands == {"Add", "Cancel", "Resume"}

(***************************************************************************)
(* Whatever a command waits for comes: the exit of the worker that it told *)
(* to stop, without the timeout, and with it the command.                  *)
(***************************************************************************)
CommandsEnd == WaitsEnd /\ CancelledWorkersLeave
=============================================================================
