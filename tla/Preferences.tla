----------------------------- MODULE Preferences -----------------------------
(***************************************************************************)
(* Changing the settings (app/state.rs, SettingsDraft; update/settings.rs) *)
(* and telling the engine.  Texts and sliders are edited in a draft, which *)
(* is committed on release, on submit and when the dialog is closed; a     *)
(* switch changes the settings at once.  Each change is applied and saved  *)
(* in the window and sent to the engine, which checks it again.            *)
(*                                                                         *)
(* Commands are queued in the order they are given; one that finds the     *)
(* queue full is left to a task of its own and may be overtaken.           *)
(* Settings shows how they are saved.                                      *)
(***************************************************************************)
EXTENDS Integers, Sequences

CONSTANTS
  Given,        \* the settings of the file
  Texts,        \* what can be typed: numbers, and Bad
  MaxPort,      \* (65535)
  Unit,         \* bytes/s of the unit of the speed limit
  MinLimit,     \* the least speed limit (2)
  MaxDays,      \* the most days of seeding (3650)
  DefaultLimit, DefaultRatio, DefaultDays,
  Capacity,     \* of the command queue (128)
  MaxEdits      \* bound: edits and switches

VARIABLES
  config,       \* the settings of the window
  draft,        \* the draft of the dialog, or NoDraft
  commands,     \* the command queue
  unsent,       \* commands left to a task
  engine,       \* the settings of the engine
  overflowed,   \* a command has found the queue full
  edits

vars == <<config, draft, commands, unsent, engine, overflowed, edits>>

Bad == -1
NoLimit == 0

SeedPolicy(kind, ratio, days) == [kind |-> kind, ratio |-> ratio, days |-> days]
SeedForever == SeedPolicy("forever", 0, 0)
NeverSeed == SeedPolicy("never", 0, 0)

Choice(policy) ==
  IF policy.kind \in {"forever", "never"} THEN policy.kind ELSE "automatically"

NoDraft == [open |-> FALSE]

(* A limit, a ratio and days are shown where the settings have none.       *)
DraftOf(settings) ==
  LET policy == settings.seed
  IN [open |-> TRUE,
      limitOn |-> settings.limit # NoLimit,
      limit |-> (IF settings.limit = NoLimit THEN DefaultLimit ELSE settings.limit) \div Unit,
      port |-> settings.port,
      seed |-> Choice(policy),
      ratio |-> IF policy.kind \in {"ratio", "both"} THEN policy.ratio ELSE DefaultRatio,
      days |-> IF policy.kind \in {"days", "both"} THEN policy.days ELSE DefaultDays]

(* A mutant: the port is taken as it was parsed.                           *)
AnyPort(text) == text # Bad

ValidPort(text) == text \in 1 .. MaxPort

(* What does not parse leaves the setting as it was.                       *)
Apply(d, settings) ==
  [settings EXCEPT
     !.limit = IF ~d.limitOn THEN NoLimit ELSE IF d.limit > 0 THEN d.limit * Unit ELSE @,
     !.port = IF ValidPort(d.port) THEN d.port ELSE @,
     !.seed = CASE d.seed = "forever" -> SeedForever
                [] d.seed = "never" -> NeverSeed
                [] d.seed = "automatically" /\ d.ratio # Bad /\ d.days \in 0 .. MaxDays ->
                     SeedPolicy("both", d.ratio, d.days)
                [] OTHER -> @]

(* The engine, and the next start, accept no others.                       *)
Validate(settings) ==
  /\ settings.limit = NoLimit \/ settings.limit >= MinLimit
  /\ settings.port # 0
  /\ settings.seed.kind \in {"ratio", "both"} => settings.seed.ratio >= 0

(* A mutant: every command is left to a task.                              *)
CommandLater(settings) ==
  /\ unsent' = unsent \cup {<<edits, settings>>}
  /\ UNCHANGED <<commands, overflowed>>

Command(settings) ==
  IF Len(commands) < Capacity
  THEN commands' = Append(commands, settings) /\ UNCHANGED <<unsent, overflowed>>
  ELSE /\ unsent' = unsent \cup {<<edits, settings>>}
       /\ overflowed' = TRUE
       /\ UNCHANGED commands

ApplyConfig(next) ==
  IF next = config THEN UNCHANGED <<config, commands, unsent, overflowed>>
  ELSE config' = next /\ Command(next)

OpenSettings ==
  /\ ~draft.open
  /\ draft' = DraftOf(config)
  /\ UNCHANGED <<config, commands, unsent, engine, overflowed, edits>>

Edited ==
  /\ edits < MaxEdits
  /\ edits' = edits + 1

EditDraft ==
  /\ draft.open /\ Edited
  /\ \E text \in Texts :
       draft' \in {[draft EXCEPT !.limit = text], [draft EXCEPT !.port = text],
                   [draft EXCEPT !.ratio = text], [draft EXCEPT !.days = text]}
  /\ UNCHANGED <<config, commands, unsent, engine, overflowed>>

(* The choices of the dialog commit the whole draft.                       *)
CommitDraft ==
  /\ draft.open /\ Edited
  /\ \E d \in {[draft EXCEPT !.limitOn = ~@]}
              \cup {[draft EXCEPT !.seed = choice] :
                      choice \in {"automatically", "forever", "never"}} :
       draft' = d /\ ApplyConfig(Apply(d, config))
  /\ UNCHANGED engine

CommitSettings ==
  /\ draft.open
  /\ ApplyConfig(Apply(draft, config))
  /\ UNCHANGED <<draft, engine, edits>>

CloseOverlay ==
  /\ draft.open
  /\ ApplyConfig(Apply(draft, config))
  /\ draft' = NoDraft
  /\ UNCHANGED <<engine, edits>>

(* A switch; the draft keeps what is being edited.                         *)
ChangeConfig ==
  /\ Edited
  /\ ApplyConfig([config EXCEPT !.switch = ~@])
  /\ UNCHANGED <<draft, engine>>

SendLater(command) ==
  /\ Len(commands) < Capacity
  /\ commands' = Append(commands, command[2])
  /\ unsent' = unsent \ {command}
  /\ UNCHANGED <<config, draft, engine, overflowed, edits>>

SetConfig ==
  /\ commands # <<>>
  /\ commands' = Tail(commands)
  /\ engine' = IF Validate(Head(commands)) THEN Head(commands) ELSE engine
  /\ UNCHANGED <<config, draft, unsent, overflowed, edits>>

Init ==
  /\ config \in Given /\ engine = config
  /\ draft = NoDraft
  /\ commands = <<>> /\ unsent = {} /\ overflowed = FALSE /\ edits = 0

Next ==
  \/ OpenSettings \/ EditDraft \/ CommitDraft \/ CommitSettings \/ CloseOverlay \/ ChangeConfig
  \/ \E command \in unsent : SendLater(command)
  \/ SetConfig

Spec == Init /\ [][Next]_vars

(***************************************************************************)
(* Whatever is typed, chosen and switched while a draft is open, the       *)
(* engine ends with the settings of the window: it accepts them all, as    *)
(* the next start must, and none overtakes a later one.  A queue that was  *)
(* full once may break the order, which the code does not prevent.         *)
(***************************************************************************)
SettingsReachEngine ==
  commands = <<>> /\ unsent = {} /\ ~overflowed => engine = config
=============================================================================
