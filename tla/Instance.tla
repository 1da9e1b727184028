------------------------------ MODULE Instance ------------------------------
(***************************************************************************)
(* One instance for each user (shio-app/src/instance.rs).  A process that  *)
(* gets the lock binds the endpoint and listens; one that does not hands   *)
(* its launch over to whoever is bound there and exits.  The endpoint of a *)
(* process that died stays behind, and every process may be killed.        *)
(*                                                                         *)
(* A process stands for its launch, the links and files it was started     *)
(* with.  Left out: encoding, tokens, clients that stall, a lock or an     *)
(* endpoint that cannot be opened.  "Mutant" marks a bug that the run must *)
(* notice.                                                                 *)
(***************************************************************************)
EXTENDS Naturals, SequencesExt

CONSTANTS
  Processes,      (* The processes that are started.                        *)
  ChannelSize,    (* Launches that wait for the application.                *)
  MaxKilled       (* Bound: processes that are killed.                      *)

VARIABLES
  phase,          (* What each process does.                                *)
  lock,           (* The process that holds `shio.instance.lock`.           *)
  endpoint,       (* The process that bound the endpoint last.              *)
  accepting,      (* `ACCEPTING` of each process.                           *)
  peer,           (* The process that a launch is connected to.             *)
  late,           (* Launches whose FORWARD_TIMEOUT has passed.             *)
  backlog,        (* Connections that wait for a process to accept them.    *)
  hand,           (* The connection its listener works on: none or one.     *)
  channel,        (* Launches on their way to its application.              *)
  opened,         (* Launches its application opened, in order.             *)
  dropped,        (* Launches its application never opened.                 *)
  killed          (* Counted against MaxKilled.                             *)

serverVars == <<backlog, hand, channel, opened, dropped>>
clientVars == <<peer, late>>
vars == <<phase, lock, endpoint, accepting, clientVars, serverVars, killed>>

Nobody == "nobody"
Listening(i) == phase[i] \in {"starting", "open", "broken", "quitting"}
Listeners == {i \in Processes : Listening(i)}
(* It opens launches, as far as it knows. *)
Serves(i) == phase[i] \in {"starting", "open"}
Alive(i) == Listening(i) \/ phase[i] \in {"acquiring", "locked", "forwarding", "waiting"}
Moves(p, to) == phase' = [phase EXCEPT ![p] = to]

-----------------------------------------------------------------------------
(* A process that starts. *)

Start(p) ==
  /\ phase[p] = "idle"
  /\ Moves(p, "acquiring")
  /\ UNCHANGED <<lock, endpoint, accepting, clientVars, serverVars, killed>>

(* `acquire_in` *)
Acquire(p) ==
  /\ phase[p] = "acquiring"
  /\ IF lock = Nobody THEN lock' = p /\ Moves(p, "locked")
     ELSE UNCHANGED lock /\ Moves(p, "forwarding")
  /\ UNCHANGED <<endpoint, accepting, clientVars, serverVars, killed>>

(* `transport::bind`, and the listener. *)
Bind(p) ==
  /\ phase[p] = "locked"
  /\ endpoint' = p
  /\ Moves(p, "starting")
  /\ UNCHANGED <<lock, accepting, clientVars, serverVars, killed>>

RejectActivations(p) == accepting' = [accepting EXCEPT ![p] = FALSE]

(* `Shio::new`: the application opens its own launch, unless its settings  *)
(* or its database cannot be read. *)
Open(p) ==
  /\ phase[p] = "starting"
  /\ Moves(p, "open")
  /\ opened' = [opened EXCEPT ![p] = Append(@, p)]
  /\ UNCHANGED <<lock, endpoint, accepting, clientVars, backlog, hand, channel, dropped, killed>>

StartupProblem(p) ==
  /\ phase[p] = "starting"
  /\ Moves(p, "broken")
  /\ RejectActivations(p)
  /\ UNCHANGED <<lock, endpoint, clientVars, serverVars, killed>>

-----------------------------------------------------------------------------
(* A process that forwards its launch. *)

(* `forward_once`: a connection is made whether or not it is accepted. *)
Connect(p) ==
  /\ phase[p] = "forwarding"
  /\ endpoint \in Listeners
  /\ backlog' = [backlog EXCEPT ![endpoint] =
                   Append(@, [launch |-> p, serves |-> Serves(endpoint)])]
  /\ peer' = [peer EXCEPT ![p] = endpoint]
  /\ Moves(p, "waiting")
  /\ UNCHANGED <<lock, endpoint, accepting, late, hand, channel, opened, dropped, killed>>

Expire(p) ==
  /\ phase[p] \in {"forwarding", "waiting"}
  /\ late' = late \cup {p}
  /\ UNCHANGED <<phase, lock, endpoint, accepting, peer, serverVars, killed>>

(* `forward`: an attempt that fails in time is made again. *)
AfterError(p) == IF p \in late THEN "failed" ELSE "forwarding"

NoPeer(p) ==
  /\ phase[p] = "forwarding" /\ p \in late
  /\ endpoint \notin Listeners
  /\ Moves(p, AfterError(p))
  /\ UNCHANGED <<lock, endpoint, accepting, clientVars, serverVars, killed>>

Reset(p) ==
  /\ phase[p] = "waiting" /\ ~Listening(peer[p])
  /\ Moves(p, AfterError(p))
  /\ UNCHANGED <<lock, endpoint, accepting, clientVars, serverVars, killed>>

(* An attempt is given FORWARD_TIMEOUT: it is the last. *)
TimesOut(p) == p \in late

NoAnswer(p) ==
  /\ phase[p] = "waiting" /\ TimesOut(p)
  /\ Moves(p, AfterError(p))
  /\ UNCHANGED <<lock, endpoint, accepting, clientVars, serverVars, killed>>

-----------------------------------------------------------------------------
(* The listener, `listen`. *)

Accept(i) ==
  /\ Listening(i) /\ hand[i] = <<>> /\ backlog[i] # <<>>
  /\ hand' = [hand EXCEPT ![i] = <<[conn |-> Head(backlog[i]), step |-> "read"]>>]
  /\ backlog' = [backlog EXCEPT ![i] = Tail(@)]
  /\ UNCHANGED <<phase, lock, endpoint, accepting, clientVars, channel, opened, dropped, killed>>

At(i, step) == Listening(i) /\ hand[i] # <<>> /\ hand[i][1].step = step
Client(i) == hand[i][1].conn.launch
StillWaits(i) == phase[Client(i)] = "waiting" /\ peer[Client(i)] = i

(* The connection is closed, without an acknowledgement. *)
Refuse(i) ==
  /\ hand' = [hand EXCEPT ![i] = <<>>]
  /\ phase' = IF StillWaits(i) THEN [phase EXCEPT ![Client(i)] = AfterError(Client(i))] ELSE phase
  /\ UNCHANGED channel

Check(i) ==
  /\ At(i, "read")
  /\ IF accepting[i]
     THEN hand' = [hand EXCEPT ![i][1].step = "checked"] /\ UNCHANGED <<phase, channel>>
     ELSE Refuse(i)
  /\ UNCHANGED <<lock, endpoint, accepting, clientVars, backlog, opened, dropped, killed>>

Send(i) ==
  /\ At(i, "checked")
  /\ IF Len(channel[i]) < ChannelSize
     THEN /\ channel' = [channel EXCEPT ![i] = Append(@, hand[i][1].conn)]
          /\ hand' = [hand EXCEPT ![i][1].step = "sent"]
          /\ UNCHANGED phase
     ELSE Refuse(i)
  /\ UNCHANGED <<lock, endpoint, accepting, clientVars, backlog, opened, dropped, killed>>

(* Mutant: a launch is acknowledged before it is in the channel. *)
AcknowledgesRead(i) == At(i, "read") \/ At(i, "sent")

Acknowledges(i) == At(i, "sent")

Acknowledge(i) ==
  /\ Acknowledges(i)
  /\ phase' = IF StillWaits(i) THEN [phase EXCEPT ![Client(i)] = "forwarded"] ELSE phase
  /\ hand' = [hand EXCEPT ![i] = <<>>]
  /\ UNCHANGED <<lock, endpoint, accepting, clientVars, backlog, channel, opened, dropped, killed>>

-----------------------------------------------------------------------------
(* The application. *)

(* `instance_events`, `InstanceActivated` *)
Receive(i) ==
  /\ phase[i] \in {"open", "broken", "quitting"} /\ channel[i] # <<>>
  /\ channel' = [channel EXCEPT ![i] = Tail(@)]
  /\ IF phase[i] = "open"
     THEN opened' = [opened EXCEPT ![i] = Append(@, Head(channel[i]).launch)] /\ UNCHANGED dropped
     ELSE dropped' = [dropped EXCEPT ![i] = @ \cup {Head(channel[i])}] /\ UNCHANGED opened
  /\ UNCHANGED <<phase, lock, endpoint, accepting, clientVars, backlog, hand, killed>>

(* `quit` *)
Quit(i) ==
  /\ phase[i] \in {"open", "broken"}
  /\ Moves(i, "quitting")
  /\ RejectActivations(i)
  /\ UNCHANGED <<lock, endpoint, clientVars, serverVars, killed>>

Ends(i) ==
  /\ Moves(i, "gone")
  /\ lock' = IF lock = i THEN Nobody ELSE lock
  /\ dropped' = [dropped EXCEPT ![i] = @ \cup ToSet(channel[i])]
  /\ backlog' = [backlog EXCEPT ![i] = <<>>]
  /\ hand' = [hand EXCEPT ![i] = <<>>]
  /\ channel' = [channel EXCEPT ![i] = <<>>]
  /\ UNCHANGED <<endpoint, accepting, clientVars, opened>>

(* `ShutdownComplete` *)
Exit(i) == phase[i] = "quitting" /\ Ends(i) /\ UNCHANGED killed

Kill(i) == Alive(i) /\ killed < MaxKilled /\ Ends(i) /\ killed' = killed + 1

-----------------------------------------------------------------------------
Init ==
  /\ phase = [p \in Processes |-> "idle"]
  /\ lock = Nobody /\ endpoint = Nobody
  /\ accepting = [p \in Processes |-> TRUE]
  /\ peer = [p \in Processes |-> Nobody] /\ late = {}
  /\ backlog = [p \in Processes |-> <<>>] /\ hand = backlog /\ channel = backlog
  /\ opened = backlog
  /\ dropped = [p \in Processes |-> {}] /\ killed = 0

Next ==
  \E p \in Processes :
    \/ Start(p) \/ Acquire(p) \/ Bind(p) \/ Open(p) \/ StartupProblem(p)
    \/ Connect(p) \/ Expire(p) \/ NoPeer(p) \/ Reset(p) \/ NoAnswer(p)
    \/ Accept(p) \/ Check(p) \/ Send(p) \/ Acknowledge(p)
    \/ Receive(p) \/ Quit(p) \/ Exit(p) \/ Kill(p)

Spec == Init /\ [][Next]_vars

-----------------------------------------------------------------------------
(* Properties. *)

(***************************************************************************)
(* A launch that was told that it was handed over is with an instance,     *)
(* which served launches when the launch connected: it was opened there,   *)
(* waits to be, or the instance ended before it got to it.  However often  *)
(* it had to try and however late the instance got to it, it is opened     *)
(* once.  "Later launches must fail instead of queueing into an instance   *)
(* that will never open them."                                             *)
(***************************************************************************)
ForwardedIsOpened ==
  /\ \A p \in Processes : phase[p] = "forwarded" =>
       LET given == [launch |-> p, serves |-> TRUE]
       IN  \/ p \in ToSet(opened[peer[p]])
           \/ given \in ToSet(channel[peer[p]]) \cup dropped[peer[p]]
  /\ \A i \in Processes : \A c \in ToSet(channel[i]) \cup dropped[i] : c.serves
  /\ \A i \in Processes : IsInjective(opened[i])
=============================================================================
