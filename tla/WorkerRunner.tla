---------------------------- MODULE WorkerRunner ----------------------------
(***************************************************************************)
(* A worker process (engine/runner.py): the main coroutine that runs the   *)
(* turns of one lane, the pump of its control channel, the idle watchdog,  *)
(* the heartbeat loop and the signal handler, which all share its status   *)
(* and its stop flag and yield to each other where the code awaits.        *)
(*                                                                         *)
(* A beat is a write and a publish; whoever sends it read the status       *)
(* before.  The consumer of the backend mirrors it in the lane's row,      *)
(* unless the row is closed (services/heartbeats.py).                      *)
(***************************************************************************)
EXTENDS Naturals, Sequences

CONSTANTS
  MaxControl,  \* bound: control messages the backend sends
  MaxCards,     \* bound: approvals the turns ask for
  MaxBlips      \* bound: calls of Redis that raise

RunnerAssumption ==
  MaxControl \in Nat /\ MaxCards \in Nat /\ MaxBlips \in Nat

VARIABLES
  main,         \* the main coroutine
  turn,         \* the turn it runs
  first,        \* whether that turn is the tracked one, _turn_task
  cancel,       \* it has been cancelled
  doomed,       \* it began after the stop flag was set
  status, stop, \* self.status, self._stop
  queued,       \* _pending_nudges
  mode,         \* self.mode has been changed, and the turn has not seen it
  pump, inbox,  \* the pump and the queue it drains
  signal,       \* the coroutine the signal handler starts
  beat,         \* the heartbeat loop: the status it is about to publish, or "none"
  dog,          \* the idle watchdog
  old,          \* last_activity is older than the idle TTL
  row,          \* the status in the lane's row
  told,         \* a control message told the worker to stop
  acked,        \* stops that were acknowledged to the backend
  published, cards, blips,
  late          \* turns that took a decision after a stop was acknowledged

mainVars == <<main, turn, first, cancel, doomed, queued, mode>>
taskVars == <<pump, inbox, signal, beat, dog>>
envVars  == <<told, acked, published, cards, blips, late>>
vars == <<mainVars, taskVars, status, stop, old, row, envVars>>

Statuses == {"running", "idle", "input_required", "completed", "failed", "stopped"}
ClosedRows == {"completed", "failed", "stopped"}
Messages == {"nudge", "interrupt", "kill", "mode"}
Stopping == {"drain", "cancel", "stamp", "ack"}

TypeOK ==
  /\ main \in {"boot", "ready", "turn", "failing", "loop", "get", "close", "exited"}
  /\ turn \in {"none", "start", "work", "card", "answered", "done", "blocked", "error"}
  /\ first \in BOOLEAN /\ cancel \in BOOLEAN /\ doomed \in BOOLEAN /\ stop \in BOOLEAN /\ old \in BOOLEAN
  /\ status \in Statuses /\ row \in Statuses /\ beat \in Statuses \cup {"none"}
  /\ queued \in Nat /\ mode \in BOOLEAN
  /\ pump \in {"off", "get", "end"} \cup Stopping /\ inbox \in Seq(Messages)
  /\ signal \in {"none", "end"} \cup Stopping
  /\ dog \in {"watch", "say", "end"}
  /\ told \in BOOLEAN /\ acked \in BOOLEAN /\ late \subseteq {"tracked", "nudge", "doomed"}
  /\ published \in Nat /\ cards \in Nat /\ blips \in Nat

Init ==
  /\ main = "boot" /\ turn = "none" /\ first = FALSE /\ cancel = FALSE /\ doomed = FALSE
  /\ status = "running" /\ stop = FALSE /\ queued = 0 /\ mode = FALSE
  /\ pump = "off" /\ inbox = <<>> /\ signal = "none" /\ beat = "none" /\ dog = "watch"
  /\ old = FALSE /\ row = "running"
  /\ told = FALSE /\ acked = FALSE /\ published = 0 /\ cards = 0 /\ blips = 0 /\ late = {}

Alive == main # "exited"
Up == main \notin {"boot", "close", "exited"}  \* the background tasks run

\* The row after a beat.
Heard(word) == row' = IF row \in ClosedRows THEN row ELSE word
Says(word) == status' = word /\ Heard(word)
Blip == blips < MaxBlips /\ blips' = blips + 1

-----------------------------------------------------------------------------
(* run: the checks, the subscription, the first beat.                      *)

\* Redis or the gateway does not answer: the process ends without a word.
BootFails ==
  /\ main = "boot" /\ Blip /\ main' = "exited"
  /\ UNCHANGED <<turn, first, cancel, doomed, queued, mode, taskVars, status, stop, old, row,
                 told, acked, published, cards, late>>

\* The listener subscribes, and the pump waits for its first message; then the
\* first beat.
Boot ==
  /\ main = "boot" /\ main' = "ready" /\ pump' = "get"
  /\ Heard(status)
  /\ UNCHANGED <<turn, first, cancel, doomed, queued, mode, inbox, signal, beat, dog, status, stop,
                 old, envVars>>

\* A fresh checkpoint, or one that was left in the middle of a turn.
FirstTurn ==
  /\ main = "ready" /\ main' = "turn" /\ turn' = "start" /\ first' = TRUE
  /\ status' = "running" /\ doomed' = stop
  /\ UNCHANGED <<cancel, queued, mode, taskVars, stop, old, row, envVars>>

\* The checkpoint of a turn that was over.
NoTurn ==
  /\ main = "ready" /\ main' = "loop"
  /\ IF status = "running" THEN Says("idle") ELSE UNCHANGED <<status, row>>
  /\ UNCHANGED <<turn, first, cancel, doomed, queued, mode, taskVars, stop, old, envVars>>

-----------------------------------------------------------------------------
(* _run_turn and _invoke_with_approvals.                                   *)

Going == main = "turn" /\ ~(first /\ cancel)

TurnStarts ==
  /\ Going /\ turn = "start" /\ turn' = "work"
  /\ Heard(status) /\ mode' = FALSE
  /\ UNCHANGED <<main, first, cancel, doomed, queued, taskVars, status, stop, old, envVars>>

\* A gate of the graph: the card, and the wait for the decision.
Asks ==
  /\ Going /\ turn = "work" /\ turn' = "card"
  /\ cards < MaxCards /\ cards' = cards + 1
  /\ Says("input_required")
  /\ UNCHANGED <<main, first, cancel, doomed, queued, mode, taskVars, stop, old, told, acked, published, blips,
                 late>>

\* The decision, or the broker's timeout.
Decided ==
  /\ Going /\ turn = "card" /\ turn' = "work"
  /\ Says("running")
  /\ late' = late \cup (IF ~acked THEN {} ELSE
                       {CASE doomed -> "doomed" [] first /\ ~doomed -> "tracked" [] OTHER -> "nudge"})
  /\ UNCHANGED <<main, first, cancel, doomed, queued, mode, taskVars, stop, old, told, acked, published, cards,
                 blips>>

TurnResult(word) ==
  /\ Going /\ turn = "work" /\ turn' = word
  /\ old' = FALSE
  /\ UNCHANGED <<main, first, cancel, doomed, queued, mode, taskVars, status, stop, row, envVars>>

\* Mutant: a nudge turn that fails ends the process (M-04).
TurnEndsMutant ==
  /\ Going /\ turn \in {"done", "blocked", "error"}
  /\ turn' = "none" /\ first' = FALSE
  /\ CASE turn = "done"    -> Says("idle") /\ main' = "loop"
       [] turn = "blocked" -> Says("input_required") /\ main' = "loop"
       [] turn = "error"   -> Says("failed") /\ main' = "failing"
  /\ UNCHANGED <<cancel, doomed, queued, mode, taskVars, stop, old, envVars>>

\* The turn is over: a first turn that failed ends the process.
TurnEnds ==
  /\ Going /\ turn \in {"done", "blocked", "error"}
  /\ turn' = "none" /\ first' = FALSE
  /\ CASE turn = "done"    -> Says("idle") /\ main' = "loop"
       [] turn = "blocked" -> Says("input_required") /\ main' = "loop"
       [] turn = "error" /\ first  -> Says("failed") /\ main' = "failing"
       [] turn = "error" /\ ~first -> Says("idle") /\ main' = "loop"
  /\ UNCHANGED <<cancel, doomed, queued, mode, taskVars, stop, old, envVars>>

\* A beat or an event of the turn raises: the turn fails, whatever it has done.  That of
\* a nudge is caught, and yet ends the process when the beat or the event of the handler
\* raises as well, or when it was the read of the checkpoint, before the try.
TurnBlips ==
  /\ Going /\ Blip
  /\ turn' = "none" /\ first' = FALSE
  /\ \/ first /\ status' = "failed" /\ main' = "failing" /\ UNCHANGED row
     \/ ~first /\ Says("idle") /\ main' \in {"loop", "failing"}
     \/ ~first /\ status' \in {status, "idle"} /\ main' = "failing" /\ UNCHANGED row
  /\ UNCHANGED <<cancel, doomed, queued, mode, taskVars, stop, old, told, acked, published, cards, late>>

\* The CancelledError that _run_turn_guarded takes for a clean stop.
TurnCancelled ==
  /\ main = "turn" /\ first /\ cancel
  /\ turn' = "none" /\ first' = FALSE /\ main' = "loop"
  /\ UNCHANGED <<cancel, doomed, queued, mode, taskVars, status, stop, old, row, envVars>>

-----------------------------------------------------------------------------
(* The turn loop.                                                          *)

Top ==
  /\ main = "loop"
  /\ main' = IF stop THEN "close" ELSE "get"
  /\ UNCHANGED <<turn, first, cancel, doomed, queued, mode, taskVars, status, stop, old, row, envVars>>

\* Five seconds without a nudge.
GetTimesOut ==
  /\ main = "get" /\ queued = 0 /\ stop /\ main' = "loop"
  /\ UNCHANGED <<turn, first, cancel, doomed, queued, mode, taskVars, status, stop, old, row, envVars>>

\* _inject_and_run: the turn is not a task of its own.
Inject ==
  /\ main = "get" /\ queued > 0 /\ queued' = queued - 1
  /\ main' = "turn" /\ turn' = "start" /\ status' = "running"
  /\ doomed' = stop
  /\ UNCHANGED <<first, cancel, mode, taskVars, stop, old, row, envVars>>

\* The except of run.
Fails ==
  /\ main = "failing" /\ main' = "close"
  /\ Says("failed")
  /\ UNCHANGED <<turn, first, cancel, doomed, queued, mode, taskVars, stop, old, envVars>>

\* Its finally cancels the background tasks.  _request_stop swallows that where it
\* waits for the turn, and goes on to its stamp; a beat in flight is dropped.
Close ==
  /\ main = "close" /\ pump \notin {"stamp", "end"}
  /\ pump' = IF pump \in {"drain", "cancel"} THEN "stamp" ELSE "end"
  /\ UNCHANGED <<mainVars, inbox, signal, beat, dog, status, stop, old, row, envVars>>

Drops ==
  /\ main = "close" /\ pump = "stamp" /\ pump' = "end"
  /\ UNCHANGED <<mainVars, inbox, signal, beat, dog, status, stop, old, row, envVars>>

\* The tasks have ended; the connections are closed.
Exit ==
  /\ main = "close" /\ pump = "end" /\ main' = "exited"
  /\ UNCHANGED <<turn, first, cancel, doomed, queued, mode, taskVars, status, stop, old, row,
                 envVars>>

-----------------------------------------------------------------------------
(* _control_pump and _request_stop.                                        *)

Tracked == main = "turn" /\ first

\* What the pump does next once it has handled a message.
Again == IF stop THEN "end" ELSE "get"

Takes(type) ==
  /\ Up /\ pump = "get" /\ inbox # <<>> /\ Head(inbox) = type
  /\ inbox' = Tail(inbox) /\ old' = FALSE

\* A nudge waits for the turn boundary, or behind an approval.
TakesNudge ==
  /\ Takes("nudge")
  /\ queued' = queued + 1 /\ pump' = Again /\ Heard(status)
  /\ UNCHANGED <<main, turn, first, cancel, doomed, mode, signal, beat, dog, status, stop,
                 envVars>>

\* A mode that exists; the next turn runs under it.
TakesMode ==
  /\ Takes("mode")
  /\ mode' = TRUE /\ pump' = Again /\ Heard(status)
  /\ UNCHANGED <<main, turn, first, cancel, doomed, queued, signal, beat, dog, status, stop,
                 envVars>>

\* Mutant: the stop only sets the flag (K13).
TakesKillMutant ==
  /\ Takes("kill")
  /\ stop' = TRUE /\ told' = TRUE /\ pump' = "stamp"
  /\ UNCHANGED <<mainVars, signal, beat, dog, status, row, acked, published, cards,
                 blips, late>>

TakesKill ==
  /\ Takes("kill")
  /\ stop' = TRUE /\ told' = TRUE
  /\ cancel' = (cancel \/ Tracked)
  /\ pump' = IF Tracked THEN "cancel" ELSE "stamp"
  /\ UNCHANGED <<main, turn, first, doomed, queued, mode, signal, beat, dog, status, row,
                 acked, published, cards, blips, late>>

TakesInterrupt ==
  /\ Takes("interrupt")
  /\ stop' = TRUE /\ told' = TRUE
  /\ pump' = IF Tracked THEN "drain" ELSE "stamp"
  /\ UNCHANGED <<mainVars, signal, beat, dog, status, row, acked, published, cards,
                 blips, late>>

\* SIGTERM: docker stop.
SigTerm ==
  /\ Up /\ signal = "none"
  /\ stop' = TRUE
  /\ signal' = IF Tracked THEN "drain" ELSE "stamp"
  /\ UNCHANGED <<mainVars, pump, inbox, beat, dog, status, old, row, envVars>>

\* The turn has had interrupt_drain_s to end.
DrainTimesOut ==
  /\ Alive /\ Tracked /\ cancel' = TRUE
  /\ \/ pump = "drain" /\ pump' = "cancel" /\ UNCHANGED signal
     \/ signal = "drain" /\ signal' = "cancel" /\ UNCHANGED pump
  /\ UNCHANGED <<main, turn, first, doomed, queued, mode, inbox, beat, dog, status, stop, old,
                 row, envVars>>

Drained ==
  /\ Alive /\ ~Tracked
  /\ \/ pump \in {"drain", "cancel"} /\ pump' = "stamp" /\ UNCHANGED signal
     \/ signal \in {"drain", "cancel"} /\ signal' = "stamp" /\ UNCHANGED pump
  /\ UNCHANGED <<mainVars, inbox, beat, dog, status, stop, old, row, envVars>>

PumpStamps ==
  /\ Alive /\ pump = "stamp" /\ pump' = IF main = "close" THEN "end" ELSE "ack"
  /\ Says("stopped")
  /\ UNCHANGED <<mainVars, inbox, signal, beat, dog, stop, old, envVars>>

Acks ==
  /\ Up /\ pump = "ack" /\ pump' = "end" /\ acked' = TRUE
  /\ UNCHANGED <<mainVars, inbox, signal, beat, dog, status, stop, old, row, told, published,
                 cards, blips, late>>

SignalStamps ==
  /\ Alive /\ signal = "stamp" /\ signal' = "end"
  /\ Says("stopped")
  /\ UNCHANGED <<mainVars, pump, inbox, beat, dog, stop, old, envVars>>

\* Docker does not wait for more than five seconds.
SigKill ==
  /\ Alive /\ signal # "none" /\ main' = "exited"
  /\ UNCHANGED <<turn, first, cancel, doomed, queued, mode, taskVars, status, stop, old, row,
                 envVars>>

-----------------------------------------------------------------------------
(* The heartbeat loop and the idle watchdog.                               *)

BeatReads ==
  /\ Up /\ ~stop /\ beat = "none" /\ beat' = status
  /\ UNCHANGED <<mainVars, pump, inbox, signal, dog, status, stop, old, row, envVars>>

BeatSays ==
  /\ Up /\ beat # "none" /\ beat' = "none" /\ Heard(beat)
  /\ UNCHANGED <<mainVars, pump, inbox, signal, dog, status, stop, old, envVars>>

\* Nothing has touched last_activity for idle_ttl_s.
Ages ==
  /\ Up /\ main \in {"loop", "get"} /\ queued = 0 /\ inbox = <<>> /\ ~old /\ old' = TRUE
  /\ UNCHANGED <<mainVars, taskVars, status, stop, row, envVars>>

DogFires ==
  /\ Up /\ ~stop /\ dog = "watch" /\ status = "idle" /\ old
  /\ status' = "completed" /\ dog' = "say"
  /\ UNCHANGED <<mainVars, pump, inbox, signal, beat, stop, old, row, envVars>>

\* The beat is out: the thread is over.
DogSays ==
  /\ Up /\ dog = "say" /\ dog' = "end" /\ stop' = TRUE
  /\ Heard(status)
  /\ UNCHANGED <<mainVars, pump, inbox, signal, beat, status, old, envVars>>

\* The beat raises: the status stays, and the watchdog looks for another one.
DogBlips ==
  /\ Up /\ Blip /\ dog = "say" /\ dog' = "watch"
  /\ UNCHANGED <<mainVars, pump, inbox, signal, beat, status, stop, old, row, told, acked, published,
                 cards, late>>

-----------------------------------------------------------------------------
\* The backend publishes; what is published before the subscription is lost.
Sends(type) ==
  /\ Alive /\ published < MaxControl /\ published' = published + 1
  /\ inbox' = IF Up THEN Append(inbox, type) ELSE inbox
  /\ UNCHANGED <<mainVars, pump, signal, beat, dog, status, stop, old, row, told, acked, cards, blips,
                 late>>

Turn ==
  \/ TurnStarts \/ Decided \/ TurnEnds \/ TurnCancelled
  \/ \E word \in {"done", "blocked", "error"} : TurnResult(word)
Main == Boot \/ FirstTurn \/ NoTurn \/ Turn \/ Top \/ GetTimesOut \/ Inject \/ Fails \/ Exit
Pump ==
  \/ TakesNudge \/ TakesMode \/ TakesKill \/ TakesInterrupt
  \/ Close \/ Drained \/ PumpStamps \/ Acks
Dog == DogFires \/ DogSays
Others ==
  \/ BootFails \/ Asks \/ TurnBlips \/ Drops \/ SigTerm \/ DrainTimesOut \/ SignalStamps
  \/ SigKill \/ BeatReads \/ BeatSays \/ Ages \/ DogBlips

Next == Main \/ Pump \/ Dog \/ Others \/ \E type \in Messages : Sends(type)

Spec == Init /\ [][Next]_vars

\* The loop runs every coroutine that is not blocked; a turn ends, and so does the
\* wait for a decision, by the broker's timeout.
FairSpec == Spec /\ WF_vars(Main) /\ WF_vars(Pump) /\ WF_vars(Dog)

-----------------------------------------------------------------------------
(* Properties.                                                             *)

\* The turn that was in flight when the stop came takes no decision once the stop
\* is acknowledged (runner.py:627).
TrackedTurnStops == "tracked" \notin late

\* A nudge that is queued at the turn boundary is taken, unless the thread stops
\* first: a turn that fails does not take the next ones with it (M-04).
NudgesRun ==
  queued > 0 /\ main \in {"loop", "get"} ~> queued = 0 \/ stop \/ blips > 0

\* What the pump says of a kill: a late decision is never executed.
KillEndsTurn == "nudge" \notin late

\* What the watchdog logs of a beat that fails: it retries at the next tick.
CompletedEnds == status = "completed" ~> main = "exited" \/ status # "completed"
=============================================================================
