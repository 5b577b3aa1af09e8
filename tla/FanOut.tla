------------------------------- MODULE FanOut -------------------------------
(***************************************************************************)
(* The lanes an agent asks for: the registry of its worker                 *)
(* (engine/fanout.py, engine/tools/__init__.py), the requests it publishes,*)
(* the bridge of each backend that spawns them through the capacity of the *)
(* fleet (events/spawn_bridge.py, orchestrator/thread_manager.py), the     *)
(* watch over each child with its two hours, and the spawn_done that frees *)
(* the parent's slot (events/control.py, engine/runner.py).                *)
(*                                                                         *)
(* The lanes are those of one parent: a request is named by the lane that  *)
(* is spawned for it.  A bridge takes requests in the order of the stream, *)
(* and each is handled once: an entry that was read by a process that      *)
(* ended stays pending and is never read again.  What the capacity of the  *)
(* fleet says to a spawn is module Capacity's: here it may grant or refuse.*)
(***************************************************************************)
EXTENDS Naturals, Sequences, FiniteSets

CONSTANTS
  Replicas,     \* backend processes
  Lanes,        \* the requests of one parent
  NoLane, NoReplica,
  MaxSlices,    \* SWARM_MAX_SLICES
  MaxFaults,    \* bound: calls that raise
  MaxCrashes    \* bound: ends of a backend process

FanOutAssumption ==
  /\ NoLane \notin Lanes /\ NoReplica \notin Replicas
  /\ MaxSlices \in Nat /\ MaxFaults \in Nat /\ MaxCrashes \in Nat

VARIABLES
  worker,       \* the parent: up or over
  reg,          \* its registry
  batch, sent,  \* the call in hand: to be published; on the wire
  fresh, armed, \* to get a watchdog; with one
  mail,         \* spawn_done on the control channel
  stream,       \* spawn_requests, not read yet
  inbox, phase, \* each bridge: what it has read, where it is with the first
  laneRow, child,   \* the rows and the containers of the lanes
  stamping,     \* lanes with a row that their spawn has yet to call "running"
  watch,        \* the process that watches the child
  told,         \* what the bridge has reported
  over,         \* the run has ended
  faults, crashes

workerVars == <<worker, reg, batch, sent, fresh, armed>>
bridgeVars == <<stream, inbox, phase, watch, told>>
laneVars == <<laneRow, child, stamping>>
fanVars == <<workerVars, mail, bridgeVars, laneVars, over, faults, crashes>>

Live == {"requested", "running"}

FanTypeOK ==
  /\ worker \in {"up", "over"}
  /\ reg \in [Lanes -> Live \cup {"none", "vetoed", "drained", "timed_out", "completed"}]
  /\ batch \subseteq Lanes /\ sent \in batch \cup {NoLane}
  /\ fresh \subseteq Lanes /\ armed \subseteq Lanes /\ mail \subseteq Lanes
  /\ stream \in Seq(Lanes) /\ inbox \in [Replicas -> Seq(Lanes)]
  /\ phase \in [Replicas -> {"wait", "spawn", "start", "stamp", "veto"}]
  /\ laneRow \in [Lanes -> {"none", "open", "closed"}]
  /\ child \in [Lanes -> {"none", "up", "gone"}] /\ stamping \subseteq Lanes
  /\ watch \in [Lanes -> Replicas \cup {NoReplica}]
  /\ told \in [Lanes -> {"none", "vetoed", "ended", "timed_out"}]
  /\ over \in BOOLEAN
  /\ faults \in 0..MaxFaults /\ crashes \in 0..MaxCrashes

FanInit ==
  /\ worker = "up" /\ reg = [s \in Lanes |-> "none"]
  /\ batch = {} /\ sent = NoLane /\ fresh = {} /\ armed = {} /\ mail = {}
  /\ stream = <<>> /\ inbox = [r \in Replicas |-> <<>>]
  /\ phase = [r \in Replicas |-> "wait"]
  /\ laneRow = [s \in Lanes |-> "none"] /\ child = [s \in Lanes |-> "none"] /\ stamping = {}
  /\ watch = [s \in Lanes |-> NoReplica]
  /\ told = [s \in Lanes |-> "none"]
  /\ over = FALSE /\ faults = 0 /\ crashes = 0

FanFault == faults < MaxFaults /\ faults' = faults + 1

Sets(s, status) == reg' = [reg EXCEPT ![s] = status]

-----------------------------------------------------------------------------
(* The worker.                                                             *)

LiveSpawns == {s \in Lanes : reg[s] \in Live}

\* _veto, is_saturated: the running total, not the batch alone.
Allowed(S) ==
  /\ Cardinality(LiveSpawns) < MaxSlices
  /\ Cardinality(LiveSpawns) + Cardinality(S) <= MaxSlices

\* spawn_agent asks for one lane, spawn_swarm for several; both only register.
Call(S) ==
  /\ worker = "up" /\ batch = {} /\ fresh = {}
  /\ S # {} /\ \A s \in S : reg[s] = "none"
  /\ Allowed(S)
  /\ reg' = [s \in Lanes |-> IF s \in S THEN "requested" ELSE reg[s]]
  /\ batch' = S /\ fresh' = S
  /\ UNCHANGED <<worker, sent, armed, mail, bridgeVars, laneVars, over, faults, crashes>>

\* Mutant: the registry says "running" before the request is on the stream.
SendMutant(s) ==
  /\ s \in batch /\ sent = NoLane /\ reg[s] = "requested"
  /\ sent' = s /\ Sets(s, "running")
  /\ UNCHANGED <<worker, batch, fresh, armed, mail, bridgeVars,
                 laneVars, over, faults, crashes>>

\* publish_spawn_requests: the request is on the stream, its answer is not back.
Send(s) ==
  /\ s \in batch /\ sent = NoLane /\ reg[s] = "requested"
  /\ stream' = Append(stream, s) /\ sent' = s
  /\ UNCHANGED <<worker, reg, batch, fresh, armed, mail, inbox, phase,
                 watch, told, laneVars, over, faults, crashes>>

Replied ==
  /\ sent # NoLane
  /\ Sets(sent, "running")
  /\ batch' = batch \ {sent} /\ sent' = NoLane
  /\ UNCHANGED <<worker, fresh, armed, mail, bridgeVars, laneVars, over, faults, crashes>>

\* The call raises, with the request on the stream or not.
SendFails(s) ==
  /\ FanFault
  /\ s \in batch /\ sent \in {s, NoLane} /\ (sent = NoLane => reg[s] = "requested")
  /\ Sets(s, "vetoed")
  /\ batch' = batch \ {s} /\ sent' = NoLane
  /\ UNCHANGED <<worker, fresh, armed, mail, bridgeVars, laneVars, over, crashes>>

\* Mutant: no watchdog is ever scheduled.
ArmMutant ==
  /\ batch = {} /\ fresh # {}
  /\ fresh' = {}
  /\ UNCHANGED <<worker, reg, batch, sent, armed, mail, bridgeVars,
                 laneVars, over, faults, crashes>>

\* _call_extra_tool: a watchdog for each id that is new, vetoed ones included.
Arm ==
  /\ batch = {} /\ fresh # {}
  /\ armed' = armed \cup fresh /\ fresh' = {}
  /\ UNCHANGED <<worker, reg, batch, sent, mail, bridgeVars, laneVars, over,
                 faults, crashes>>

\* enforce_timeout: it relabels the entry.
LocalTimeout(s) ==
  /\ s \in armed
  /\ Sets(s, IF reg[s] \in Live THEN "timed_out" ELSE reg[s])
  /\ armed' = armed \ {s}
  /\ UNCHANGED <<worker, batch, sent, fresh, mail, bridgeVars, laneVars, over,
                 faults, crashes>>

\* The control pump: finish(msg.text), with its default status.
Hear(s) ==
  /\ worker = "up" /\ s \in mail
  /\ mail' = mail \ {s}
  /\ Sets(s, "completed") /\ armed' = armed \ {s}
  /\ UNCHANGED <<worker, batch, sent, fresh, bridgeVars, laneVars, over, faults, crashes>>

\* The parent's process ends; drain relabels, and tells nobody.
ParentEnds ==
  /\ worker = "up"
  /\ worker' = "over"
  /\ reg' = [s \in Lanes |-> IF reg[s] \in Live THEN "drained" ELSE reg[s]]
  /\ batch' = {} /\ sent' = NoLane /\ fresh' = {} /\ armed' = {} /\ mail' = {}
  /\ UNCHANGED <<bridgeVars, laneVars, over, faults, crashes>>

-----------------------------------------------------------------------------
(* The bridge.                                                             *)

AtHead(r, p, s) == phase[r] = p /\ inbox[r] # <<>> /\ s = Head(inbox[r])

Moves(r, p) == phase' = [phase EXCEPT ![r] = p] /\ UNCHANGED inbox

Drops(r) ==
  /\ inbox' = [inbox EXCEPT ![r] = Tail(inbox[r])]
  /\ phase' = [phase EXCEPT ![r] = "wait"]

\* spawn_done: publish and subscribe, so a parent that is over misses it.
Reports(s, status) ==
  /\ told' = [told EXCEPT ![s] = status]
  /\ mail' = IF worker = "up" THEN mail \cup {s} ELSE mail

Rows(s, status) == laneRow' = [laneRow EXCEPT ![s] = status]

\* XREADGROUP with ">": whatever is there, in its order.
Read(r) ==
  /\ inbox[r] = <<>> /\ stream # <<>>
  /\ inbox' = [inbox EXCEPT ![r] = stream] /\ stream' = <<>>
  /\ UNCHANGED <<workerVars, mail, phase, watch, told, laneVars, over, faults, crashes>>

\* _process: the state of the run is read first.
Look(r) ==
  /\ phase[r] = "wait" /\ inbox[r] # <<>>
  /\ Moves(r, IF over THEN "veto" ELSE "spawn")
  /\ UNCHANGED <<workerVars, mail, stream, watch, told, laneVars, over, faults, crashes>>

\* ThreadManager.spawn: a slot and the row, or a refusal.
Acquire(r, s) ==
  /\ AtHead(r, "spawn", s)
  /\ \/ Rows(s, "open") /\ stamping' = stamping \cup {s} /\ Moves(r, "start")
     \/ Moves(r, "veto") /\ UNCHANGED <<laneRow, stamping>>
  /\ UNCHANGED <<workerVars, mail, stream, watch, told, child, over, faults, crashes>>

\* The container is up; its id is not in the row yet.
Start(r, s) ==
  /\ AtHead(r, "start", s)
  /\ child' = [child EXCEPT ![s] = "up"]
  /\ Moves(r, "stamp")
  /\ UNCHANGED <<workerVars, mail, stream, watch, told, laneRow, stamping, over, faults, crashes>>

\* The key, the images or the container failed: _mark(failed).
StartFails(r, s) ==
  /\ FanFault /\ AtHead(r, "start", s)
  /\ Rows(s, "closed") /\ stamping' = stamping \ {s}
  /\ Moves(r, "veto")
  /\ UNCHANGED <<workerVars, mail, stream, watch, told, child, over, crashes>>

\* The row says "running", whatever it said, and the watch begins; or the row
\* was closed meanwhile, its repository has another writer, and the spawn
\* raises with the container up.
Stamped(r, s) ==
  /\ AtHead(r, "stamp", s)
  /\ stamping' = stamping \ {s}
  /\ \/ Rows(s, "open") /\ Drops(r) /\ watch' = [watch EXCEPT ![s] = r]
     \/ laneRow[s] = "closed" /\ Moves(r, "veto") /\ UNCHANGED <<laneRow, watch>>
  /\ UNCHANGED <<workerVars, mail, stream, told, child, over, faults, crashes>>

\* The refusal is reported; a report that fails is not tried again.
Veto(r, s) ==
  /\ AtHead(r, "veto", s)
  /\ Drops(r)
  /\ \/ Reports(s, "vetoed") /\ UNCHANGED faults
     \/ FanFault /\ UNCHANGED <<told, mail>>
  /\ UNCHANGED <<workerVars, stream, watch, laneVars, over, crashes>>

-----------------------------------------------------------------------------
(* The watch over a child: _watch_child.                                   *)

\* The row is terminal.
Ended(s) ==
  /\ watch[s] # NoReplica /\ laneRow[s] = "closed"
  /\ watch' = [watch EXCEPT ![s] = NoReplica]
  /\ \/ Reports(s, "ended") /\ UNCHANGED faults
     \/ FanFault /\ UNCHANGED <<told, mail>>
  /\ UNCHANGED <<workerVars, stream, inbox, phase, laneVars, over, crashes>>

\* Past the deadline: killed, its exit awaited, its row closed.  A container
\* that survives is only logged.
Overdue(s) ==
  /\ watch[s] # NoReplica /\ laneRow[s] = "open"
  /\ Rows(s, "closed")
  /\ watch' = [watch EXCEPT ![s] = NoReplica]
  /\ Reports(s, "timed_out")
  /\ \/ child' = [child EXCEPT ![s] = "gone"] /\ UNCHANGED faults
     \/ FanFault /\ UNCHANGED child
  /\ UNCHANGED <<workerVars, stream, inbox, phase, stamping, over, crashes>>

-----------------------------------------------------------------------------
(* Containers, runs and processes.                                         *)

\* The worker in the container has come to its end.
Exit(s) ==
  /\ child[s] = "up"
  /\ child' = [child EXCEPT ![s] = "gone"]
  /\ UNCHANGED <<workerVars, mail, bridgeVars, laneRow, stamping, over, faults, crashes>>

\* Heartbeats, boot watchdog, reaper and reconciliation: the row of a lane
\* whose container is gone, or of a spawn that ended before it, is closed.
Mirror(s) ==
  /\ laneRow[s] = "open" /\ child[s] # "up" /\ (child[s] = "gone" \/ s \notin stamping)
  /\ Rows(s, "closed")
  /\ UNCHANGED <<workerVars, mail, bridgeVars, child, stamping, over, faults, crashes>>

\* The run is stopped, completed or failed: the rows are closed, and the
\* containers stopped whose ids the rows have.
RunEnds ==
  /\ ~over /\ over' = TRUE
  /\ laneRow' = [s \in Lanes |-> IF laneRow[s] = "open" THEN "closed" ELSE laneRow[s]]
  /\ child' = [s \in Lanes |-> IF child[s] = "up" /\ laneRow[s] = "open" /\ s \notin stamping
                                THEN "gone" ELSE child[s]]
  /\ UNCHANGED <<workerVars, mail, bridgeVars, stamping, faults, crashes>>

\* A backend process ends, and another takes its place.
Dies(r) ==
  /\ crashes < MaxCrashes /\ crashes' = crashes + 1
  /\ inbox' = [inbox EXCEPT ![r] = <<>>] /\ phase' = [phase EXCEPT ![r] = "wait"]
  /\ watch' = [s \in Lanes |-> IF watch[s] = r THEN NoReplica ELSE watch[s]]
  /\ stamping' = {s \in stamping : inbox[r] = <<>> \/ s # Head(inbox[r])}
  /\ UNCHANGED <<workerVars, mail, stream, told, laneRow, child, over, faults>>

-----------------------------------------------------------------------------
Publishing == (\E s \in Lanes : Send(s)) \/ Replied \/ Arm

Bridge(r) ==
  \/ Read(r) \/ Look(r)
  \/ \E s \in Lanes : Acquire(r, s) \/ Start(r, s) \/ Stamped(r, s) \/ Veto(r, s)

Watch(s) == Ended(s) \/ Overdue(s)

FanNext ==
  \/ \E S \in SUBSET Lanes : Call(S)
  \/ Publishing \/ ParentEnds \/ RunEnds
  \/ \E s \in Lanes :
       SendFails(s) \/ LocalTimeout(s) \/ Hear(s) \/ Watch(s) \/ Exit(s) \/ Mirror(s)
  \/ \E r \in Replicas : Bridge(r) \/ Dies(r) \/ \E s \in Lanes : StartFails(r, s)

FanSpec == FanInit /\ [][FanNext]_fanVars

\* Timers fire and loops turn; nothing says that a child or a run ends.
FanFairness ==
  /\ WF_fanVars(Publishing)
  /\ \A s \in Lanes : WF_fanVars(LocalTimeout(s)) /\ WF_fanVars(Hear(s)) /\ WF_fanVars(Watch(s))
  /\ \A r \in Replicas : WF_fanVars(Bridge(r))

FanFairSpec == FanSpec /\ FanFairness

-----------------------------------------------------------------------------
(* Properties.                                                             *)

\* The registry never calls a lane running that the backend has not heard of
\* (fanout.py:72): the request is on its way, a bridge has it, or it was dealt
\* with, unless a process ended with it or a report failed.
NoPhantom ==
  \A s \in Lanes : reg[s] = "running" /\ crashes = 0 /\ faults = 0 =>
    \/ \E i \in 1..Len(stream) : stream[i] = s
    \/ \E r \in Replicas : \E i \in 1..Len(inbox[r]) : inbox[r][i] = s
    \/ watch[s] # NoReplica \/ told[s] # "none"

\* A slot of the parent's fan-out is freed in the end, whatever becomes of the
\* backend and of the report (fanout.py:342, runner.py:664).
SlotFreed == \A s \in Lanes : reg[s] \in Live ~> reg[s] \notin Live

\* The parent sees the refusal (spawn_bridge.py:153).
VetoSeen == \A s \in Lanes : told[s] = "vetoed" => reg[s] # "completed"
=============================================================================
