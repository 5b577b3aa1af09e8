---------------------------- MODULE RunLifecycle ----------------------------
(***************************************************************************)
(* One run, from POST /runs to its end: the blueprint tasks that drive its *)
(* stage, the lanes (threads) they spawn, the requests of its owner, the   *)
(* workers in their containers, the liveness reaper and backend restarts.  *)
(*                                                                         *)
(* The backend is one asyncio loop with synchronous database calls, so the *)
(* code between two real awaits is one action here.  Lanes are numbered in *)
(* the order their rows are created; lane 1 is the lead thread.            *)
(***************************************************************************)
EXTENDS RunStages, Naturals, FiniteSets, Sequences

CONSTANTS
  Blueprints,     \* mode |-> its nodes after _hydrate: [stage, body, resumes]
  MaxThreads,     \* bound: lanes the run may create
  MaxOps,         \* bound: requests of the owner
  Slots,          \* requests that may be in progress at the same time
  MaxCrashes,     \* bound: backend crashes
  StubbornDocker  \* TRUE iff a container may survive a forced stop

Bodies == {"sync", "work", "lane", "optional_lane", "answer"}

Modes  == DOMAIN Blueprints
Nodes(m) == Blueprints[m]

ASSUME BlueprintsAssumption ==
  \A m \in Modes :
    /\ Nodes(m) \in Seq([stage : Stages \cup {"same"}, body : Bodies, resumes : BOOLEAN])
    /\ Nodes(m) # <<>>
    /\ \A n \in 1..Len(Nodes(m)) :
         /\ Nodes(m)[n].stage \notin {"interrupted", "completed", "abandoned"}
         /\ Nodes(m)[n].body \in {"answer", "sync"} => n = Len(Nodes(m))
         /\ Nodes(m)[n].body = "answer" => n > 1
         /\ Nodes(m)[n].body = "optional_lane" =>
              n < Len(Nodes(m)) /\ Nodes(m)[n + 1].stage # "same"
ASSUME BoundsAssumption ==
  /\ StubbornDocker \in BOOLEAN
  /\ MaxThreads \in Nat \ {0} /\ MaxOps \in Nat /\ MaxCrashes \in Nat

Threads == 1..MaxThreads
Tasks   == 1..(MaxOps + 1)     \* the run's first task and one per request

VARIABLES
  stage,      \* Run.stage
  mode,       \* Run.mode
  row,        \* Thread.status of each lane
  prior,      \* resume_from_thread_id of each lane, 0 if it is a fresh one
  known,      \* the lanes whose row stores a container_id
  box,        \* the lane's worker container
  count,      \* number of lanes created
  task,       \* the blueprint tasks (asyncio tasks of _guarded_execute)
  made,       \* number of tasks created
  handle,     \* RunManager._tasks[run_id]: the last task, 0 if none
  req,        \* the owner's requests that wait for something
  up,         \* FALSE between a crash of the backend and its next boot
  ops, crashes

vars == <<stage, mode, row, prior, known, box, count, task, made, handle, req, up,
          ops, crashes>>
laneVars == <<row, prior, known, box, count>>
taskVars == <<task, made, handle>>
envVars  == <<mode, up, ops, crashes>>

BoxStates == {"none", "starting", "up", "exited", "error"}
TaskPcs   == {"free", "enter", "work", "lane", "mint", "start", "unwind", "await",
              "reap", "done", "cancelled"}
ReqPcs    == {"free", "stop_kill", "stop_cleanup", "drop_kill", "drop_cleanup",
              "resume_kill", "resume_cleanup"}

FreshTask(pc, from) ==
  [pc |-> pc, bp |-> mode, node |-> 1, lane |-> 0, from |-> from, todo |-> {}]
NoReq  == [pc |-> "free", todo |-> {}, held |-> {}]

TypeOK ==
  /\ stage \in Stages /\ mode \in Modes
  /\ row \in [Threads -> RowStatuses]
  /\ prior \in [Threads -> 0..MaxThreads]
  /\ known \subseteq Threads
  /\ box \in [Threads -> BoxStates]
  /\ count \in 0..MaxThreads
  /\ task \in [Tasks -> [pc : TaskPcs, bp : Modes, node : Nat \ {0}, lane : 0..MaxThreads,
                         from : 0..MaxThreads, todo : SUBSET Threads]]
  /\ \A k \in Tasks : task[k].node <= Len(Nodes(task[k].bp))
  /\ made \in Tasks
  /\ handle \in 0..(MaxOps + 1)
  /\ req \in [Slots -> [pc : ReqPcs, todo : SUBSET Threads, held : SUBSET Threads]]
  /\ up \in BOOLEAN
  /\ ops \in 0..MaxOps /\ crashes \in 0..MaxCrashes

Init ==
  /\ stage = "queued" /\ mode \in Modes
  /\ row = [t \in Threads |-> "absent"]
  /\ prior = [t \in Threads |-> 0]
  /\ known = {}
  /\ box = [t \in Threads |-> "none"]
  /\ count = 0
  /\ task = [k \in Tasks |-> FreshTask(IF k = 1 THEN "enter" ELSE "free", 0)]
  /\ made = 1 /\ handle = 1
  /\ req = [s \in Slots |-> NoReq]
  /\ up = TRUE
  /\ ops = 0 /\ crashes = 0

-----------------------------------------------------------------------------
Created == 1..count
Live    == {t \in Created : row[t] \in LiveRows}
Active(k) == task[k].pc \notin {"free", "done", "cancelled"}

\* The session directory a lane's container mounts (run_thread_container).
Mounted(t) == IF prior[t] = 0 THEN t ELSE prior[t]

Marked(ts, status) == [t \in Threads |-> IF t \in ts THEN status ELSE row[t]]

\* kill/interrupt, then verified exit.  A container whose id the caller does
\* not know gets only the published control message, which a worker that is
\* still booting misses.
KillOutcomes(t, ids) ==
  IF box[t] # "up" THEN {box[t]}
  ELSE {"exited"} \cup (IF t \notin ids \/ StubbornDocker THEN {"up"} ELSE {})

Goto(k, pc)  == task' = [task EXCEPT ![k].pc = pc]
Cancelled(k) == IF k # 0 /\ Active(k) THEN [task EXCEPT ![k].pc = "cancelled"] ELSE task

\* The failure path of _guarded_execute up to its first await, from stage
\* `stg`: FAILED unless the run is terminal, then the lanes still live after
\* `newRow`.
Raise(k, stg, newRow) ==
  LET live == {t \in Created : newRow[t] \in LiveRows} IN
  /\ row' = newRow
  /\ stage' = IF stg \in TerminalStages THEN stg ELSE "failed"
  /\ task' = [task EXCEPT ![k].pc = IF live = {} THEN "done" ELSE "reap", ![k].todo = live]
  /\ UNCHANGED <<prior, known, box, count, made, handle, req, envVars>>

-----------------------------------------------------------------------------
(* Blueprint.execute and the node bodies.                                  *)

NodesOf(k) == Nodes(task[k].bp)

EnteredStage(node) == IF node.stage = "same" THEN stage ELSE node.stage

\* The node in which the loop lands when it reaches n: the critic's lane is
\* skipped on an unparsable draft.
Landing(k, n) ==
  IF n <= Len(NodesOf(k)) /\ NodesOf(k)[n].body = "optional_lane" THEN {n, n + 1} ELSE {n}

\* AskBlueprint._complete settles an answer (which awaits, and may raise); a
\* lost lane sets FAILED on a detached instance only, so the stored stage
\* stays.  A "sync" body ends the blueprint without an await.
BodyPc(k, body) ==
  CASE body \in {"lane", "optional_lane"} -> "lane"
    [] body = "work" -> "work"
    [] body = "answer" -> IF row[task[k].lane] = "failed" THEN "done" ELSE "work"
    [] body = "sync" -> "done"

\* execute's loop from the end of a body to the next await: the stage of the
\* next node is stored with allow_terminal_exit and its body entered.
EnterNode(k, n) ==
  \E m \in Landing(k, n) :
    IF m > Len(NodesOf(k))
    THEN /\ task' = [task EXCEPT ![k].pc = "done"]
         /\ UNCHANGED <<stage, laneVars, made, handle, req, envVars>>
    ELSE LET node == NodesOf(k)[m] IN
         \/ /\ stage' = EnteredStage(node)
            /\ task' = [task EXCEPT ![k].pc = BodyPc(k, node.body), ![k].node = m]
            /\ UNCHANGED <<laneVars, made, handle, req, envVars>>
         \/ /\ node.body = "sync"
            /\ Raise(k, EnteredStage(node), row)

\* The task's first step: PROVISIONING and _hydrate, which awaits nothing and
\* raises on an unknown repository.
StartBlueprint(k) ==
  /\ task[k].pc = "enter"
  /\ \/ EnterNode(k, 1)
     \/ Raise(k, "provisioning", row)

\* A body that awaited (the test commands, the settlement of an answer) ...
BodyReturns(k) ==
  /\ task[k].pc = "work"
  /\ EnterNode(k, task[k].node + 1)

\* ... may raise.
BodyRaises(k) ==
  /\ task[k].pc = "work"
  /\ Raise(k, stage, row)

\* ThreadManager.spawn up to mint_key: the slot is reserved and the row inserted.
SpawnRow(k) ==
  /\ task[k].pc = "lane"
  /\ count < MaxThreads
  /\ count' = count + 1
  /\ row' = [row EXCEPT ![count + 1] = "queued"]
  /\ prior' = [prior EXCEPT ![count + 1] =
                 IF NodesOf(k)[task[k].node].resumes THEN task[k].from ELSE 0]
  /\ task' = [task EXCEPT ![k].pc = "mint", ![k].lane = count + 1]
  /\ UNCHANGED <<stage, known, box, made, handle, req, envVars>>

\* No capacity, a repo lock held elsewhere, a model that is gone.
SpawnRefused(k) ==
  /\ task[k].pc = "lane"
  /\ Raise(k, stage, row)

\* The key is stored and the start handed to a thread of the executor, which
\* a cancellation of the task does not reach.
MintKey(k) ==
  /\ task[k].pc = "mint"
  /\ box' = [box EXCEPT ![task[k].lane] = "starting"]
  /\ Goto(k, "start")
  /\ UNCHANGED <<stage, row, prior, known, count, made, handle, req, envVars>>

MintFails(k) ==
  /\ task[k].pc = "mint"
  /\ Raise(k, stage, Marked({task[k].lane}, "failed"))

\* Mutant: the container's id is not stored.
SpawnStampMutant(k) ==
  LET t == task[k].lane IN
  /\ task[k].pc = "start" /\ box[t] \in {"up", "exited"}
  /\ row' = [row EXCEPT ![t] = "running"]
  /\ Goto(k, "await")
  /\ UNCHANGED <<stage, prior, known, box, count, made, handle, req, envVars>>

\* spawn's last write, whatever the row says by now.
SpawnStamp(k) ==
  LET t == task[k].lane IN
  /\ task[k].pc = "start" /\ box[t] \in {"up", "exited"}
  /\ row' = [row EXCEPT ![t] = "running"]
  /\ known' = known \cup {t}
  /\ Goto(k, "await")
  /\ UNCHANGED <<stage, prior, box, count, made, handle, req, envVars>>

\* The failed start marks the row, then waits for the key's cleanup.
StartFails(k) ==
  /\ task[k].pc = "start" /\ box[task[k].lane] = "error"
  /\ row' = [row EXCEPT ![task[k].lane] = "failed"]
  /\ Goto(k, "unwind")
  /\ UNCHANGED <<stage, prior, known, box, count, made, handle, req, envVars>>

Unwind(k) ==
  /\ task[k].pc = "unwind"
  /\ Raise(k, stage, row)

\* _await_thread, up to the next node.
AwaitReturns(k) ==
  /\ task[k].pc = "await" /\ row[task[k].lane] \in TurnOverRows
  /\ EnterNode(k, task[k].node + 1)

\* One turn of the failure path's loop over the lanes that were live.
ReapLane(k) ==
  /\ task[k].pc = "reap"
  /\ \E t \in task[k].todo :
       /\ \E b \in KillOutcomes(t, known) : box' = [box EXCEPT ![t] = b]
       /\ row' = [row EXCEPT ![t] = "failed"]
       /\ task' = [task EXCEPT ![k].todo = @ \ {t},
                               ![k].pc = IF task[k].todo = {t} THEN "done" ELSE "reap"]
  /\ UNCHANGED <<stage, prior, known, count, made, handle, req, envVars>>

TaskStep(k) ==
  \/ StartBlueprint(k) \/ BodyReturns(k) \/ BodyRaises(k)
  \/ SpawnRow(k) \/ SpawnRefused(k) \/ MintKey(k) \/ MintFails(k)
  \/ SpawnStamp(k) \/ StartFails(k) \/ Unwind(k) \/ AwaitReturns(k) \/ ReapLane(k)

-----------------------------------------------------------------------------
(* The owner's requests (RunManager).                                      *)

NewRequest(s) == up /\ req[s].pc = "free" /\ ops < MaxOps /\ ops' = ops + 1

\* _track: the new task replaces the handle of the old one.
Launch(from) ==
  /\ made <= MaxOps
  /\ made' = made + 1
  /\ handle' = made + 1
  /\ task' = [task EXCEPT ![made + 1] = FreshTask("enter", from)]

\* stop_run without a live lane awaits nothing before it cancels the task.
Stop(s) ==
  /\ NewRequest(s)
  /\ stage \notin TerminalStages
  /\ IF Live = {}
     THEN /\ stage' = "interrupted"
          /\ task' = Cancelled(handle)
          /\ UNCHANGED req
     ELSE /\ req' = [req EXCEPT ![s] = [NoReq EXCEPT !.pc = "stop_kill", !.todo = Live]]
          /\ UNCHANGED <<stage, task>>
  /\ UNCHANGED <<mode, laneVars, made, handle, up, crashes>>

\* _stop_thread_container for one lane of the snapshot.
StopKill(s) ==
  /\ req[s].pc = "stop_kill"
  /\ \E t \in req[s].todo :
       /\ \E b \in KillOutcomes(t, known) : box' = [box EXCEPT ![t] = b]
       /\ req' = [req EXCEPT ![s].todo = @ \ {t}]
  /\ UNCHANGED <<stage, row, prior, known, count, taskVars, envVars>>

\* Mutant: a lane parked on an approval is not taken for live (before E5).
StopStampMutant(s) ==
  /\ req[s].pc = "stop_kill" /\ req[s].todo = {}
  /\ stage \notin TerminalStages
  /\ stage' = "interrupted"
  /\ row' = Marked({t \in Live : row[t] # "input_required"}, "stopped")
  /\ req' = [req EXCEPT ![s].pc = "stop_cleanup"]
  /\ UNCHANGED <<prior, known, box, count, taskVars, envVars>>

\* The terminal re-check and the stamp of every lane that is live by now.
StopStamp(s) ==
  /\ req[s].pc = "stop_kill" /\ req[s].todo = {}
  /\ IF stage \in TerminalStages
     THEN /\ req' = [req EXCEPT ![s] = NoReq]
          /\ UNCHANGED <<stage, row>>
     ELSE /\ stage' = "interrupted"
          /\ row' = Marked(Live, "stopped")
          /\ req' = [req EXCEPT ![s].pc = "stop_cleanup"]
  /\ UNCHANGED <<prior, known, box, count, taskVars, envVars>>

\* The keys are settled and deleted; only now is the blueprint cancelled.
StopFinish(s) ==
  /\ req[s].pc = "stop_cleanup"
  /\ req' = [req EXCEPT ![s] = NoReq]
  /\ task' = Cancelled(handle)
  /\ UNCHANGED <<stage, laneVars, made, handle, envVars>>

Abandon(s) ==
  /\ NewRequest(s)
  /\ MayTransition(stage)
  /\ stage' = "abandoned"
  /\ IF count = 0
     THEN /\ task' = Cancelled(handle)
          /\ UNCHANGED req
     ELSE /\ req' = [req EXCEPT ![s] = [pc |-> "drop_kill", todo |-> Created,
                                        held |-> known]]
          /\ UNCHANGED task
  /\ UNCHANGED <<mode, laneVars, made, handle, up, crashes>>

AbandonKill(s) ==
  /\ req[s].pc = "drop_kill"
  /\ \E t \in req[s].todo :
       /\ \E b \in KillOutcomes(t, req[s].held) : box' = [box EXCEPT ![t] = b]
       /\ req' = [req EXCEPT ![s].todo = @ \ {t}]
  /\ UNCHANGED <<stage, row, prior, known, count, taskVars, envVars>>

AbandonStamp(s) ==
  /\ req[s].pc = "drop_kill" /\ req[s].todo = {}
  /\ row' = Marked(Live, "stopped")
  /\ req' = [req EXCEPT ![s].pc = "drop_cleanup"]
  /\ UNCHANGED <<stage, prior, known, box, count, taskVars, envVars>>

AbandonFinish(s) ==
  /\ req[s].pc = "drop_cleanup"
  /\ req' = [req EXCEPT ![s] = NoReq]
  /\ task' = Cancelled(handle)
  /\ UNCHANGED <<stage, laneVars, made, handle, envVars>>

\* resume_run: the run goes back to QUEUED before its last lane is dealt with.
Resume(s) ==
  /\ NewRequest(s)
  /\ stage \in TerminalStages \cup {"interrupted"}
  /\ stage' = "queued"
  /\ IF count \in Live
     THEN /\ row' = Marked({count}, "stopped")
          /\ req' = [req EXCEPT ![s] = [pc |-> "resume_kill", todo |-> {count},
                                        held |-> known \cap {count}]]
          /\ UNCHANGED taskVars
     ELSE /\ Launch(count)
          /\ UNCHANGED <<row, req>>
  /\ UNCHANGED <<mode, prior, known, box, count, up, crashes>>

\* A container that survives the forced stop aborts the resume.
ResumeKill(s) ==
  /\ req[s].pc = "resume_kill"
  /\ \E t \in req[s].todo, b \in BoxStates :
       /\ b \in KillOutcomes(t, req[s].held)
       /\ box' = [box EXCEPT ![t] = b]
       /\ req' = [req EXCEPT ![s] = IF b = "up" /\ t \in req[s].held THEN NoReq
                                    ELSE [@ EXCEPT !.pc = "resume_cleanup"]]
  /\ UNCHANGED <<stage, row, prior, known, count, taskVars, envVars>>

ResumeLaunch(s) ==
  /\ req[s].pc = "resume_cleanup"
  /\ \E t \in req[s].todo : Launch(t)
  /\ req' = [req EXCEPT ![s] = NoReq]
  /\ UNCHANGED <<stage, laneVars, envVars>>

\* post_intent: a message to a closed lane, or one that switches the mode or the
\* model, starts a blueprint that resumes from that lane, in whatever stage the
\* run is.  A switch leaves the old lane and its container as they are.
Message(s) ==
  /\ NewRequest(s)
  /\ \E t \in Created : Launch(t)
  /\ UNCHANGED <<stage, mode, laneVars, req, up, crashes>>

SwitchMode(s) ==
  /\ NewRequest(s)
  /\ \E m \in Modes \ {mode} : mode' = m
  /\ UNCHANGED <<stage, laneVars, taskVars, req, up, crashes>>

\* The event loop takes a new task's first step before any request's next one.
TasksStarted == \A k \in Tasks : task[k].pc # "enter"

Request(s) ==
  /\ TasksStarted
  /\ Stop(s) \/ Abandon(s) \/ Resume(s) \/ Message(s) \/ SwitchMode(s)

RequestStep(s) ==
  /\ TasksStarted
  /\ \/ StopKill(s) \/ StopStamp(s) \/ StopFinish(s)
     \/ AbandonKill(s) \/ AbandonStamp(s) \/ AbandonFinish(s)
     \/ ResumeKill(s) \/ ResumeLaunch(s)

-----------------------------------------------------------------------------
(* Containers, workers and their heartbeats (HeartbeatPersister._persist). *)

BoxStarts(t) ==
  /\ box[t] = "starting"
  /\ \E b \in {"up", "error"} : box' = [box EXCEPT ![t] = b]
  /\ UNCHANGED <<stage, row, prior, known, count, taskVars, req, envVars>>

\* A beat reaches the row only while the row is live.
BeatHeard(t) == up /\ box[t] = "up" /\ row[t] \in LiveRows

\* Mutant: a closed row hears a container that is still dying.
BeatMutant(t, from, to) ==
  /\ up /\ box[t] = "up" /\ row[t] \in from \cup ClosedRows
  /\ row' = [row EXCEPT ![t] = to]
  /\ UNCHANGED <<stage, prior, known, box, count, taskVars, req, envVars>>

Beat(t, from, to) ==
  /\ BeatHeard(t) /\ row[t] \in from
  /\ row' = [row EXCEPT ![t] = to]
  /\ UNCHANGED <<stage, prior, known, box, count, taskVars, req, envVars>>

WorkerRuns(t)    == Beat(t, {"queued", "input_required"}, "running")
WorkerParks(t)   == Beat(t, {"queued", "running"}, "input_required")
TurnEnds(t)      == Beat(t, {"queued", "running", "input_required"}, "idle")

\* A message to an open lane: the worker takes another turn.
Nudge(s, t) ==
  /\ NewRequest(s)
  /\ BeatHeard(t) /\ row[t] = "idle"
  /\ row' = [row EXCEPT ![t] = "running"]
  /\ UNCHANGED <<stage, mode, prior, known, box, count, taskVars, req, up, crashes>>

\* The last beat of a worker: its idle TTL, an engine failure, an interrupt.
\* Its idle completion completes a parked ask run (_maybe_complete_ask_run).
WorkerEnds(t, status) ==
  /\ BeatHeard(t)
  /\ status = "completed" => row[t] = "idle"
  /\ box' = [box EXCEPT ![t] = "exited"]
  /\ row' = [row EXCEPT ![t] = status]
  /\ stage' = IF /\ status = "completed" /\ mode = "ask" /\ stage = "awaiting_user"
                 /\ Live \subseteq {t}
              THEN "completed" ELSE stage
  /\ UNCHANGED <<prior, known, count, taskVars, req, envVars>>

\* The container is gone without a word that reaches the row.
WorkerVanishes(t) ==
  /\ box[t] = "up"
  /\ box' = [box EXCEPT ![t] = "exited"]
  /\ UNCHANGED <<stage, row, prior, known, count, taskVars, req, envVars>>

\* Mutant: the reaper looks at running rows only.
ReapMutant(t) ==
  /\ up /\ t \in known /\ row[t] = "running" /\ box[t] = "exited"
  /\ row' = [row EXCEPT ![t] = "failed"]
  /\ stage' = IF stage \in WorkingStages /\ Live \subseteq {t} THEN "interrupted" ELSE stage
  /\ UNCHANGED <<prior, known, box, count, taskVars, req, envVars>>

\* HeartbeatPersister._reap_once and _interrupt_orphaned_run for one lane.
Reap(t) ==
  /\ up /\ t \in known /\ row[t] \in ActiveRows /\ box[t] = "exited"
  /\ row' = [row EXCEPT ![t] = "failed"]
  /\ stage' = IF stage \in WorkingStages /\ Live \subseteq {t} THEN "interrupted" ELSE stage
  /\ UNCHANGED <<prior, known, box, count, taskVars, req, envVars>>

-----------------------------------------------------------------------------
(* Backend crash, and reconcile_on_boot.                                   *)

Crash ==
  /\ up /\ crashes < MaxCrashes
  /\ up' = FALSE /\ crashes' = crashes + 1
  /\ task' = [k \in Tasks |-> IF Active(k) THEN [task[k] EXCEPT !.pc = "cancelled"]
                              ELSE task[k]]
  /\ handle' = 0
  /\ req' = [s \in Slots |-> NoReq]
  /\ UNCHANGED <<stage, mode, laneVars, made, ops>>

\* A run with a sign of life is left as it is.  `fresh`: the lanes whose last
\* beat is less than 180 s old; a queued lane has never sent one.
Boot ==
  /\ ~up /\ up' = TRUE
  /\ \E fresh \in SUBSET {t \in Live : row[t] # "queued"} :
       IF /\ stage \in WorkingStages
          /\ fresh = {}
          /\ \A t \in Live \cap known : box[t] # "up"
       THEN stage' = "interrupted" /\ row' = Marked(Live, "stopped")
       ELSE UNCHANGED <<stage, row>>
  /\ UNCHANGED <<mode, prior, known, box, count, taskVars, req, ops, crashes>>

Next ==
  \/ \E k \in Tasks : TaskStep(k)
  \/ \E s \in Slots : Request(s) \/ RequestStep(s) \/ \E t \in Threads : Nudge(s, t)
  \/ \E t \in Threads :
       \/ BoxStarts(t) \/ WorkerRuns(t) \/ WorkerParks(t) \/ TurnEnds(t)
       \/ \E status \in {"completed", "failed", "stopped"} : WorkerEnds(t, status)
       \/ WorkerVanishes(t) \/ Reap(t)
  \/ Crash \/ Boot

Spec == Init /\ [][Next]_vars

\* The loop runs every task and request that is not blocked; Docker answers;
\* a worker ends its turn and, idle, is completed by its TTL; the reaper and
\* the restart of the backend come round.  Failures are never owed.
Fairness ==
  /\ \A k \in Tasks : WF_vars(TaskStep(k))
  /\ \A s \in Slots : WF_vars(RequestStep(s))
  /\ \A t \in Threads :
       /\ WF_vars(BoxStarts(t)) /\ WF_vars(TurnEnds(t))
       /\ WF_vars(WorkerEnds(t, "completed")) /\ WF_vars(Reap(t))
  /\ WF_vars(Boot)

FairSpec == Spec /\ Fairness

-----------------------------------------------------------------------------
(* Properties.                                                             *)

\* A step that interrupts the run leaves none of its lanes live, whoever takes
\* it (stop_run, the reaper, the boot sweep) and whatever the blueprint spawned
\* while stop_run was waiting for containers: no slot stays taken by a lane
\* that nothing drives.
InterruptedQuiet == [][stage' = "interrupted" /\ stage # "interrupted" => Live' = {}]_vars

\* A closed row is reopened by nothing but the last write of the spawn that
\* created it: never by a beat of a container that is still dying, never by a
\* message, a sweep or a second reader of the row.
ClosedStaysClosed ==
  [][\A t \in Threads :
       row[t] \in ClosedRows /\ row'[t] \notin ClosedRows
         => \E k \in Tasks : task[k].lane = t /\ task[k].pc = "start"
                             /\ task'[k].pc = "await"]_vars

\* A worker container that no row can name (so that no stop can wait for its
\* exit) exists only while its spawn is still in progress or after that spawn's
\* task was cancelled under it.
UnnamedBoxHasCause ==
  \A t \in Threads :
    box[t] = "up" /\ t \notin known
      => \E k \in Tasks : task[k].lane = t /\ task[k].pc \in {"start", "cancelled"}

\* The blueprint task created with the run never takes it out of a terminal
\* stage: that is left to the tasks a deliberate act of the owner starts.
TerminalLeftOnlyByUser ==
  [][(stage \in TerminalStages) /\ stage' \notin TerminalStages => UNCHANGED task[1]]_vars

\* A lane that continues another one (both got a container) mounts the
\* directory in which the other one kept its session.
ResumeFindsSession ==
  \A t \in known : prior[t] \in known => Mounted(t) = Mounted(prior[t])

\* A run never stays in a working stage for good: it is answered, interrupted or
\* failed.
WorkingEnds == stage \in WorkingStages ~> stage \notin WorkingStages

\* A lane whose row names its container does not hold its capacity slot for
\* good, whatever became of the worker and of the blueprint, unless it is parked
\* on an approval: the reaper never looks at those.
NamedLanesEnd ==
  \A t \in Threads :
    t \in known /\ row[t] \in ActiveRows ~> row[t] \in ClosedRows \cup {"input_required"}
=============================================================================
