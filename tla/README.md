# Collegium: a verification project

TLA+ modules for the control plane of this repository (`src/backend/app`, called
`app` below) and for the worker it drives (`src/worker/worker`), the TLC
configurations that model-check them, and TLAPS proofs.

## The system

A *run* is one task of its owner. The backend, one asyncio process, drives it
through *stages* with a *blueprint*, a list of nodes. A node spawns *lanes*: a
`threads` row, a gateway key, and a Docker container with a worker, the engine
loop around a language model. The worker reports through Redis (events on a
stream, heartbeats on a channel, approval requests on another stream) and hears
the backend through a control channel. Consoles follow a run over a WebSocket
that the backend's relay feeds.

| Component | State it keeps | Operations | What is hard | What makes it correct |
|---|---|---|---|---|
| Run stages and lifecycle (`orchestrator/run_manager.py`, `services/runs.py`, `api/runs.py`, `blueprints/`) | `runs.stage`, `runs.mode`, an asyncio task per blueprint | create, execute, stop, abandon, resume, message, mode switch, boot sweep | requests that wait for containers while the blueprint goes on; cancellation; restarts | terminal stages hold, working stages end, an interrupted run has no live lane |
| Thread manager, containers, gateway keys (`orchestrator/thread_manager.py`, `sandbox/manager.py`) | `threads` rows, containers, session directories, keys, bills | spawn, stop, finish, kill and replace, settle, release, sweep | a spawn is five steps with three awaits; Docker calls survive a cancelled task; cleanups of one lane overlap | a lane does not run beside the one it takes over from, keys end, budgets do not multiply |
| Heartbeats and reaper (`services/heartbeats.py`) | `threads.status`, `heartbeat_at` | persist a beat, reap, complete an ask run | late beats, lanes of one run ending together | closed rows stay closed, lanes end |
| Event ingest (`events/bus.py`, worker `forwarder.py`) | stream, consumer group, `events` rows, `next_seq`, dead letters | publish with retries, read, drain, store, dead-letter, acknowledge | at-least-once delivery, two readers, crashes between commit and ack | each event once, at the place its frame says, in order as far as the stream took it |
| Approvals (`services/approvals.py`, worker `engine/approvals.py`, gate in `engine/graph.py`) | `approvals` rows, decision keys, always-allow set, checkpoints | ask, card, decide, expire, resolve, resume | timeouts against late answers, replaced containers, replayed nodes | nothing runs without the owner's word |
| Capacity (`orchestrator/semaphores.py`) | reservations, active rows | reserve, commit, release | several replicas, late writes | the cap, one writer per repository |
| Worker runner and control channel (worker `engine/runner.py`, `events/control.py`) | status, turn task, stop flag, nudge queue | turn, nudge, interrupt, kill, idle TTL, SIGTERM | five coroutines share two variables | no nudge lost, a stopped worker decides nothing |
| Spawn bridge and fan-out (`events/spawn_bridge.py`, worker `engine/fanout.py`) | registry of the parent, request stream, watchers | ask, veto, spawn, watch, report | a report that gets lost, two clocks | slots of the parent come back |
| Plans and delivery (`blueprints/plan.py`, `development.py`, `debug.py`, `services/plans.py`, `services/delivery.py`) | plan rows, step statuses, links, ADO's pull requests | draft, decide, develop, evaluate, push, merge | blueprints of one run overlap; the owner decides at any await | only approved work ships, a run completes on a real merge |
| Goal and swarm blueprints (`blueprints/goal.py`, `swarm.py`) | lanes, verification result | plan, fan out, collect, fix, ship | lanes compete for slots nobody frees | pipelines end; what ships is green |
| Triggers (`services/triggers.py`) | event log, queue, claims | dispatch, queue, drain, recover | duplicates, crashes, slow dispatches that are taken for dead | one run per matched event, no event forgotten |
| Engine loop (worker `engine/graph.py`, `checkpointer.py`, `compaction.py`) | conversation, checkpoint, replay journal, goal tracker | model, gate, tools, compaction, goal router | a node runs again after a crash or a resume | decided calls only, effects once, loops end |
| Background terminals (worker `engine/tools/background.py`) | jobs, process groups, notices | start, wait, background, pump, kill | processes that ignore signals or hold pipes | every job ends |
| Knowledge, distiller, proposals, ideas (`services/knowledge.py`, `distiller.py`, `proposals.py`, `ideas.py`) | items, cards, cached blocks, markers, claims | draft, decide, serve, mine, accept, promote | a cache that is ranked across an await; claims that outlive their caller | a decision reaches every lane; nothing is mined or started twice |
| Repositories and golden clones (`api/repos.py`, `services/repos.py`, `sandbox/fetcher.py`, `services/guidebooks.py`) | row, clone directory, guidebook branch | register, archive, fetch, seed | a clone that takes minutes meets an archive and a second registration | a registered repository comes to rest |
| Relay and consoles (`events/relay.py`, `ws/events.py`, web `stores/run.ts`, `lib/ws.ts`) | bounded queues, socket, folded history | subscribe, evict, replay, resync | answers that arrive after the user has moved on | a console catches up |

`PROJECT.json` lists these and the components that are not modelled, and every
hazard at its line.

## Modules

| Module | Role |
|---|---|
| `RunStages`, `RunLifecycle`, `RunModes` | one run: blueprint tasks, lanes, owner requests, workers, reaper, crash and boot; the blueprints as values |
| `EventLog`, `EventIngest` | abstract: what the events of a thread promise their readers; the pipeline that implements it |
| `Approvals` | the gate, the runner that waits, the backend's consumer and rows, the decision's way back |
| `Capacity` | spawns of several replicas between the count and the row |
| `ThreadKeys` | what a lane owns: container, session directory, key, budget; and the paths that take them away |
| `FanOut` | a parent's registry, its requests, the bridges, the watchers |
| `Delivery`, `Pipelines` | the blueprints of owners; those with nobody at the controls |
| `EngineTurn`, `Compaction` | the worker's graph; the compactor of its conversation |
| `WorkerRunner`, `Terminals` | the worker process; its background jobs |
| `Triggers`, `Promotions` | what starts runs: webhooks; proposals and ideas |
| `Knowledge`, `Distiller` | decisions and blocks; the nightly mining |
| `Golden` | a repository of the registry and its clone |
| `Console` | relay, socket and run store |
| `RunLifecycle_proofs`, `EventIngest_proofs`, `Approvals_proofs`, `Pipelines_proofs` | theorems about the component they name |
| `Fleet_proofs` | theorems about `ThreadKeys` and `FanOut` |
| `Worker_proofs` | theorems about `EngineTurn`, `Compaction` and `WorkerRunner` |
| `Owner_proofs` | theorems about `Delivery` and `Console` |
| `Services_proofs` | theorems about `Capacity`, `Promotions`, `Triggers`, `Knowledge`, `Distiller` |
| `MCApprovals` | values for one component |
| `MCRun`, `MCFleet`, `MCTriggers`, `MCConsole`, `MCWorker`, `MCParts` | two, two, two, two, four and seven components in one configuration |

The six composite modules put components side by side that share no state. A variable
`part`, chosen in the initial state, says which component a behaviour belongs to; the
others stay as they began. `MCRun` extends `RunLifecycle` and `Approvals`; `MCConsole`
extends `Console` and `Approvals`; `MCParts` extends `Capacity`, `EngineTurn`,
`Compaction`, `EventIngest`, `Promotions`, `Knowledge` and `Distiller`; `MCTriggers`
extends `Triggers` and `Delivery`; `MCFleet` extends `ThreadKeys` and `FanOut`;
`MCWorker` extends `WorkerRunner`: a property they check is the very definition a
theorem is about. In these modules prefixes keep apart what would otherwise have one
name (`CapInit`, `WorkNext`, `TurnTypeOK`, `nightVars`). The other components are
instances, with the variables two of them share renamed. Fairness is stated per
component, guarded by `part`. A composite run is therefore the union of its components'
runs.

### Atomicity

Database calls are synchronous and the backend is one event loop, so the code
between two awaits that really yield is one action. `relay.publish_*` only puts
into in-process queues and does not yield. Awaits that yield are Docker calls in
the executor, Redis, the gateway, and sleeps. Three exceptions: endpoints
declared with plain `def` run on threads of their own (decisions on knowledge,
dismissals), so they interleave with the loop at each commit; replicas
(`Capacity`, `FanOut`) interleave at each statement; the fetch loop, archives and
the seeder (`Golden`) are threads and a process.

### RunLifecycle

`task[k]` is an asyncio task of `_guarded_execute`; its `pc` says at which await
it stands: `work` (a body that awaits), `lane` (about to spawn), `mint` (the
gateway), `start` (Docker), `unwind` (cleanup after a failed start), `await`
(`_await_thread`), `reap` (failure path). `EnterNode` is the loop of
`Blueprint.execute` from the end of one body to the next await, with the stage
it stores on the way. `req[s]` is a request in progress: its `pc` names the
await, `todo` the lanes still to stop, `held` the container ids it read at its
start. `row`, `prior`, `known`, `box` are a lane's `status`,
`resume_from_thread_id`, whether `container_id` is stored, and its container.
A container whose start was handed to the executor goes on starting when the
task is cancelled.

Simplifications. Compare runs are one lane per node (two lanes of a run still
meet: a follow-up lane and the one it follows). Provisioning is never visible
across an await. The reaper's wedged-container branch is `WorkerVanishes` and
`Reap`. The boot sweep is one action: it runs before the API serves. Key
settlement has no effect on this state; `ThreadKeys` has it. `_boot_watchdog` is
left out: it subtracts a naive timestamp from an aware one
(`thread_manager.py:293`), the `TypeError` is caught, and it never marks a row.

### EventIngest

One thread's events on its run's stream. `Emit`, `PublishOk`, `PublishFails` are
`publish_events`: the pipeline is no transaction (`forwarder.py:47-58`), so the server
is sent every command, and an attempt that raises may have landed any part of the batch
(`Landings`); the retry repeats the whole batch. `refused` is a history variable: the
events that an attempt left out before one that it landed (`Holes`). `delivered` and
`pel` are the consumer group. `pc[c]` and `todo[c]` are the reader (`"loop"`) and the
drains that `unregister_run` starts beside it; each entry goes through `Reject`,
`Reshow` or `Store`, then `Ack`; an exception leads to `Letter` and an ack. `OwnRows`
are the rows the backend writes with the same `next_seq` (messages, pinned findings,
test runs). `Park`, `Register`, `Unregister`, `Boot` are the run's way in and out of the
read set.

Simplifications. What an attempt lands it lands before the next one begins, also if its
answer was lost. Frames without an `event_uid` are left out: both producers stamp
one (`engine/events.py:79`, `normalize.py:102`). With one event loop the
insert race on the uid cannot happen. The JSONL mirror, stream trimming at
100 000 entries, read counts of 200 and 100 and the publishes of subagents in
the same worker are not modelled. The graceful `stop()` is a `Crash` here: it
promises less than one step more.

### Approvals

The calls of a run's lanes are `Script`, numbered in their order; a lane's
`verdict` and `interrupt` are what its checkpoint holds (`approved_calls`, the
interrupt). `Gate` is a run of the gate's node up to its interrupt, `Resumes` the
run that `Command(resume=decision)` starts: it begins at the node's first line,
asks again what is always allowed, and hands the decision to the first call that
is not. `Asks`, `Look`, `Pops`, `GivesUp` are the runner between the two.
`unread`, `held`, `todo` are the request stream; `cards` the rows; `sending`,
`durable`, `list` the decision between `decide` and the worker. A card is named
by its call: the gate makes one for an undecided call and, resumed, decides that
call one way or the other, so no call gets two. Time is left open: a wait may
end and a card expire at any moment. `Down` is every end of a worker, `Start`
every successor on its session (`kill_replace`, follow-up, resumed run), and
`Resolve` the stamping of pending rows, which the failure path does before it
stops the lane.

Simplifications. `edited_allow` is an allow, "denied" and "stopped" stamps are
one. Left out: permission rulesets and the breaker (`EngineTurn` has them), plan
verdicts on the same table (`Delivery`), the stage painted over while a card is
open, the read counts of 50 and 100, the lifetime of the Redis keys, and a nudge
or interrupt that cancels a waiting turn without ending the worker. `Resolve`
stamps a lane's rows whichever of its threads asked.

### Capacity

`spawnPc[r]` is where the spawn of replica `r` is: `Count` reads the active rows and
compares, `Check`, `Hold` and `Reserve` take the reservation (with
`feature_db_concurrency`, `flag`), `InsertRow` commits the `threads` row under its
partial unique index, `Release` drops the reservation in the `finally`. `Stamp` is
the late write of "running", which looks at nothing; `by` holds who owes it,
`reopened` the lanes it opened again. Inside a process nothing yields between the
count and the row, so the in-process table of reservations is empty wherever a
process can look at it and is no variable.

### ThreadKeys

A slot runs one coroutine: a spawn (`mint`, `persist`, `start`, `stamp`), a
`stop_thread`, `finish_thread` or `kill_replace_thread` (`stop`, `finish`,
`replace`), and the cleanup all of them end with (`settle`, `delete`, `clear`).
`id` says whether the coroutine has read a `container_id` to wait for. `Kills` is
the wait, `StampUnverified` and `ReplaceAborts` the two ways on when it fails.
`Sweep` and `Reap` are the reaper, `SettleRun` the interim settlement at a
blueprint's end, `Expires` the key's TTL.

`Launch` starts a lane with a session of its own or with that of an earlier one, as
every blueprint does with `resume_from_thread_id` (`ask.py:107-110`, `plan.py:142`,
`development.py:127`, `debug.py:129`, `goal.py:226`, `swarm.py:140`): the new container
mounts the directory of the lane it resumes (`thread_manager.py:130-163`,
`sandbox/manager.py:283`). `via` says how it came to that: "message", to a lane that has
ended; "switch", of mode or model, on a lane that has not, and which nothing stops
(`api/runs.py:389-468`); "replace", by `Respawn`. `via`, `blind` and `lost` are history
variables: with them a property says of which lanes it promises less.

Simplifications. A worker's last word and the end of its container are one step.
`resume_run` first stops the last lane and then launches: `Stop` and `Launch` here,
`ResumeKill` and `ResumeLaunch` in `RunLifecycle`.

### FanOut

The registry of one parent (`reg`), the call it publishes (`Send`, `Replied`),
its watchdog (`Arm`, `LocalTimeout`), the stream of requests, and for each replica
a bridge that reads a batch (`Read`) and takes each request through `Look`,
`Acquire`, `Start`, `Stamped`, or to a `Veto`. `Ended`, `Overdue` are the watch
over a child with its two hours; `Hear` is `spawn_done` on the control channel.

### Delivery and Pipelines

`task[t]` is a blueprint: at which node, and whether at the stage it is about to
publish (`gate`), in the body, at a lane, in the failure path (`reap`) or over.
`Nodes` and `StageOf` are the code's lists. In `Delivery` the owner's actions
(`ApprovePlan`, `RejectPlan`, `StartPlan`, `Handoff`, `CreatePr`, `MergePr`, `Resume`,
`Stop`, `Abandon`) are guarded by `Legal`, the check of `available_actions`, and
start further tasks without ending the ones at work; `request` is a push and a
merge in flight. In `Pipelines` runs compete for `Cap` slots; `lane[r][l]` is the
row of each role, "waiting" a slice that polls for a slot. What a lane says
(a plan that parses, a green verification, a failed turn) is any of the answers
the code tells apart.

### EngineTurn and Compaction

`EngineTurn` is the graph: `node` is the node to run next, and the conversation
is the calls of the last answer, which were decided, and whether they have
results. `Agent`, `Gate`, `ToolsNode`, `Compacts`, `Router` are the nodes; a node
reads the checkpoint and writes it when it ends (`out` is what it will write), and
`ran` and `journal` are what the tools node does on the way, which a `ToolsCrash`
does not undo. `cuts` counts turns that ended between a call and its result, `lapses`
effects a fault left without a record, `steps` the nodes against the recursion
limit. Goal stages after `plan` are left out: nothing writes the tracker that
leads there. `Compaction` has messages with their calls, answers, origin and
importance; a call is a pair of its message's name and its place in it. `Compact` is
one pass: prune, splice the summary in, repair the pairs, and the honesty check: a
pass that would lose a protected message is rolled back.

### WorkerRunner and Terminals

Five coroutines share `status` and `stop`: the main one (`BootFails` ... `Exit`),
the control pump (`Takes*`, `Drained`, `PumpStamps`, `Acks`), the idle watchdog
(`Dog*`), the beat (`BeatReads`, `BeatSays`, which may be stale when it speaks) and
the signal handler. `published` counts the backend's messages, `queued` the nudges
that wait, `late` the turns that took a decision after a stop was acknowledged.
`first` says whether the turn at work is the tracked
`_turn_task`: a nudge's turn is not. `Terminals`: a job is a shell and what the
shell left running, either of which may ignore a signal, hold the pipe or close
it; the pump reads, times out, escalates and reaps.

### Triggers, Promotions, Knowledge, Distiller

`Triggers`: a webhook is a dispatch (`Begin`, `Judge`, `Create`, `Told`) that gets a
verdict from every trigger its event matches; `Resolved` makes them one status of the
row. The sweep recovers rows that were left at work (`RecoverStuck`) and drains the rows
that are queued, each by the trigger of its first queued verdict. Ages advance with
`Tick`. That a drain takes five rows at most is left out. `Promotions`: each accept,
promote, dismissal and summary is a call with a commit per step, and a claim that is
released on failure; `orphan` holds the ideas whose promotion gave its claim up when its
last write failed, though the run stays. `Knowledge`: drafts, decisions and cards;
`AskBlock` and `CacheBlock` are the two halves of `prompt_block_for_run` around its
ranking await; `Decide` and `Bump` the two halves of a decision. `Distiller`: a night's
read, its question, a draft at a time, the marks, with a crash anywhere.

### Golden and Console

`Golden`: onboarding coroutines under the lock of a name, the archive with its
deferred `rmtree`, the fetch loop, and the guidebook's seeder, a process of its
own, over one clone directory. `git clone` has no timeout in the code
(`repos.py:147-216`): the model assumes that it returns. Under the lock every failure
reaches the handler, whose own write may fail in turn (`OnboardFails`, `HandlerFails`,
`repos.py:214`); the first read is outside of any handler (`ReadFails`,
`repos.py:150-157`). `dropped` remembers that one of the last two happened since the row
was registered. `Console`: the relay's
bounded queues with eviction and the drop sentinel, the socket, and the web
console's requests, which are answered in any order and folded in only if the
console is still where it was when it asked (`gen`). `Upsert` puts an event into a
history in the order of seq, once; `Folded` does it with all that a request brought.
`runStage` is the run's stage as the row and the relay have it, `OnOpen` and `OnClose`
the handlers of the socket.

## Runs

`CHECK_DEADLOCK FALSE` throughout: each of these systems really comes to an end.

| Run | Components | What it checks |
|---|---|---|
| `run_safety` | RunLifecycle; Approvals | ask and plan, two lanes, two requests in any overlap, a crash, containers that survive a forced stop: `InterruptedQuiet` (who interrupts a run leaves no lane live), `ClosedStaysClosed` (nothing reopens a closed row but the last write of its spawn), `UnnamedBoxHasCause` (no container is forgotten); two lanes, an ordinary and a destructive command, a replaced container, a failing call or a crash: `Consent`, `ChannelAgrees` |
| `event_ingest` | EventIngest | two events (one poison), retries, a drain beside the loop, a row of the backend, faults and a crash: `AckedIsRecorded`, `FramesTrue`, `LogSpec` (the pipeline implements `EventLog`), `LandedIsRecorded` |
| `fleet` | FanOut; ThreadKeys | a parent with two slices, a fault, a crash: `NoPhantom` (no child counts as running that nobody knows of), `SlotFreed`; a lane and one that continues it, under two coroutines: `SessionExclusive` (a lane does not run beside the one that continues it), `SpendBounded`, `KeysReleased` |
| `worker` | RunLifecycle; WorkerRunner; Terminals; Golden | ask and development without a crash: `WorkingEnds`, `NamedLanesEnd`; two messages, a card, a lost call: `TrackedTurnStops`, `NudgesRun`; a job: `JobsEnd`; an onboarding with an archive and a second registration: `OnboardingSettles` |
| `parts` | Capacity; EngineTurn; Compaction; Knowledge; Distiller; Promotions; EventIngest | `OneWriter`, `CapBound`; `OnlyDecidedRun`, `RunsOnce`; `PairsMended`; `BlockFresh`; `MarkedWasTold`; `OneRunPerThing` (a proposal or idea starts one run); `InOrder` (publishes fail, no call of the backend does) |
| `pipelines` | Pipelines | a goal and a swarm, two slots, one upset: `ShipsGreen`, `PipelinesEnd` |
| `triggers` | Triggers; Delivery | two revisions, one or both of two triggers, a cap of one an hour, a fault: `OneRunEach`, `EventsSettle` (an event comes to rest, with a run if it was queued as a whole); two plans, three blueprints, a request, a fault: `OnlyApprovedWork`, `ShipsApproved` |
| `console` | Console; Approvals | one run of two threads, a relay queue of one frame, a cut, pages of two: `SeesWhatItMissed`; the same with one thread and pages of one: `ThreadNeverTruncated`; one lane, both commands, a replaced container, a crash: `OneWordOneCall`, `RequestGetsCard`, `DecisionReaches` |
| `approvals_verbatim` | Approvals | violated: `Verbatim`, an owner's yes to an edit runs a destructive command that was never shown |
| `pipelines_failure` | Pipelines | violated: `FailureShows`, a swarm whose explorers all failed stays completed |
| `console_pages` | Console | violated: `NeverTruncated`, an event of the second thread is behind the first page, and the second page begins after it |
| `triggers_queue` | Triggers | violated: `QueuedStarts`, what is queued for the second of two triggers never starts |

Several properties carry their exception in their statement (a fault, a crash, a
claim that was overwritten, a lane that a switch left running, an event that paging
passes over). The exception is what the code really leaves open:
without it TLC finds the property violated, and the table under *Disagreements*
lists those that a comment of the code denies.

### Bounds

Every bound is a constant named in its module; a run takes the least value with
which the case in question happens.

- Lanes, replicas, requests, coroutines: two of each make every pair of handlers
  overlap; a follow-up lane meets the lane it follows. `ThreadKeys` has one lane with a
  session of its own (`MaxRoots`) and one that continues it in each of the ways there
  are; a second continuation, or a force-stop that fails before a message, is beyond
  `MaxMoves` = 1 and left to the theorem. `Capacity` has three spawns
  over two replicas, two of them writers of one repository, so that the cap and
  the unique index both bite.
- Faults and crashes (`MaxFaults`, `MaxWorkFaults`, `MaxTurnFaults`, `MaxCrashes`,
  `MaxOutages`, `MaxEnds`): one puts a failing call or a restart at every point of a behaviour.
  `event_ingest` has two faults because two in a row leave an entry pending: the
  processing fails, then the dead letter.
- Events: two, one of which a poison pill, give a batch that lands in full, in either
  half or not at all, a retry that repeats it, and an entry stored beside one that is
  dead-lettered. `MaxTries` is 2
  where the code has 3: a third attempt repeats the second.
- Calls that ask for approval: two of one class, one destructive, are the least in
  which an always-allow matters; the violated run has three. `run_safety` has a failing
  call or a crash around them, not both (`MaxTroubles`); the theorems have any number.
- `EngineTurn`: one tool of each kind the graph tells apart, four answers, one
  further turn, one fault, and 14 nodes a turn (the code has 80): that many reach
  the forced stop, the third round of the critic and the overflow retry, and a
  limit that is hit is part of what is checked.
- `Compaction`: seven messages around a window of two and a floor of four, two
  calls a message, two compactions: the summary of the first is in the second.
- `Delivery`: one step, two plans, three tasks, one request; `Pipelines`: two
  slices, two slots, one round of critique and of fixing.
- `Triggers`: the grace window, the flap guard and the hour of the cap are one tick of
  `Tick` each: an event is inside of all three or past all three, and rows that were
  logged at different times differ. Which of the three is the longest matters to how
  long a nudge or the cap holds, not to what may follow; `StartedOnce` has any values.
  The second revision matches both triggers or one: the verdicts of a row are all, some
  or none of one kind, and two show each.
- `Console`: two events in the first thread and one in the second fill a page of two, so
  that what comes after it is passed over; one thread with two events and pages of one
  is paged to its end.
- Symmetry is declared for owner requests (`run_safety`) and for knowledge rows and for
  runs with their users (`parts`), in runs whose properties are invariants or action
  properties.

`DecisionReaches` begins where the list holds the decision, or where the durable
copy was there before the runner looked: a version that begins at the durable key
is violated, by a crash between the SET and the RPUSH while the runner is already
in its BLPOP.

## Fairness

The event loop runs every ready coroutine, the loops of a process come round, and a
supervisor restarts a backend that has ended. Nothing is owed by a failure, a
crash, an owner, a model, a worker that vanishes, or a beat of a certain kind.

| Module | Weakly fair, unless said otherwise | Owed nothing |
|---|---|---|
| `RunLifecycle` | tasks, requests, Docker's answer to a start, the end of a turn, the idle TTL, the reaper, the restart | failures, crashes, owner |
| `EventIngest` | the reader, the drains, each entry's next step, the restart | worker, faults |
| `Approvals` | a runner between its waits, the consumer, a send in progress, the restart | decisions, timeouts, successors |
| `FanOut` | publishing, the local watchdog, the control channel, the bridges, the watchers | children, faults |
| `ThreadKeys` | each coroutine, the key sweep of each lane | owner, workers, faults |
| `Pipelines` | the blueprints; the end of a turn, of a parked lane and of the idle TTL; a slice that polls gets a slot that is free again and again (strong: it polls for ever) | upsets |
| `WorkerRunner` | main coroutine, pump, watchdog | messages, signals, cards, lost calls |
| `Terminals` | the pump, the call that waits in the foreground | processes: none ever ends or lets go of its pipe because it must |
| `Triggers` | dispatches, the sweep, time | webhooks, faults |
| `Golden` | the steps of an onboarding | archive, fetch, seeder, crash |
| `Console` | the requests, the socket, the relay | the user, cuts |

## Proofs

TLAPS checks them for every value of the constants that the modules' assumptions
allow: any number of lanes, replicas, runs, steps, events, faults and crashes.
Each invariant was first checked by TLC on the instance of a run. Every proof has
the same shape: a lemma for types, a lemma for each group of actions, a lemma
`...Step` for `[Next]_vars`, and a theorem that joins them. `PROJECT.json` lists
the theorems with what each establishes.

`RunLifecycle_proofs`. `Inv` strengthens `TypeOK` with the order of tasks (`made`,
`handle`), that rows beyond `count` are absent, that a task between `SpawnRow` and
its last write owns the lane it names, and that an unnamed container has a spawn.
It gives `TypeCorrect`, `UnnamedBoxes`, and the action properties `Interruption` and
`ClosedForGood`, which follow from the invariant by a case per action.

`EventIngest_proofs`. `Inv` adds to `TypeOK` that a call in progress has tries left,
that a uid has one row, that frames are true, that what left the pending list is on
record, and that a consumer at `ack` or `letterack` has its entry on record (`InHand`);
without the last one `AckedIsRecorded` is not inductive. `Implements` shows that every
step maps to a step or a stutter of `EventLog` under `log[i] = table[i - 1]`. `Ordered`
proves `InOrder`. Its invariant says of the stream what failed attempts and retries can
do to it: an entry of the call in progress has before it what the call publishes up to
it, but for what an attempt left out (`Batched`), and an event that comes after a later
one was left out or came before it as well (`Replayed`). Of an event that was left out
`InOrder` promises nothing: its row comes after that of a later event which has landed
before it. While nothing has failed it adds that the dead letters are poison, that every
consumer has in hand all that is unfinished before its entries (`AllBefore`, `LoopHas`),
and hence that no event is stored before an earlier one that the stream took when it was
due (`Downward`).

`Approvals_proofs`. `Inv` adds to the checked invariants that a waiting runner
has a card (`Waiting`, without which even `TypeOK` is not inductive), that the
decision it holds is the row's or its own denial (`Heard`), that everything
before the pending call is allowed for good (`Asked`, because the always-allow
set only grows), and that a card whose decision was taken was made for a decided
call (`UsedUp`). From the last two: when a resumed node hands the decision to a
later call, the card's own call is decided by that very run, so the card cannot
be asked again (`OneWordOneCall`). `RowsStay` is the one fact about rows the
rest needs.

`Services_proofs`, capacity. `Shape`: a spawn in progress has a lane (`Busy`) of its
own (`Alone`) which has no row before it is inserted (`Fresh`), and no lane is
reopened twice (`StampedOnce`). On top of it: `SingleWriter` (`OneWriter`; a lane opens
only by an insert under the index or by the late stamp, and the stamp finds no
rival), `CapNearlyHeld` (`CapBound`; a counting argument: who passes the count has
counted fewer than `Cap` lanes, with `FiniteSetTheorems`), `NoReservationLeaks`
(`ReservationsDropped`).

Promotions. `Sound`: a thing that is claimed has one call at work, whose claim its row
still shows, and it has a run only where that call has made one or its row says so.
It gives `PromotedOnce` (`OneRunPerThing`), which alone is not inductive: it does not
exclude a second claimant between the claim of the first and its run.

Triggers. `Logged` are the types and where a dispatch stands (`Placed`). `Accounts`,
per event, is what `OneRunEach` needs while nothing fails and no dispatch is late: a
row is "received" exactly while its webhook is at work inside the grace window; its
runs are those its verdicts tell of, or the one its dispatch is about to tell; a queued
event has none, unless the sweep has just made it. `Drains`: the sweep finds nothing
to recover and takes each queued event once. Faults and lateness only grow, so a
state without them has a past without them. `Least` is that a set of numbers has a
least element.

Knowledge. `Versioned` (no block is of a later version than the cache's) and `Ranked`
(a space in ranking is that of now unless a decision has fallen): with them a decision
may change the corpus before it bumps the version, since every block of before is then
of an older one. It gives `BlocksFresh` (`BlockFresh`) and `KnowTypeCorrect` (the cache
stays within its bound). `OthersKept` is the lemma about taking a block out of the
middle of the cache.

Distiller. `Nightly`: once the model has answered, it was told of all that the night
has read, or the night has read more than a question holds. It gives `MarkedTold`
(`MarkedWasTold`), an action property: only `MarkMined` writes a marker (`Marks`).

`Fleet_proofs`, sessions and keys. `Sess`: only rows have named containers (`Listed`), a
spawn's lane has a row and no name yet (`Begun`), a lane is spawned once (`Alone`), a
name that was read stays (`ReadName`), who replaces a lane has waited or had nothing to
wait for (`Handed`), and what was replaced is quiet (`Heirs`). `Hush` is about what a
message continues: the container of a closed lane is gone (`Shut`) and nobody is about
to start it (`Pending`, `Watched`), so that a lane which has ended stays quiet under the
one that took its session (`Told`). It gives `OneSession` (`SessionExclusive`), whose
exceptions are a lane that was closed while its container had no name, a force-stop that
failed before a message, and a switch, which stops nothing. `Kept` gives `Accounted`: a
key that lives at the gateway is in the row of its lane, where the sweep finds it,
unless its mint has just been answered or a fault has left it to its TTL
(`KeyAccounted`). The invariant it takes is that minting and cleaning up never meet on a
lane (`Unkeyed`, `Apart`), and that a row is cleared only of a key that is written off,
though two cleanups of one lane may overlap at any await (`Cut`).

Budgets. `Ledger` says when what a lane has spent is what its row tells: while no fault
has left a lane without its settlement, a closed lane on the books has no container
(`Stopped`), a lane that is being cleaned up has been billed for what it spent (`Over`),
and so has one whose key is gone (`Books`). `Bounded` is about money: the purse of a
lane is its budget, or what it has spent once another has taken over the rest, and the
purses together are within one budget for each lane that was launched, whoever's session
it has, and a floor for each replacement. It gives `BudgetHeld` (`SpendBounded`).
`SpendBounded` alone is not inductive: it does not know that the successor's budget is
the rest of its predecessor's. Sums over lanes are taken apart by an induction over
finite sets, which is the least-number principle for a fixed set of sizes.

Fan-out. `NoPhantom` is strengthened to `Heard`, which begins when the request is on
the stream and before its answer is back: until it is dealt with, a request lies on the
stream or in what one bridge has read, through every batch and every step of a spawn.
It gives `NoneForgotten`.

`Worker_proofs`, the engine's turn. `Holds` has one part per theorem: `Settled` (what
reaches the tools has been decided) for `DecidedRun`, `Recorded` (effects of a protected
call are in the journal, or a fault has left them out) for `OncePerRecord`, `OpenAt` for
`Answered`, `Spun` for `OverflowsOnce`, `CriticBounded` for `CriticLetsGo`; `Placed` and
`Carded` tie the walk over the calls and the card to the node. The gate asks for the
first undecided call: that there is one is the least element of a set of numbers, by
well-founded induction over a fixed set.

The runner. `Stopped`: the stop flag stays while the pump is at a stop and after it
(`StopStays`), only a turn of the main coroutine is tracked (`OneTracked`), and from the
pump's last words on a tracked turn in flight began with the flag set (`Awaited`), because
the pump has waited for the one that did not. It gives `TrackedStops`
(`TrackedTurnStops`), for every interleaving of pump, signal, watchdog and beat.

The compactor. `Chat`: a result comes after its call (`InTurn`), what is protected
neither calls nor answers and who calls does not answer (`Fit`), and messages have names
of their own (`Named`). From it, `NoSplitPair` (`PairsMended`: while a call is left
after a compaction, each has its result and each result its call), `NoRollback`
(`NeverRolledBack`: the honesty check never fails, so that the code's way out of it is
never taken) and `CompactTypeCorrect`. The passes are filters: that a filter keeps
order, and keeps exactly what its test lets through, is proved by the same induction
over sizes, for any set of places.

`Owner_proofs`, delivery. `Inv`: every task is at a node of its blueprint and a
development past its first node holds an approved plan (`Jobs`), links and requests
in flight are of approved plans and real pull requests (`Linked`, `Requested`), and
what `OnlyApprovedWork` and `CompletedIsMerged` say. It gives `ApprovedWork`,
`ApprovedShips`, `Completed` (a run is completed only after ADO has completed a
pull request) and `FailedForGood`. The evidence gate looks only at the steps: that
all of them are done implies an approved plan because work is done on no other.

The console. `Faithful`: while a socket is there nothing that is on its way can
replace the run on the screen, and what was asked for it is about it (`Anchored`); what
a request has read is durable and of the run it was asked of (`Fetched`); a frame in
the queue is true of the run on the screen (`Relayed`). It gives `ScreenTrue`
(`ShowsTheRun`: rack, bubbles, histories and stage are of one run, each history durable,
ascending and without a repetition) and `ScreenTypeCorrect`. `Upsert` keeps a history
ascending (`UpsertHolds`), and a fold of upserts does by induction on the number of
events it folds in (`UpsertsHolds`).

`Pipelines_proofs`. `IInv`: only green leads to `ship` (`Verified`), for
`ShippedGreen`; and, per run, which lanes a task may have at which node (`Lanes`:
`Named`, `Sunken`, `Gathered`, `Queued`, `Alone`), for `Freed`: a pipeline that is
over holds no slot but a swarm's two leads and what a broken fan-out left behind.
`ShipsGreen` alone is not inductive: without `Lanes` a slice that was forgotten in
its queue could start after the pipeline's end.

### Only model-checked

- Liveness (`WorkingEnds`, `NamedLanesEnd`, `LandedIsRecorded`, `RequestGetsCard`,
  `DecisionReaches`, `SlotFreed`, `KeysReleased`, `NudgesRun`, `JobsEnd`,
  `OnboardingSettles`, `PipelinesEnd`, `EventsSettle`, `SeesWhatItMissed`,
  `ThreadNeverTruncated`): the prover does not treat fairness and `ENABLED`.

Every safety property that a passing run checks is stated by a theorem.

Proved and in no run's configuration: `ReservationsDropped`, `KeyAccounted`,
`CallsAnswered`, `OverflowOnce`, `CriticBounded`, `FailedStays`, `CompletedIsMerged`,
`SlotsFreed`, `NeverRolledBack`, `ShowsTheRun`. No module declares a `RECURSIVE`
operator.

## Disagreements

Where the code does not do what its comments, docs or tests say. The first four are
runs and findings of `PROJECT.json`. For the others the module states the property;
TLC finds it violated when it replaces the properties of the run named here (of a
component that is an instance there, through a definition such as
`TreeGone == Term!TreeGone`).

| Property | Run, and what to change in it | What the code does | What it says |
|---|---|---|---|
| `Verbatim` | `approvals_verbatim` | the resumed gate hands a decision to the first call that is not allowed by now (`graph.py:513`) | `approvals.py:6-7`: the tool executes "with the verbatim args from phase 1" |
| `FailureShows` | `pipelines_failure` | `_complete` transitions out of a terminal stage, which raises (`swarm.py:266`) | `swarm.py:268`: "re-publish the FAILED stage" |
| `NeverTruncated` | `console_pages` | paging asks for every thread above the largest seq of any (`run.ts:91`), and the server sorts by thread first (`sessions.py:69`) | `run.ts:76-78`: "must never truncate a long run's tail" |
| `QueuedStarts` | `triggers_queue` | a row is drained only if all its verdicts are queued, and for its first trigger only (`triggers.py:407, 489, 530`) | `triggers.py:14-15`: what overflows queues and is started "as capacity returns" |
| `TerminalLeftOnlyByUser` | `run_safety`, no crash, no stubborn container | a blueprint takes an abandoned run out of its terminal stage (`base.py:110`) | `base.py:104-109`: only "a DELIBERATE user act" does |
| `ResumeFindsSession` | `run_safety`, three lanes | the second continuation of a lane mounts an empty directory (`sandbox/manager.py:283`) | `api/runs.py:420-426`: "every conversation continues from where it stopped" |
| `WorkingEnds` | `RunLifecycle` by itself with `FairSpec`, the constants of `run_safety`, one request, no symmetry | a run adopted at boot gets no blueprint task (`run_manager.py:1187`) | `run_manager.py:1144-1145`: "no silent zombies" |
| `CrashLosesNothing` | `event_ingest` | what was read before a crash stays pending while the run goes on (`bus.py:165`) | `bus.py:4-5`: a crash "never loses an event" |
| `SurvivorsAreServed` | `event_ingest` | a parked run's stream is not read after a restart (`run_manager.py:1155`) | `run_manager.py:1187-1191`: "or the surviving workers' events pile up unconsumed" |
| `NoDoubleMount` | `fleet` | who replaces a lane whose container has no name yet does not wait for it (`run_manager.py:868`); a switch leaves the lane running whose directory it mounts, and two continuations of one lane mount the same (`api/runs.py:440-468`, `sandbox/manager.py:283`) | `sandbox/manager.py:350-352`: "guarantee the old container has released the session volume" |
| `VetoSeen` | `fleet` | the message loses the status: a refused child is filed as completed (`runner.py:664`, `control.py:57-62`) | `spawn_bridge.py:153-154` |
| `KillEndsTurn` | `worker` | a nudge's turn is not `_turn_task` and outlives a kill (`runner.py:574`) | `runner.py:627-629`: "a replaced worker can never execute a late decision" |
| `CompletedEnds` | `worker` | the status is "completed" before a beat that fails, and the next tick looks at idle workers only | `runner.py:733`: "retrying next tick" |
| `TreeGone` | `worker` | the group is found by the shell's pid, which may be reaped (`background.py:295`) | `background.py:7`: "killProcessTree on kill" |
| `CapHeld` | `parts` | counts are read before reservations are written | `db/models/reservation.py:5-6`: two backends "cannot both pass the cap" |
| `VerdictShips` | `triggers` | `create_pr` is offered before the evaluator has spoken (`runs.py:18`) | `development.py:54`: its verdict is "the final authority" |
| `PlanAdvances` | `parts`, `"update_tasks"` for `"ask_user"` | a plan tracked with `update_tasks` does not pass the critic (`graph.py:1003`) | `goal_mode.py:248`: "Produce the plan as a structured task list (update_tasks)" |
| `CriticalKept` | `parts` | the repair of pairs drops critical results whose call was pruned (`compaction.py:100`) | `compaction.py:229`: errors, approvals and edits "survive compaction" |
| `NoStaleBlock` | `parts` | a block ranked across a decision is cached under the new version (`knowledge.py:398-400`) | `knowledge.py:388-390`: "recomputed (not served stale)" |
| `OneRunPerIdea` | `parts` | a summary overwrites the claim of a promote | `ideas.py:267-273`: "exactly one flips the row" |
| `DecidedOnce` | `parts` | a dismissal overwrites an acceptance | `proposals.py:121,185`: "proposal already decided" |
| `FailedRetried` | `parts` | a failed night's runs leave the window of one day (`distiller.py:79-80`) | `main.py:158`: "unmined, will retry" |
| `RecoverySafe` | `triggers` | a dispatch that broke between its run and its verdict is driven again (`triggers.py:545`) | `triggers.py:542`: "guardrails make the re-dispatch itself safe" |

`WorkingEnds` is violated also with two overlapping requests, or with a container
that survives a forced stop: a resumed run may stay `queued` without a task.

### Met while modelling, stated by no property

- Runs and lanes: `_boot_watchdog` never marks a row (`thread_manager.py:293`); a
  nudge is lost when the stop flag is set; a pending stop is acknowledged while a
  nudge's turn runs; a failed `delete_key` is swallowed and left to the sweep.
- Events: `_stamp` takes `next_seq` without the thread's lock (`bus.py:275-280`); a
  dead letter that fails is not retried (`bus.py:198`); a lost connection ends the
  ingest and approvals loops (`bus.py:176`, `approvals.py:101`); two replicas share
  the consumer name `backend-1`.
- Approvals: `kill_replace` stamps pending rows, so that a successor's card may be
  decided before it is asked; a yes may be lost between the commit and the RPUSH,
  and the same click again answers 200 without sending (`approvals.py:281`).
- Engine: with a limit that cuts a turn at an overflow the forced compaction
  survives into the next turn; the breaker after three denials leaves tool calls
  unanswered; the stage `clarify` leads nowhere; two log calls pass keywords that
  `logging` refuses (`graph.py:874`, `checkpointer.py:110`).
- Delivery: `_mark_steps` marks steps done however the lane ended; concurrent
  `create_pr` write two links; `mark_merged` never completes the run; a failed step
  has no way back; a stop cancels the newest task only.
- Pipelines: explorers hold their slots idle while the synthesis waits for one; a
  gather without `return_exceptions` leaves pollers behind; `finish_thread` stamps
  "completed" on parked lanes.
- Triggers: the drain asks neither for the flap guard nor for a claim; a crash in
  the recovery leaves "recovering"; the drain takes the five oldest rows, so that those
  of one exhausted trigger hold up the others; an idle lead is not nudged but its event is
  filed as nudged.
- Flywheel: the block cache is per process; a card decided as a card leaves its item
  a draft; the distiller's default caller does not fit the signature of
  `gateway_complete`, so that every night ends in `distill_failed`.
- Golden clones: an archive during an onboarding comes back ready; a fetch's late
  write resurrects an archived repository (`fetcher.py:77`); a registration while an
  archive's `rmtree` is pending loses its clone; a crash leaves "cloning" for ever, and
  so does a first read that fails, or a handler whose own write does
  (`repos.py:150-157,214`).
- Consoles: the first open has no resync; a thread first seen in the middle is never
  caught up; an answer to an older question may overwrite a newer stage.

## Not modelled

- Guardian and responder: no path of the repository reaches them.
- The SDK runtime: flag-gated predecessor of the engine.
- Evidence, hydration, vision, repository maps, playbooks, bench, the session
  browser, retention, accounts and tokens: pure I/O, text, or single-row updates;
  their outcomes are choices of the modules above.
- Tools and filters of the engine other than the terminals; token arithmetic;
  prompts; models and prices; what is mounted besides the session; the fleet view.

## Plan

1. Further theorems: that the end of a child frees its slot once (`FanOut`), the session
   of a continuation (`RunLifecycle`).
2. `Capacity` and `FanOut` composed: what the capacity says to a bridge is a free
   choice so far.
3. Several threads on one stream in `EventIngest`; compare runs in `RunLifecycle`.
4. Evidence of a run as state of `Delivery`, rather than as an answer.
