----------------------------- MODULE Pipelines -----------------------------
(***************************************************************************)
(* The two blueprints that run with nobody at the controls: goal, from a   *)
(* story to a pull request, and width-swarm, from a question to an answer  *)
(* put together from slices (orchestrator/blueprints/goal.py, swarm.py).   *)
(* They compete for the slots of the fleet: a lane holds its slot until    *)
(* the blueprint finishes it or its worker's idle TTL does.                *)
(*                                                                         *)
(* What the blueprints decide from is kept: whether a plan parses, whether *)
(* the verification is green, how a lane ended.  Stops are RunLifecycle's, *)
(* the reservation of a slot is Capacity's.                                *)
(***************************************************************************)
EXTENDS Naturals, FiniteSets

CONSTANTS
  Goals, Swarms,   \* runs, by their blueprint
  Slices,          \* explorers, as many as the fan-out that was asked for
  Cap,             \* global_thread_cap
  CritiqueRounds,  \* CRITIQUE_ROUNDS
  MaxFixRounds,    \* MAX_FIX_ROUNDS
  MaxUpsets        \* bound: lanes that park, fail or wedge, spawns and pushes that break

ASSUME PipelinesAssumption ==
  /\ Goals \cap Swarms = {} /\ Cap \in Nat
  /\ Slices # {} /\ Slices \cap {"one", "lead", "synth"} = {}
  /\ CritiqueRounds \in Nat \ {0} /\ MaxFixRounds \in Nat
  /\ MaxUpsets \in Nat

Runs == Goals \cup Swarms
Solo == {"one", "lead", "synth"}   \* a goal's lane of the moment, a swarm's leads
Roles == Slices \cup Solo

VARIABLES
  stage, task,
  lane,      \* rows of threads; "waiting": a slice that polls for a slot
  steps,     \* of the goal's plan
  won,       \* some thread of the run completed
  green,     \* the last verification
  shipped,   \* the pull request is open
  sunk,      \* the fan-out raised with siblings still polling
  upsets

outcomes == <<steps, won, green, shipped>>
vars == <<stage, task, lane, outcomes, sunk, upsets>>

GoalNodes == {"hydrate", "explore", "plan", "critic", "reviser", "present",
              "develop", "verify", "fix", "ship"}
SwarmNodes == {"hydrate", "decompose", "fanout", "collect", "synthesize", "complete"}

StageOf ==
  [hydrate |-> "provisioning", explore |-> "investigating", plan |-> "planning",
   develop |-> "developing", verify |-> "verifying", ship |-> "pr_ready",
   decompose |-> "investigating", complete |-> "completed"]

Terminal == {"completed", "failed"}
Closed == {"completed", "failed"}
Held == {"running", "wedged", "idle"}     \* ACTIVE_STATUSES: they hold a slot
Live == Held \cup {"parked"}
Rests == {"idle", "parked"} \cup Closed   \* what ends _await_thread

TypeOK ==
  /\ stage \in [Runs -> {StageOf[n] : n \in DOMAIN StageOf} \cup {"queued", "failed"}]
  /\ task \in [Runs -> [node : GoalNodes \cup SwarmNodes,
                        in : {"gate", "body", "lane", "reap", "over"},
                        n : 0..(CritiqueRounds + MaxFixRounds), seen : SUBSET Slices]]
  /\ lane \in [Runs -> [Roles -> Live \cup Closed \cup {"none", "waiting"}]]
  /\ steps \in [Runs -> {"none", "pending", "done"}]
  /\ won \in [Runs -> BOOLEAN] /\ green \in [Runs -> BOOLEAN]
  /\ shipped \in [Runs -> BOOLEAN] /\ sunk \in [Runs -> BOOLEAN]

Init ==
  /\ stage = [r \in Runs |-> "queued"]
  /\ task = [r \in Runs |-> [node |-> "hydrate", in |-> "gate", n |-> 0, seen |-> {}]]
  /\ lane = [r \in Runs |-> [l \in Roles |-> "none"]]
  /\ steps = [r \in Runs |-> "none"] /\ won = [r \in Runs |-> FALSE]
  /\ green = [r \in Runs |-> FALSE] /\ shipped = [r \in Runs |-> FALSE]
  /\ sunk = [r \in Runs |-> FALSE]
  /\ upsets = 0

Taken == Cardinality({p \in Runs \X Roles : lane[p[1]][p[2]] \in Held})

At(r, node, in) == task[r].node = node /\ task[r].in = in

\* The next node: through its gate when it has a stage of its own.
Goes(r, node, n) ==
  task' = [task EXCEPT ![r] =
             [node |-> node, n |-> n, seen |-> {},
              in |-> IF node \in DOMAIN StageOf THEN "gate" ELSE "body"]]

Sets(r, roles, status) ==
  lane' = [lane EXCEPT ![r] = [l \in Roles |-> IF l \in roles THEN status ELSE @[l]]]

\* _guarded_execute, up to the stop of the lanes that live.
Raises(r) ==
  /\ task' = [task EXCEPT ![r].in = "reap"]
  /\ stage' = [stage EXCEPT ![r] = IF @ \in Terminal THEN @ ELSE "failed"]

Reap(r) ==
  /\ task[r].in = "reap"
  /\ task' = [task EXCEPT ![r].in = "over"]
  /\ Sets(r, {l \in Roles : lane[r][l] \in Live}, "failed")
  /\ UNCHANGED <<stage, outcomes, sunk, upsets>>

Enter(r) ==
  /\ task[r].in = "gate"
  /\ task' = [task EXCEPT ![r].in = "body"]
  /\ stage' = [stage EXCEPT ![r] = StageOf[task[r].node]]
  /\ UNCHANGED <<lane, outcomes, sunk, upsets>>

\* A lane that the run cannot go on without: no slot, no run.
Spawns(r, l) ==
  /\ IF Taken < Cap
     THEN /\ lane' = [lane EXCEPT ![r][l] = "running"]
          /\ task' = [task EXCEPT ![r].in = "lane"] /\ UNCHANGED stage
     ELSE Raises(r) /\ UNCHANGED lane
  /\ UNCHANGED <<outcomes, sunk, upsets>>

\* finish_thread, for each: an honest "failed" is left alone.
Unfinished(r, roles) == {l \in roles : lane[r][l] \in Live}
Finishes(r, roles, status) ==
  /\ Sets(r, Unfinished(r, roles), status)
  /\ won' = [won EXCEPT ![r] = @ \/ (status = "completed" /\ Unfinished(r, roles) # {})]

\* The one lane a node waits for, and _await_thread gives up when it is wedged.
Awaited(r) ==
  CASE task[r].node \in {"fanout", "collect"} -> {}
    [] task[r].node = "decompose" -> {"lead"}
    [] task[r].node = "synthesize" -> {"synth"}
    [] OTHER -> {"one"}

GivesUp(r) ==
  /\ task[r].in = "lane" /\ \E l \in Awaited(r) : lane[r][l] = "wedged"
  /\ Raises(r)
  /\ UNCHANGED <<lane, outcomes, sunk, upsets>>

\* A node that breaks: no repository, a spawn or a push that raises.
NodeBreaks(r) ==
  /\ task[r].in = "body" /\ upsets < MaxUpsets /\ upsets' = upsets + 1
  /\ Raises(r)
  /\ UNCHANGED <<lane, outcomes, sunk>>

-----------------------------------------------------------------------------
(* goal.                                                                   *)

HydrateGoal(r) ==
  /\ r \in Goals /\ At(r, "hydrate", "body") /\ Goes(r, "explore", 0)
  /\ UNCHANGED <<stage, lane, outcomes, sunk, upsets>>

\* One researcher, or a swarm of explorers.
Explore(r) ==
  /\ At(r, "explore", "body")
  /\ \/ Spawns(r, "one")
     \/ /\ Sets(r, Slices, "waiting")
        /\ task' = [task EXCEPT ![r].in = "lane"]
        /\ UNCHANGED <<stage, outcomes, sunk, upsets>>

\* The lane the node waits for has come to rest.
Rested(r, l) == task[r].in = "lane" /\ lane[r][l] \in Rests

\* Of a gather, each await ends by itself; whatever its lane does then.
Sees(r, l) ==
  /\ task[r].in = "lane" /\ task[r].node \in {"explore", "collect"}
  /\ lane[r][l] \in Rests /\ l \notin task[r].seen
  /\ \A m \in Slices : lane[r][m] # "waiting"
  /\ task' = [task EXCEPT ![r].seen = @ \cup {l}]
  /\ UNCHANGED <<stage, lane, outcomes, sunk, upsets>>

Explorers(r) == {l \in Slices : lane[r][l] # "none"}

Explored(r) ==
  /\ At(r, "explore", "lane")
  /\ lane[r]["one"] \in Rests \cup {"none"} /\ Explorers(r) \subseteq task[r].seen
  /\ Finishes(r, Slices \cup {"one"}, "completed")
  /\ Goes(r, "plan", 0)
  /\ UNCHANGED <<stage, steps, green, shipped, sunk, upsets>>

\* An explorer that is wedged takes the whole gather down.
ExploreGivesUp(r) ==
  /\ At(r, "explore", "lane")
  /\ \E l \in Slices \ task[r].seen : lane[r][l] = "wedged"
  /\ \A l \in Slices : lane[r][l] # "waiting"
  /\ Raises(r)
  /\ UNCHANGED <<lane, outcomes, sunk, upsets>>

\* Every later lane of the goal is a fresh one, alone.
Plan(r) == At(r, "plan", "body") /\ Spawns(r, "one")

Criticise(r) == At(r, "critic", "body") /\ Spawns(r, "one")

Revise(r) == At(r, "reviser", "body") /\ Spawns(r, "one")

Develop(r) == At(r, "develop", "body") /\ Spawns(r, "one")

Fix(r) == At(r, "fix", "body") /\ Spawns(r, "one")

\* The lane is finished at once: its slot and its write lock are free.
Finished(r, node) ==
  /\ task[r].node = node /\ Rested(r, "one") /\ Finishes(r, {"one"}, "completed")

Planned(r) ==
  /\ Finished(r, "plan")
  /\ (Goes(r, "critic", 1) /\ UNCHANGED stage) \/ Raises(r)   \* parses, or does not
  /\ UNCHANGED <<steps, green, shipped, sunk, upsets>>

Criticised(r) ==
  /\ Finished(r, "critic") /\ Goes(r, "reviser", task[r].n)
  /\ UNCHANGED <<stage, steps, green, shipped, sunk, upsets>>

\* What does not parse leaves the draft of before.
Revised(r) ==
  /\ Finished(r, "reviser")
  /\ IF task[r].n < CritiqueRounds THEN Goes(r, "critic", task[r].n + 1) ELSE Goes(r, "present", 0)
  /\ UNCHANGED <<stage, steps, green, shipped, sunk, upsets>>

\* The plan is approved by the pipeline itself.
PresentGoal(r) ==
  /\ At(r, "present", "body")
  /\ steps' = [steps EXCEPT ![r] = "pending"]
  /\ Goes(r, "develop", 0)
  /\ UNCHANGED <<stage, lane, won, green, shipped, sunk, upsets>>

Developed(r) ==
  /\ Finished(r, "develop")
  /\ steps' = [steps EXCEPT ![r] = "done"]
  /\ Goes(r, "verify", 0)
  /\ UNCHANGED <<stage, green, shipped, sunk, upsets>>

\* Mutant: the loop ends, and nobody looks at how it ended.
VerifyMutant(r) ==
  /\ At(r, "verify", "body")
  /\ \E passed \in BOOLEAN :
       /\ green' = [green EXCEPT ![r] = passed]
       /\ IF ~passed /\ task[r].n < MaxFixRounds
          THEN task' = [task EXCEPT ![r].node = "fix", ![r].n = @ + 1]
          ELSE Goes(r, "ship", 0)
  /\ UNCHANGED <<stage, lane, steps, won, shipped, sunk, upsets>>

\* The gate: green ships, red is fixed as often as allowed, then the run fails.
Verify(r) ==
  /\ At(r, "verify", "body")
  /\ \E passed \in BOOLEAN :
       /\ green' = [green EXCEPT ![r] = passed]
       /\ \/ passed /\ Goes(r, "ship", 0) /\ UNCHANGED stage
          \/ /\ ~passed /\ task[r].n < MaxFixRounds /\ UNCHANGED stage
             /\ task' = [task EXCEPT ![r].node = "fix", ![r].n = @ + 1]
          \/ ~passed /\ task[r].n = MaxFixRounds /\ Raises(r)
  /\ UNCHANGED <<lane, steps, won, shipped, sunk, upsets>>

Fixed(r) ==
  /\ Finished(r, "fix")
  /\ task' = [task EXCEPT ![r].node = "verify", ![r].in = "body"]
  /\ UNCHANGED <<stage, steps, green, shipped, sunk, upsets>>

\* The evidence gate, the pull request, and the end of the run.
Ship(r) ==
  /\ At(r, "ship", "body")
  /\ IF steps[r] = "done" /\ won[r]
     THEN /\ shipped' = [shipped EXCEPT ![r] = TRUE]
          /\ stage' = [stage EXCEPT ![r] = "completed"]
          /\ task' = [task EXCEPT ![r].in = "over"]
     ELSE Raises(r) /\ UNCHANGED shipped
  /\ UNCHANGED <<lane, steps, won, green, sunk, upsets>>

-----------------------------------------------------------------------------
(* width-swarm.                                                            *)

HydrateSwarm(r) ==
  /\ r \in Swarms /\ At(r, "hydrate", "body") /\ Goes(r, "decompose", 0)
  /\ UNCHANGED <<stage, lane, outcomes, sunk, upsets>>

Decompose(r) == At(r, "decompose", "body") /\ Spawns(r, "lead")

\* The lead's slices, or one when its answer does not parse; the lead lingers.
Decomposed(r) ==
  /\ task[r].node = "decompose" /\ Rested(r, "lead")
  /\ \E some \in SUBSET Slices \ {{}} : Sets(r, some, "waiting")
  /\ task' = [task EXCEPT ![r].node = "fanout", ![r].in = "lane"]
  /\ UNCHANGED <<stage, outcomes, sunk, upsets>>

\* spawn_many, of either blueprint: a slice that finds a slot starts, though its
\* run may be over by then.
SpawnSlice(r, l) ==
  /\ lane[r][l] = "waiting" /\ Taken < Cap
  /\ lane' = [lane EXCEPT ![r][l] = "running"]
  /\ UNCHANGED <<stage, task, outcomes, sunk, upsets>>

\* The gateway or the container fails: the slice is dropped.
SliceDropped(r, l) ==
  /\ lane[r][l] = "waiting" /\ Taken < Cap /\ upsets < MaxUpsets
  /\ lane' = [lane EXCEPT ![r][l] = "none"] /\ upsets' = upsets + 1
  /\ UNCHANGED <<stage, task, outcomes, sunk>>

\* Anything else raises through the gather, which does not cancel the siblings.
SliceBreaks(r, l) ==
  /\ lane[r][l] = "waiting" /\ task[r].in = "lane" /\ upsets < MaxUpsets
  /\ upsets' = upsets + 1
  /\ lane' = [lane EXCEPT ![r][l] = "none"]
  /\ sunk' = [sunk EXCEPT ![r] = TRUE]
  /\ Raises(r)
  /\ UNCHANGED outcomes

Fannedout(r) ==
  /\ At(r, "fanout", "lane") /\ \A l \in Slices : lane[r][l] # "waiting"
  /\ task' = [task EXCEPT ![r].node = "collect"]
  /\ UNCHANGED <<stage, lane, outcomes, sunk, upsets>>

\* Mutant: the await of a wedged explorer has no bound.
CollectedMutant(r) ==
  /\ At(r, "collect", "lane") /\ Explorers(r) \subseteq task[r].seen
  /\ Goes(r, "synthesize", 0)
  /\ UNCHANGED <<stage, lane, outcomes, sunk, upsets>>

\* Each at rest or given up; the wedged are finished as failed.
Collected(r) ==
  /\ At(r, "collect", "lane")
  /\ LET missed == Explorers(r) \ task[r].seen IN
       /\ \A l \in missed : lane[r][l] = "wedged"
       /\ Sets(r, missed, "failed")
  /\ Goes(r, "synthesize", 0)
  /\ UNCHANGED <<stage, outcomes, sunk, upsets>>

\* No slice, nothing to synthesize.
Synthesize(r) ==
  /\ At(r, "synthesize", "body")
  /\ IF \E l \in Slices : lane[r][l] # "none" THEN Spawns(r, "synth")
     ELSE Goes(r, "complete", 0) /\ UNCHANGED <<stage, lane, outcomes, sunk, upsets>>

Synthesized(r) ==
  /\ task[r].node = "synthesize" /\ Rested(r, "synth") /\ Goes(r, "complete", 0)
  /\ UNCHANGED <<stage, lane, outcomes, sunk, upsets>>

\* The stage says completed by now, so the failure of every explorer raises.
Complete(r) ==
  /\ At(r, "complete", "body")
  /\ IF Explorers(r) # {} /\ \A l \in Explorers(r) : lane[r][l] = "failed"
     THEN Raises(r) /\ UNCHANGED <<lane, won>>
     ELSE /\ Finishes(r, Slices, "completed")
          /\ task' = [task EXCEPT ![r].in = "over"] /\ UNCHANGED stage
  /\ UNCHANGED <<steps, green, shipped, sunk, upsets>>

-----------------------------------------------------------------------------
(* Workers.                                                                *)

TurnEnds(r, l) ==
  /\ lane[r][l] = "running" /\ lane' = [lane EXCEPT ![r][l] = "idle"]
  /\ UNCHANGED <<stage, task, outcomes, sunk, upsets>>

TurnFails(r, l) ==
  /\ lane[r][l] = "running" /\ lane' = [lane EXCEPT ![r][l] = "failed"]
  /\ upsets < MaxUpsets /\ upsets' = upsets + 1
  /\ UNCHANGED <<stage, task, outcomes, sunk>>

\* A card, which is decided or times out.
Parks(r, l) ==
  /\ lane[r][l] = "running" /\ lane' = [lane EXCEPT ![r][l] = "parked"]
  /\ upsets < MaxUpsets /\ upsets' = upsets + 1
  /\ UNCHANGED <<stage, task, outcomes, sunk>>

Unparks(r, l) ==
  /\ lane[r][l] = "parked" /\ lane' = [lane EXCEPT ![r][l] = "running"]
  /\ UNCHANGED <<stage, task, outcomes, sunk, upsets>>

\* idle_ttl_seconds.
IdleEnds(r, l) ==
  /\ lane[r][l] = "idle"
  /\ lane' = [lane EXCEPT ![r][l] = "completed"]
  /\ won' = [won EXCEPT ![r] = TRUE]
  /\ UNCHANGED <<stage, task, steps, green, shipped, sunk, upsets>>

\* The row says running, and nothing comes of it.
Wedges(r, l) ==
  /\ lane[r][l] = "running" /\ upsets < MaxUpsets
  /\ upsets' = upsets + 1 /\ lane' = [lane EXCEPT ![r][l] = "wedged"]
  /\ UNCHANGED <<stage, task, outcomes, sunk>>

Step(r) ==
  \/ Enter(r) \/ GivesUp(r) \/ Reap(r)
  \/ HydrateGoal(r) \/ Explore(r) \/ Explored(r) \/ ExploreGivesUp(r) 
  \/ Plan(r) \/ Criticise(r) \/ Revise(r) \/ Develop(r) \/ Fix(r)
  \/ Planned(r) \/ Criticised(r) \/ Revised(r) \/ PresentGoal(r) \/ Developed(r)
  \/ Verify(r) \/ Fixed(r) \/ Ship(r)
  \/ HydrateSwarm(r) \/ Decompose(r) \/ Decomposed(r) \/ Fannedout(r) \/ Collected(r)
  \/ Synthesize(r) \/ Synthesized(r) \/ Complete(r) \/ \E l \in Slices : Sees(r, l)

Next ==
  \E r \in Runs :
    \/ Step(r) \/ NodeBreaks(r)
    \/ \E l \in Slices : SpawnSlice(r, l) \/ SliceDropped(r, l) \/ SliceBreaks(r, l)
    \/ \E l \in Roles : TurnEnds(r, l) \/ TurnFails(r, l) \/ Parks(r, l) \/ Unparks(r, l)
                        \/ IdleEnds(r, l) \/ Wedges(r, l)

\* The event loop runs every task, and a slice polls again when a slot is free
\* often enough; a turn has a bounded number of steps (engine/runner.py:257), a
\* card times out and an idle worker ends.
Fairness ==
  \A r \in Runs :
    /\ WF_vars(Step(r))
    /\ \A l \in Slices : SF_vars(SpawnSlice(r, l))
    /\ \A l \in Roles : WF_vars(TurnEnds(r, l)) /\ WF_vars(Unparks(r, l)) /\ WF_vars(IdleEnds(r, l))

Spec == Init /\ [][Next]_vars /\ Fairness

-----------------------------------------------------------------------------
(* Properties.                                                             *)

\* What ships has passed the verification, through whatever rounds of fixing:
\* zero interruption never means shipping red (goal.py:28).
ShipsGreen == \A r \in Goals : shipped[r] => green[r] /\ steps[r] = "done"

\* A pipeline that is over leaves no lane in a slot, but the leads of a swarm,
\* whose containers live on to their TTL (swarm.py:284), and what a fan-out that
\* broke left behind.
SlotsFreed ==
  \A r \in Runs : task[r].in = "over" /\ ~sunk[r] =>
    {l \in Roles : lane[r][l] \in Live} \subseteq {"lead", "synth"}

\* A slice still queues behind a wedged explorer, which only the blueprint that
\* waits for that slice to start would give up.
Starved ==
  \E s \in Runs : task[s].in = "lane" /\ \E l, m \in Slices : lane[s][l] = "wedged" /\ lane[s][m] = "waiting"

\* Every pipeline ends, whatever wedges and however slots are short, unless a
\* slice is starved (swarm.py:323).
PipelinesEnd == \A r \in Runs : <>[](task[r].in = "over" \/ Starved)

\* A swarm whose explorers all failed is not a completed run (swarm.py:268).
FailureShows ==
  \A r \in Swarms :
    task[r].in = "over" /\ Explorers(r) # {} /\ (\A l \in Explorers(r) : lane[r][l] = "failed")
      => stage[r] # "completed"
=============================================================================
