-------------------------- MODULE Pipelines_proofs --------------------------
(***************************************************************************)
(* Proofs about the goal and swarm pipelines.                              *)
(***************************************************************************)
EXTENDS Pipelines, TLAPS

Tasks == [node : GoalNodes \cup SwarmNodes, in : {"gate", "body", "lane", "reap", "over"},
          n : 0..(CritiqueRounds + MaxFixRounds), seen : SUBSET Slices]
Statuses == Live \cup Closed \cup {"none", "waiting"}
Stages == {StageOf[n] : n \in DOMAIN StageOf} \cup {"queued", "failed"}

\* A node is at its gate only when it has a stage to set.
Gated == \A r \in Runs : task[r].in = "gate" => task[r].node \in DOMAIN StageOf

\* A run stays in its own blueprint.
Courses ==
  /\ \A r \in Goals : task[r].node \in GoalNodes
  /\ \A r \in Swarms : task[r].node \in SwarmNodes

Typed == TypeOK /\ Gated /\ Courses

\* Only green leads to the last node, and what has shipped is over.
Verified ==
  \A r \in Goals :
    /\ task[r].node = "ship" /\ task[r].in \in {"gate", "body"} => green[r]
    /\ shipped[r] => task[r].in = "over" /\ green[r] /\ steps[r] = "done"

\* A lane's name says whose it is.
Named(r) ==
  /\ r \in Goals => lane[r]["lead"] = "none" /\ lane[r]["synth"] = "none"
  /\ r \in Swarms => lane[r]["one"] = "none"

Sunken(r) == sunk[r] => task[r].in \in {"reap", "over"}

\* Awaits have ended only at a node that gathers them.
Gathered(r) ==
  task[r].seen # {} => task[r].in \notin {"gate", "body"} /\ task[r].node \in {"explore", "collect"}

\* A slice polls for a slot while its fan-out waits, or after it broke.
Queued(r) ==
  \A l \in Slices : lane[r][l] = "waiting" =>
    \/ sunk[r]
    \/ /\ task[r].in = "lane" /\ task[r].node \in {"explore", "fanout"}
       /\ task[r].seen = {} /\ lane[r]["one"] \notin Live

Unmanned(r, ls) == \A l \in ls : lane[r][l] \notin Live

\* A goal has lanes only while it awaits them, and several only to explore.
Alone(r) ==
  /\ r \in Goals /\ task[r].in \in {"gate", "body"} => Unmanned(r, Roles)
  /\ r \in Goals /\ task[r].in = "lane" /\ task[r].node # "explore" => Unmanned(r, Roles \ {"one"})
  /\ task[r].in = "over" /\ ~sunk[r] => Unmanned(r, Roles \ {"lead", "synth"})

Tidy(r) == Named(r) /\ Sunken(r) /\ Gathered(r) /\ Queued(r) /\ Alone(r)

Lanes == \A r \in Runs : Tidy(r)

IInv == Typed /\ Verified /\ Lanes

-----------------------------------------------------------------------------
(* What the steps do to a task and to the lanes.                           *)

\* A task goes to a node of its blueprint and finds its gate or its body.
LEMMA Going ==
  ASSUME TypeOK, NEW r \in Runs, NEW node \in GoalNodes \cup SwarmNodes,
         NEW n \in 0..(CritiqueRounds + MaxFixRounds), Goes(r, node, n)
  PROVE  /\ task' \in [Runs -> Tasks]
         /\ task'[r].node = node /\ task'[r].seen = {}
         /\ task'[r].in = IF node \in DOMAIN StageOf THEN "gate" ELSE "body"
         /\ \A q \in Runs : q # r => task'[q] = task[q]
<1> DEFINE t == [node |-> node, n |-> n, seen |-> {},
                 in |-> IF node \in DOMAIN StageOf THEN "gate" ELSE "body"]
<1>1. t \in Tasks
  BY DEF Tasks
<1>2. task \in [Runs -> Tasks]
  BY DEF TypeOK, Tasks
<1>3. task' = [task EXCEPT ![r] = t]
  BY DEF Goes
<1>4. t.node = node /\ t.seen = {} /\ t.in = IF node \in DOMAIN StageOf THEN "gate" ELSE "body"
  OBVIOUS
<1> HIDE DEF t
<1> QED
  BY <1>1, <1>2, <1>3, <1>4

\* A task stays at its node and changes what it does there.
LEMMA Staying ==
  ASSUME TypeOK, NEW r \in Runs, NEW i \in {"gate", "body", "lane", "reap", "over"},
         task' = [task EXCEPT ![r].in = i]
  PROVE  /\ task' \in [Runs -> Tasks]
         /\ task'[r].node = task[r].node /\ task'[r].seen = task[r].seen /\ task'[r].in = i
         /\ \A q \in Runs : q # r => task'[q] = task[q]
<1> DEFINE t == [task[r] EXCEPT !.in = i]
<1>1. task \in [Runs -> Tasks]
  BY DEF TypeOK, Tasks
<1>2. t \in Tasks /\ t.node = task[r].node /\ t.seen = task[r].seen /\ t.in = i
  BY <1>1 DEF Tasks
<1>3. task' = [task EXCEPT ![r] = t]
  BY <1>1
<1> HIDE DEF t
<1> QED
  BY <1>1, <1>2, <1>3

LEMMA Raised ==
  ASSUME TypeOK, NEW r \in Runs, Raises(r)
  PROVE  /\ task' \in [Runs -> Tasks]
         /\ task'[r].node = task[r].node /\ task'[r].seen = task[r].seen /\ task'[r].in = "reap"
         /\ \A q \in Runs : q # r => task'[q] = task[q]
         /\ stage' \in [Runs -> Stages]
<1>1. task' = [task EXCEPT ![r].in = "reap"]
  BY DEF Raises
<1>2. stage \in [Runs -> Stages]
  BY DEF TypeOK, Stages
<1>3. stage' \in [Runs -> Stages]
  <2>1. stage' = [stage EXCEPT ![r] = IF stage[r] \in Terminal THEN stage[r] ELSE "failed"]
    BY DEF Raises
  <2>2. "failed" \in Stages
    BY DEF Stages
  <2> QED
    BY <1>2, <2>1, <2>2
<1> QED
  BY <1>1, <1>3, Staying

\* A task replaced by another one.
LEMMA Replacing ==
  ASSUME TypeOK, NEW r \in Runs, NEW t \in Tasks, task' = [task EXCEPT ![r] = t]
  PROVE  /\ task' \in [Runs -> Tasks] /\ task'[r] = t
         /\ \A q \in Runs : q # r => task'[q] = task[q]
BY DEF TypeOK, Tasks

LEMMA Setting ==
  ASSUME TypeOK, NEW r \in Runs, NEW ls, NEW s \in Statuses, Sets(r, ls, s)
  PROVE  /\ lane' \in [Runs -> [Roles -> Statuses]]
         /\ \A l \in Roles : lane'[r][l] = IF l \in ls THEN s ELSE lane[r][l]
         /\ \A q \in Runs : q # r => lane'[q] = lane[q]
<1> DEFINE f == [l \in Roles |-> IF l \in ls THEN s ELSE lane[r][l]]
<1>1. lane \in [Runs -> [Roles -> Statuses]]
  BY DEF TypeOK, Statuses
<1>2. f \in [Roles -> Statuses] /\ \A l \in Roles : f[l] = IF l \in ls THEN s ELSE lane[r][l]
  BY <1>1
<1>3. lane' = [lane EXCEPT ![r] = f]
  BY DEF Sets
<1> HIDE DEF f
<1> QED
  BY <1>1, <1>2, <1>3

LEMMA Moving ==
  ASSUME TypeOK, NEW r \in Runs, NEW l \in Roles, NEW s \in Statuses,
         lane' = [lane EXCEPT ![r][l] = s]
  PROVE  /\ lane' \in [Runs -> [Roles -> Statuses]]
         /\ \A m \in Roles : lane'[r][m] = IF m = l THEN s ELSE lane[r][m]
         /\ \A q \in Runs : q # r => lane'[q] = lane[q]
<1> QED
  BY DEF TypeOK, Statuses

-----------------------------------------------------------------------------
(* One run acts.                                                           *)

Works(r) ==
  \/ \E l \in Slices : SpawnSlice(r, l) \/ SliceDropped(r, l) \/ SliceBreaks(r, l)
  \/ \E l \in Roles : TurnEnds(r, l) \/ TurnFails(r, l) \/ Parks(r, l) \/ Unparks(r, l)
                      \/ IdleEnds(r, l) \/ Wedges(r, l)

Acts(r) == Step(r) \/ NodeBreaks(r) \/ Works(r)

LEMMA SomeRunActs == Next => \E r \in Runs : Acts(r)
BY DEF Next, Acts, Works

-----------------------------------------------------------------------------
(* Types.                                                                  *)

Placed(r) ==
  /\ task'[r].in = "gate" => task'[r].node \in DOMAIN StageOf
  /\ r \in Goals => task'[r].node \in GoalNodes
  /\ r \in Swarms => task'[r].node \in SwarmNodes

\* Every step moves one run's task, inside its blueprint.
LEMMA TaskTyped ==
  ASSUME Typed, NEW r \in Runs, Acts(r)
  PROVE  /\ task' \in [Runs -> Tasks] /\ Placed(r)
         /\ \A q \in Runs : q # r => task'[q] = task[q]
<1> USE PipelinesAssumption DEF Placed, At
<1>1. TypeOK /\ task \in [Runs -> Tasks] /\ task[r] \in Tasks
  BY DEF Typed, TypeOK, Tasks
<1>2. /\ task[r].in = "gate" => task[r].node \in DOMAIN StageOf
      /\ r \in Goals => task[r].node \in GoalNodes
      /\ r \in Swarms => task[r].node \in SwarmNodes
  BY DEF Typed, Gated, Courses
<1> DEFINE Goal == /\ task' \in [Runs -> Tasks] /\ Placed(r)
                   /\ \A q \in Runs : q # r => task'[q] = task[q]
<1> SUFFICES Goal
  OBVIOUS
<1>3. CASE Raises(r)
  BY <1>1, <1>2, <1>3, Raised
<1>4. ASSUME NEW i \in {"body", "lane", "reap", "over"}, task' = [task EXCEPT ![r].in = i]
      PROVE  Goal
  BY <1>1, <1>2, <1>4, Staying
<1>5. ASSUME NEW node \in GoalNodes \cup SwarmNodes, NEW n \in 0..(CritiqueRounds + MaxFixRounds),
             Goes(r, node, n),
             r \in Goals => node \in GoalNodes, r \in Swarms => node \in SwarmNodes
      PROVE  Goal
  BY <1>1, <1>5, Going
<1>6. CASE UNCHANGED task
  BY <1>1, <1>2, <1>6
<1>7. ASSUME NEW t \in Tasks, task' = [task EXCEPT ![r] = t], t.in # "gate",
             r \in Goals => t.node \in GoalNodes, r \in Swarms => t.node \in SwarmNodes
      PROVE  Goal
  BY <1>1, <1>7, Replacing
<1>8. /\ task[r].n \in 0..(CritiqueRounds + MaxFixRounds)
      /\ 0 \in 0..(CritiqueRounds + MaxFixRounds) /\ 1 \in 0..(CritiqueRounds + MaxFixRounds)
      /\ task[r].n < CritiqueRounds => task[r].n + 1 \in 0..(CritiqueRounds + MaxFixRounds)
      /\ task[r].n < MaxFixRounds => task[r].n + 1 \in 0..(CritiqueRounds + MaxFixRounds)
  BY <1>1 DEF Tasks
<1> HIDE DEF Goal
<1>9. /\ task[r].node \in GoalNodes \ SwarmNodes => r \notin Swarms
      /\ task[r].node \in SwarmNodes \ GoalNodes => r \notin Goals
      /\ r \in Goals => r \notin Swarms
  BY <1>2
<1>10. ASSUME NEW l \in Roles, Spawns(r, l)
       PROVE  Goal
  BY <1>3, <1>4, <1>10 DEF Spawns
<1>11. CASE Step(r)
  <2>1. CASE GivesUp(r) \/ ExploreGivesUp(r)
    BY <2>1, <1>3 DEF GivesUp, ExploreGivesUp
  <2>2. CASE Enter(r) \/ Reap(r)
    BY <2>2, <1>4 DEF Enter, Reap
  <2>3. CASE Explore(r)
    BY <2>3, <1>4, <1>10 DEF Explore, Roles, Solo
  <2>4. CASE Plan(r) \/ Criticise(r) \/ Revise(r) \/ Develop(r) \/ Fix(r) \/ Decompose(r)
    BY <2>4, <1>10 DEF Plan, Criticise, Revise, Develop, Fix, Decompose, Roles, Solo
  <2>5. CASE HydrateGoal(r)
    BY <2>5, <1>5, <1>8, <1>9 DEF HydrateGoal, GoalNodes, SwarmNodes
  <2>6. CASE HydrateSwarm(r)
    BY <2>6, <1>5, <1>8, <1>9 DEF HydrateSwarm, GoalNodes, SwarmNodes
  <2>7. CASE Explored(r)
    BY <2>7, <1>5, <1>8, <1>9 DEF Explored, GoalNodes, SwarmNodes
  <2>8. CASE Planned(r)
    BY <2>8, <1>3, <1>5, <1>8, <1>9 DEF Planned, Finished, GoalNodes, SwarmNodes
  <2>9. CASE Criticised(r)
    BY <2>9, <1>5, <1>8, <1>9 DEF Criticised, Finished, GoalNodes, SwarmNodes
  <2>10. CASE Revised(r)
    BY <2>10, <1>5, <1>8, <1>9 DEF Revised, Finished, GoalNodes, SwarmNodes
  <2>11. CASE PresentGoal(r)
    BY <2>11, <1>5, <1>8, <1>9 DEF PresentGoal, GoalNodes, SwarmNodes
  <2>12. CASE Developed(r)
    BY <2>12, <1>5, <1>8, <1>9 DEF Developed, Finished, GoalNodes, SwarmNodes
  <2>13. CASE Verify(r)
    <3>1. CASE Goes(r, "ship", 0)
      BY <2>13, <3>1, <1>5, <1>8, <1>9 DEF Verify, GoalNodes, SwarmNodes
    <3>2. CASE Raises(r)
      BY <3>2, <1>3
    <3>3. CASE /\ task[r].n < MaxFixRounds
               /\ task' = [task EXCEPT ![r].node = "fix", ![r].n = @ + 1]
      <4> DEFINE t == [task[r] EXCEPT !.node = "fix", !.n = @ + 1]
      <4>1. t \in Tasks /\ t.in = "body" /\ t.node = "fix"
        BY <2>13, <1>1, <1>8, <3>3 DEF Verify, Tasks, GoalNodes, SwarmNodes
      <4>2. task' = [task EXCEPT ![r] = t]
        BY <3>3, <1>1
      <4>3. r \notin Swarms
        BY <2>13, <1>9 DEF Verify, GoalNodes, SwarmNodes
      <4> HIDE DEF t
      <4> QED
        BY <4>1, <4>2, <4>3, <1>7 DEF GoalNodes
    <3> QED
      BY <2>13, <3>1, <3>2, <3>3 DEF Verify
  <2>14. CASE Fixed(r)
    <3> DEFINE t == [task[r] EXCEPT !.node = "verify", !.in = "body"]
    <3>1. t \in Tasks /\ t.in = "body" /\ t.node = "verify"
      BY <2>14, <1>1 DEF Fixed, Finished, Tasks, GoalNodes, SwarmNodes
    <3>2. task' = [task EXCEPT ![r] = t]
      BY <2>14, <1>1 DEF Fixed, Finished, Tasks
    <3>3. r \notin Swarms
      BY <2>14, <1>9 DEF Fixed, Finished, GoalNodes, SwarmNodes
    <3> HIDE DEF t
    <3> QED
      BY <3>1, <3>2, <3>3, <1>7 DEF GoalNodes
  <2>15. CASE Decomposed(r)
    <3> DEFINE t == [task[r] EXCEPT !.node = "fanout", !.in = "lane"]
    <3>1. t \in Tasks /\ t.in = "lane" /\ t.node = "fanout"
      BY <2>15, <1>1 DEF Decomposed, Tasks, GoalNodes, SwarmNodes
    <3>2. task' = [task EXCEPT ![r] = t]
      BY <2>15, <1>1 DEF Decomposed, Tasks
    <3>3. r \notin Goals
      BY <2>15, <1>9 DEF Decomposed, GoalNodes, SwarmNodes
    <3> HIDE DEF t
    <3> QED
      BY <3>1, <3>2, <3>3, <1>7 DEF SwarmNodes
  <2>16. CASE Fannedout(r)
    <3> DEFINE t == [task[r] EXCEPT !.node = "collect"]
    <3>1. t \in Tasks /\ t.in = "lane" /\ t.node = "collect"
      BY <2>16, <1>1 DEF Fannedout, Tasks, GoalNodes, SwarmNodes
    <3>2. task' = [task EXCEPT ![r] = t]
      BY <2>16, <1>1 DEF Fannedout, Tasks
    <3>3. r \notin Goals
      BY <2>16, <1>9 DEF Fannedout, GoalNodes, SwarmNodes
    <3> HIDE DEF t
    <3> QED
      BY <3>1, <3>2, <3>3, <1>7 DEF SwarmNodes
  <2>17. CASE Ship(r)
    BY <2>17, <1>3, <1>4 DEF Ship
  <2>18. CASE Collected(r)
    BY <2>18, <1>5, <1>8, <1>9 DEF Collected, GoalNodes, SwarmNodes
  <2>19. CASE Synthesize(r)
    BY <2>19, <1>10, <1>5, <1>8, <1>9 DEF Synthesize, Roles, Solo, GoalNodes, SwarmNodes
  <2>20. CASE Synthesized(r)
    BY <2>20, <1>5, <1>8, <1>9 DEF Synthesized, Rested, GoalNodes, SwarmNodes
  <2>21. CASE Complete(r)
    BY <2>21, <1>3, <1>4 DEF Complete
  <2>22. CASE \E l \in Slices : Sees(r, l)
    <3>1. PICK l \in Slices : Sees(r, l)
      BY <2>22
    <3> DEFINE t == [task[r] EXCEPT !.seen = @ \cup {l}]
    <3>2. t \in Tasks /\ t.in = "lane" /\ t.node = task[r].node
      BY <3>1, <1>1 DEF Sees, Tasks
    <3>3. task' = [task EXCEPT ![r] = t]
      BY <3>1 DEF Sees
    <3> HIDE DEF t
    <3> QED
      BY <3>2, <3>3, <1>2, <1>7
  <2> QED
    BY <1>11, <2>1, <2>2, <2>3, <2>4, <2>5, <2>6, <2>7, <2>8, <2>9, <2>10, <2>11, <2>12, <2>13, <2>14, <2>15, <2>16, <2>17, <2>18, <2>19, <2>20, <2>21, <2>22 DEF Step
<1>12. CASE NodeBreaks(r)
  BY <1>3, <1>12 DEF NodeBreaks
<1>13. CASE Works(r)
  BY <1>3, <1>6, <1>13 DEF Works, SpawnSlice, SliceDropped, SliceBreaks, TurnEnds, TurnFails,
                           Parks, Unparks, IdleEnds, Wedges
<1> QED
  BY <1>11, <1>12, <1>13 DEF Acts

LEMMA StageTyped ==
  ASSUME Typed, NEW r \in Runs, Acts(r)
  PROVE  stage' \in [Runs -> Stages]
<1>1. TypeOK /\ stage \in [Runs -> Stages] /\ task[r] \in Tasks
  BY DEF Typed, TypeOK, Tasks, Stages
<1>2. CASE Raises(r)
  BY <1>1, <1>2, Raised
<1>3. CASE UNCHANGED stage
  BY <1>1, <1>3
<1>4. CASE Enter(r)
  <2>1. StageOf[task[r].node] \in Stages
    BY <1>4 DEF Enter, Typed, Gated, Stages
  <2> QED
    BY <1>1, <1>4, <2>1 DEF Enter
<1>5. CASE Ship(r)
  <2>1. "completed" \in Stages
    BY DEF Stages, StageOf
  <2> QED
    BY <1>1, <1>2, <1>5, <2>1 DEF Ship
<1>6. ASSUME NEW l \in Roles, Spawns(r, l)
      PROVE  stage' \in [Runs -> Stages]
  BY <1>2, <1>3, <1>6 DEF Spawns
<1>7. CASE Explore(r) \/ Plan(r) \/ Criticise(r) \/ Revise(r) \/ Develop(r) \/ Fix(r) \/ Decompose(r)
           \/ Synthesize(r)
  BY <1>3, <1>6, <1>7 DEF Explore, Plan, Criticise, Revise, Develop, Fix, Decompose, Synthesize,
                          Roles, Solo
<1>8. CASE GivesUp(r) \/ ExploreGivesUp(r) \/ NodeBreaks(r) \/ Planned(r) \/ Verify(r) \/ Complete(r)
  BY <1>2, <1>3, <1>8 DEF GivesUp, ExploreGivesUp, NodeBreaks, Planned, Verify, Complete
<1>9. CASE \/ Reap(r) \/ HydrateGoal(r) \/ Explored(r) \/ Criticised(r) \/ Revised(r) \/ PresentGoal(r)
           \/ Developed(r) \/ Fixed(r) \/ HydrateSwarm(r) \/ Decomposed(r) \/ Fannedout(r)
           \/ Collected(r) \/ Synthesized(r) \/ \E l \in Slices : Sees(r, l)
  BY <1>3, <1>9 DEF Reap, HydrateGoal, Explored, Criticised, Revised, PresentGoal, Developed, Fixed,
                    HydrateSwarm, Decomposed, Fannedout, Collected, Synthesized, Sees
<1>10. CASE Works(r)
  BY <1>2, <1>3, <1>10 DEF Works, SpawnSlice, SliceDropped, SliceBreaks, TurnEnds, TurnFails, Parks,
                           Unparks, IdleEnds, Wedges
<1> QED
  BY <1>4, <1>5, <1>7, <1>8, <1>9, <1>10 DEF Acts, Step

LEMMA LaneTyped ==
  ASSUME Typed, NEW r \in Runs, Acts(r)
  PROVE  /\ lane' \in [Runs -> [Roles -> Statuses]]
         /\ \A q \in Runs : q # r => lane'[q] = lane[q]
<1> DEFINE Goal == /\ lane' \in [Runs -> [Roles -> Statuses]]
                   /\ \A q \in Runs : q # r => lane'[q] = lane[q]
<1>1. TypeOK /\ lane \in [Runs -> [Roles -> Statuses]]
  BY DEF Typed, TypeOK, Statuses
<1> SUFFICES Goal
  OBVIOUS
<1>2. ASSUME NEW ls \in SUBSET Roles, NEW s \in Statuses, Sets(r, ls, s)
      PROVE  Goal
  BY <1>1, <1>2, Setting
<1>3. ASSUME NEW l \in Roles, NEW s \in Statuses, lane' = [lane EXCEPT ![r][l] = s]
      PROVE  Goal
  BY <1>1, <1>3, Moving
<1>4. CASE UNCHANGED lane
  BY <1>1, <1>4
<1> HIDE DEF Goal
<1>5. Slices \subseteq Roles /\ Solo \subseteq Roles
  BY DEF Roles
<1>6. {"running", "wedged", "idle", "parked", "completed", "failed", "none", "waiting"} = Statuses
  BY DEF Statuses, Live, Held, Closed
<1>7. ASSUME NEW l \in Roles, Spawns(r, l)
      PROVE  Goal
  BY <1>3, <1>4, <1>6, <1>7 DEF Spawns
<1>8. ASSUME NEW ls \in SUBSET Roles, Finishes(r, ls, "completed")
      PROVE  Goal
  <2>1. Unfinished(r, ls) \in SUBSET Roles
    BY DEF Unfinished
  <2> QED
    BY <1>2, <1>6, <1>8, <2>1 DEF Finishes
<1>9. CASE Plan(r) \/ Criticise(r) \/ Revise(r) \/ Develop(r) \/ Fix(r) \/ Decompose(r) \/ Synthesize(r)
  BY <1>4, <1>5, <1>7, <1>9 DEF Plan, Criticise, Revise, Develop, Fix, Decompose, Synthesize, Solo
<1>10. CASE Explore(r)
  BY <1>2, <1>5, <1>6, <1>7, <1>10 DEF Explore, Solo
<1>11. CASE Explored(r) \/ Planned(r) \/ Criticised(r) \/ Revised(r) \/ Developed(r) \/ Fixed(r)
            \/ Complete(r)
  <2>1. {"one"} \in SUBSET Roles /\ Slices \in SUBSET Roles /\ Slices \cup {"one"} \in SUBSET Roles
    BY <1>5 DEF Solo
  <2> QED
    BY <1>4, <1>8, <1>11, <2>1 DEF Explored, Planned, Criticised, Revised, Developed, Fixed, Complete,
                                   Finished
<1>12. CASE Reap(r) \/ Decomposed(r) \/ Collected(r)
  <2>1. {l \in Roles : lane[r][l] \in Live} \in SUBSET Roles
    OBVIOUS
  <2>2. Explorers(r) \ task[r].seen \in SUBSET Roles /\ \A some \in SUBSET Slices : some \in SUBSET Roles
    BY <1>5 DEF Explorers
  <2> QED
    BY <1>2, <1>6, <1>12, <2>1, <2>2 DEF Reap, Decomposed, Collected
<1>13. CASE \/ Enter(r) \/ GivesUp(r) \/ HydrateGoal(r) \/ ExploreGivesUp(r) \/ PresentGoal(r) \/ Verify(r)
            \/ Ship(r) \/ HydrateSwarm(r) \/ Fannedout(r) \/ Synthesized(r) \/ NodeBreaks(r)
            \/ \E l \in Slices : Sees(r, l)
  BY <1>4, <1>13 DEF Enter, GivesUp, HydrateGoal, ExploreGivesUp, PresentGoal, Verify, Ship,
                     HydrateSwarm, Fannedout, Synthesized, NodeBreaks, Sees
<1>14. CASE Works(r)
  BY <1>3, <1>5, <1>6, <1>14 DEF Works, SpawnSlice, SliceDropped, SliceBreaks, TurnEnds, TurnFails,
                                 Parks, Unparks, IdleEnds, Wedges
<1> QED
  BY <1>9, <1>10, <1>11, <1>12, <1>13, <1>14 DEF Acts, Step

\* Only these steps write what a run has to show for itself.
LEMMA OutcomesTyped ==
  ASSUME Typed, NEW r \in Runs, Acts(r)
  PROVE  /\ steps' \in [Runs -> {"none", "pending", "done"}]
         /\ won' \in [Runs -> BOOLEAN] /\ green' \in [Runs -> BOOLEAN]
         /\ shipped' \in [Runs -> BOOLEAN] /\ sunk' \in [Runs -> BOOLEAN]
         /\ \A q \in Runs : q # r => /\ steps'[q] = steps[q] /\ green'[q] = green[q]
                                     /\ shipped'[q] = shipped[q] /\ sunk'[q] = sunk[q]
<1>1. /\ steps \in [Runs -> {"none", "pending", "done"}]
      /\ won \in [Runs -> BOOLEAN] /\ green \in [Runs -> BOOLEAN]
      /\ shipped \in [Runs -> BOOLEAN] /\ sunk \in [Runs -> BOOLEAN]
  BY DEF Typed, TypeOK
<1>2. /\ UNCHANGED steps \/ steps' = [steps EXCEPT ![r] = "pending"] \/ steps' = [steps EXCEPT ![r] = "done"]
      /\ UNCHANGED won \/ \E b \in BOOLEAN : won' = [won EXCEPT ![r] = @ \/ b]
      /\ UNCHANGED green \/ \E b \in BOOLEAN : green' = [green EXCEPT ![r] = b]
      /\ UNCHANGED shipped \/ shipped' = [shipped EXCEPT ![r] = TRUE]
      /\ UNCHANGED sunk \/ sunk' = [sunk EXCEPT ![r] = TRUE]
  <2>1. CASE \/ Enter(r) \/ GivesUp(r) \/ Reap(r) \/ HydrateGoal(r) \/ Explore(r) \/ ExploreGivesUp(r)
             \/ Plan(r) \/ Criticise(r) \/ Revise(r) \/ Develop(r) \/ Fix(r) \/ HydrateSwarm(r)
             \/ Decompose(r) \/ Decomposed(r) \/ Fannedout(r) \/ Collected(r) \/ Synthesize(r)
             \/ Synthesized(r) \/ \E l \in Slices : Sees(r, l)
    BY <2>1 DEF Enter, GivesUp, Reap, HydrateGoal, Explore, ExploreGivesUp, Plan, Criticise, Revise,
                Develop, Fix, HydrateSwarm, Decompose, Decomposed, Fannedout, Collected, Synthesize,
                Synthesized, Sees, Spawns, outcomes
  <2>2. ASSUME NEW ls, Finishes(r, ls, "completed")
        PROVE  \E b \in BOOLEAN : won' = [won EXCEPT ![r] = @ \/ b]
    BY <2>2 DEF Finishes
  <2>3. CASE Explored(r) \/ Planned(r) \/ Criticised(r) \/ Revised(r) \/ Developed(r) \/ Fixed(r) \/ Complete(r)
    BY <2>2, <2>3 DEF Explored, Planned, Criticised, Revised, Developed, Fixed, Complete, Finished
  <2>4. CASE PresentGoal(r) \/ Verify(r) \/ Ship(r)
    BY <2>4 DEF PresentGoal, Verify, Ship
  <2>5. CASE NodeBreaks(r) \/ Works(r)
    BY <2>5, <1>1 DEF NodeBreaks, Works, SpawnSlice, SliceDropped, SliceBreaks, TurnEnds, TurnFails, Parks,
                Unparks, IdleEnds, Wedges, outcomes
  <2> QED
    BY <2>1, <2>3, <2>4, <2>5 DEF Acts, Step
<1> QED
  BY <1>1, <1>2

LEMMA Typing == Typed /\ Next => Typed'
<1> SUFFICES ASSUME Typed, NEW r \in Runs, Acts(r) PROVE Typed'
  BY SomeRunActs
<1>1. TypeOK'
  BY TaskTyped, StageTyped, LaneTyped, OutcomesTyped DEF TypeOK, Tasks, Stages, Statuses
<1>2. Gated' /\ Courses'
  BY TaskTyped DEF Gated, Courses, Placed, Typed, Runs
<1> QED
  BY <1>1, <1>2 DEF Typed

-----------------------------------------------------------------------------
(* Green.                                                                  *)

\* Nothing but a worker or a slice of it acts in a pipeline that is over.
LEMMA OverStays ==
  ASSUME NEW r \in Runs, Acts(r), task[r].in = "over"
  PROVE  Works(r) /\ UNCHANGED <<task, steps, green, shipped>>
<1>1. ~Step(r) /\ ~NodeBreaks(r)
  BY DEF Step, NodeBreaks, Enter, GivesUp, Reap, HydrateGoal, Explore, Explored, ExploreGivesUp, Plan,
         Criticise, Revise, Develop, Fix, Planned, Criticised, Revised, PresentGoal, Developed, Verify,
         Fixed, Ship, HydrateSwarm, Decompose, Decomposed, Fannedout, Collected, Synthesize, Synthesized,
         Complete, Sees, Finished, Rested, At
<1>2. Works(r)
  BY <1>1 DEF Acts
<1> QED
  BY <1>2 DEF Works, SpawnSlice, SliceDropped, SliceBreaks, TurnEnds, TurnFails, Parks, Unparks,
              IdleEnds, Wedges, outcomes

LEMMA VerifiedStays ==
  ASSUME Typed, Verified, NEW r \in Goals, Acts(r), task[r].in # "over"
  PROVE  /\ task'[r].node = "ship" /\ task'[r].in \in {"gate", "body"} => green'[r]
         /\ shipped'[r] => task'[r].in = "over" /\ green'[r] /\ steps'[r] = "done"
<1> DEFINE Ready == task'[r].node = "ship" /\ task'[r].in \in {"gate", "body"} => green'[r]
<1>1. TypeOK /\ r \in Runs /\ task[r] \in Tasks /\ task[r].node \in GoalNodes
  BY DEF Typed, TypeOK, Tasks, Courses, Runs
<1>2. ~shipped[r] /\ (task[r].node = "ship" /\ task[r].in \in {"gate", "body"} => green[r])
  BY DEF Verified
<1>3. shipped \in [Runs -> BOOLEAN] /\ green \in [Runs -> BOOLEAN]
  BY DEF Typed, TypeOK
<1>4. ASSUME Raises(r), UNCHANGED shipped
      PROVE  Ready /\ ~shipped'[r]
  BY <1>1, <1>2, <1>4, Raised
<1>5. ASSUME NEW i \in {"lane", "reap", "over"}, task' = [task EXCEPT ![r].in = i], UNCHANGED shipped
      PROVE  Ready /\ ~shipped'[r]
  BY <1>1, <1>2, <1>5, Staying
<1>6. ASSUME NEW node \in GoalNodes \ {"ship"}, NEW n \in 0..(CritiqueRounds + MaxFixRounds),
             Goes(r, node, n), UNCHANGED shipped
      PROVE  Ready /\ ~shipped'[r]
  BY <1>1, <1>2, <1>6, Going
<1>7. CASE UNCHANGED <<task, green, shipped>>
  BY <1>1, <1>2, <1>7
<1>8. ASSUME NEW l \in Roles, Spawns(r, l)
      PROVE  Ready /\ ~shipped'[r]
  <2>1. UNCHANGED shipped
    BY <1>8 DEF Spawns, outcomes
  <2>2. CASE Raises(r)
    BY <1>4, <2>1, <2>2
  <2>3. CASE task' = [task EXCEPT ![r].in = "lane"]
    BY <1>5, <2>1, <2>3
  <2> QED
    BY <1>8, <2>2, <2>3 DEF Spawns
<1>9. CASE Verify(r)
  <2>1. UNCHANGED shipped
    BY <1>9 DEF Verify
  <2>2. CASE Raises(r)
    BY <1>4, <2>1, <2>2
  <2>3. CASE Goes(r, "ship", 0) /\ green' = [green EXCEPT ![r] = TRUE]
    BY <1>1, <1>2, <1>3, <2>1, <2>3
  <2>4. CASE task' = [task EXCEPT ![r].node = "fix", ![r].n = @ + 1]
    <3>1. task'[r].node = "fix"
      BY <1>1, <2>4 DEF TypeOK, Tasks
    <3> QED
      BY <1>2, <2>1, <3>1
  <2> QED
    BY <1>9, <2>2, <2>3, <2>4 DEF Verify
<1>10. CASE Ship(r)
  <2>1. CASE Raises(r) /\ UNCHANGED shipped
    BY <1>4, <2>1
  <2>2. CASE steps[r] = "done" /\ task' = [task EXCEPT ![r].in = "over"]
    <3>1. task'[r].in = "over"
      BY <1>1, <2>2, Staying
    <3>2. green[r] /\ UNCHANGED <<green, steps>>
      BY <1>2, <1>10 DEF Ship, At
    <3> QED
      BY <2>2, <3>1, <3>2
  <2> QED
    BY <1>10, <2>1, <2>2 DEF Ship
<1>11. CASE Enter(r)
  <2>1. task'[r].node = task[r].node
    BY <1>1, <1>11, Staying DEF Enter
  <2> QED
    BY <1>2, <1>11, <2>1 DEF Enter, outcomes
<1>12. CASE \/ Explore(r) \/ Plan(r) \/ Criticise(r) \/ Revise(r) \/ Develop(r) \/ Fix(r)
  BY <1>5, <1>8, <1>12 DEF Explore, Plan, Criticise, Revise, Develop, Fix, Roles, Solo, outcomes
<1>13. CASE GivesUp(r) \/ ExploreGivesUp(r) \/ NodeBreaks(r) \/ Reap(r)
  BY <1>4, <1>5, <1>13 DEF GivesUp, ExploreGivesUp, NodeBreaks, Reap, outcomes
<1>14. /\ task[r].n \in 0..(CritiqueRounds + MaxFixRounds)
       /\ 0 \in 0..(CritiqueRounds + MaxFixRounds) /\ 1 \in 0..(CritiqueRounds + MaxFixRounds)
       /\ task[r].n < CritiqueRounds => task[r].n + 1 \in 0..(CritiqueRounds + MaxFixRounds)
  BY <1>1, PipelinesAssumption DEF Tasks
<1>15. CASE HydrateGoal(r) \/ Explored(r) \/ Planned(r) \/ Criticised(r) \/ PresentGoal(r) \/ Developed(r)
  BY <1>4, <1>6, <1>14, <1>15 DEF HydrateGoal, Explored, Planned, Criticised, PresentGoal, Developed,
                                  Finished, GoalNodes, outcomes
<1>16. CASE Revised(r)
  BY <1>6, <1>14, <1>16 DEF Revised, GoalNodes, outcomes
<1>17. CASE Fixed(r)
  <2>1. task'[r].node = "verify"
    BY <1>1, <1>17 DEF Fixed, TypeOK, Tasks
  <2> QED
    BY <1>2, <1>17, <2>1 DEF Fixed
<1>18. CASE \E l \in Slices : Sees(r, l)
  <2>1. PICK l \in Slices : Sees(r, l)
    BY <1>18
  <2>2. task'[r].node # "ship"
    BY <1>1, <2>1 DEF Sees, TypeOK, Tasks
  <2> QED
    BY <1>2, <2>1, <2>2 DEF Sees, outcomes
<1>19. ~HydrateSwarm(r) /\ ~Decompose(r) /\ ~Decomposed(r) /\ ~Fannedout(r) /\ ~Collected(r)
       /\ ~Synthesize(r) /\ ~Synthesized(r) /\ ~Complete(r)
  BY <1>1, PipelinesAssumption DEF HydrateSwarm, Decompose, Decomposed, Fannedout, Collected, Synthesize,
              Synthesized, Complete, At, GoalNodes
<1>20. CASE Works(r)
  BY <1>4, <1>7, <1>20 DEF Works, SpawnSlice, SliceDropped, SliceBreaks, TurnEnds, TurnFails, Parks, Unparks,
                           IdleEnds, Wedges, outcomes
<1> QED
  BY <1>9, <1>10, <1>11, <1>12, <1>13, <1>15, <1>16, <1>17, <1>18, <1>19, <1>20 DEF Acts, Step

LEMMA Verifying == Typed /\ Verified /\ Next => Verified'
<1> SUFFICES ASSUME Typed, Verified, NEW r \in Runs, Acts(r), NEW q \in Goals
             PROVE  /\ task'[q].node = "ship" /\ task'[q].in \in {"gate", "body"} => green'[q]
                    /\ shipped'[q] => task'[q].in = "over" /\ green'[q] /\ steps'[q] = "done"
  BY SomeRunActs DEF Verified
<1>1. CASE q # r
  <2>1. /\ task'[q] = task[q] /\ green'[q] = green[q]
        /\ shipped'[q] = shipped[q] /\ steps'[q] = steps[q]
    BY <1>1, TaskTyped, OutcomesTyped DEF Runs
  <2> QED
    BY <2>1 DEF Verified
<1>2. CASE q = r /\ task[r].in = "over"
  BY <1>2, OverStays DEF Verified
<1>3. CASE q = r /\ task[r].in # "over"
  BY <1>3, VerifiedStays
<1> QED
  BY <1>1, <1>2, <1>3

-----------------------------------------------------------------------------
(* Lanes.                                                                  *)

\* What each lane is after a run ends its lanes of a kind.
LEMMA Finishing ==
  ASSUME Typed, NEW r \in Runs, NEW ls \in SUBSET Roles, Finishes(r, ls, "completed")
  PROVE  \A l \in Roles :
           lane'[r][l] = IF l \in ls /\ lane[r][l] \in Live THEN "completed" ELSE lane[r][l]
<1>1. Unfinished(r, ls) \in SUBSET Roles /\ "completed" \in Statuses /\ TypeOK
  BY DEF Unfinished, Statuses, Closed, Typed
<1>2. \A l \in Roles : l \in Unfinished(r, ls) <=> l \in ls /\ lane[r][l] \in Live
  BY DEF Unfinished
<1> QED
  BY <1>1, <1>2, Setting DEF Finishes

\* Only a fan-out that breaks sinks.
LEMMA Unsunk ==
  ASSUME NEW r \in Runs, Step(r) \/ NodeBreaks(r)
  PROVE  sunk' = sunk
BY DEF Step, Enter, GivesUp, Reap, HydrateGoal, Explore, Explored, ExploreGivesUp, Plan,
       Criticise, Revise, Develop, Fix, Planned, Criticised, Revised, PresentGoal, Developed, Verify,
       Fixed, Ship, HydrateSwarm, Decompose, Decomposed, Fannedout, Collected, Synthesize, Synthesized,
       Complete, Sees, Spawns, NodeBreaks

\* A worker's own step moves a lane that lives, and a slice's one that waits.
LEMMA WorksTidy ==
  ASSUME Typed, NEW r \in Runs, Tidy(r), Works(r)
  PROVE  Tidy(r)'
<1>1. TypeOK /\ lane \in [Runs -> [Roles -> Statuses]] /\ sunk \in [Runs -> BOOLEAN]
  BY DEF Typed, TypeOK, Statuses
<1>2. /\ {"running", "wedged", "idle", "parked"} = Live /\ Closed = {"completed", "failed"}
      /\ Statuses = Live \cup Closed \cup {"none", "waiting"}
      /\ Slices \subseteq Roles /\ {"one", "lead", "synth"} \subseteq Roles
      /\ Slices \cap {"one", "lead", "synth"} = {}
  BY PipelinesAssumption DEF Statuses, Live, Held, Closed, Roles, Solo
<1>3. ASSUME NEW l \in Slices, SliceBreaks(r, l)
      PROVE  Tidy(r)'
  <2>1. /\ task'[r].in = "reap" /\ task'[r].node = task[r].node /\ task'[r].seen = task[r].seen
        /\ sunk'[r] = TRUE
    BY <1>1, <1>3, Raised DEF SliceBreaks
  <2>2. \A m \in Roles : lane'[r][m] = IF m = l THEN "none" ELSE lane[r][m]
    BY <1>1, <1>2, <1>3, Moving DEF SliceBreaks
  <2>3. task[r].in = "lane"
    BY <1>3 DEF SliceBreaks
  <2> QED
    BY <1>2, <2>1, <2>2, <2>3 DEF Tidy, Named, Sunken, Gathered, Queued, Alone
<1>4. ASSUME NEW l \in Slices, NEW s \in {"running", "none"}, lane[r][l] = "waiting",
             lane' = [lane EXCEPT ![r][l] = s], UNCHANGED <<task, sunk>>
      PROVE  Tidy(r)'
  <2>1. \A m \in Roles : lane'[r][m] = IF m = l THEN s ELSE lane[r][m]
    BY <1>1, <1>2, <1>4, Moving
  <2>2. task'[r] = task[r] /\ sunk'[r] = sunk[r]
    BY <1>4
  <2>3. \/ sunk[r]
        \/ task[r].in = "lane" /\ task[r].node \in {"explore", "fanout"}
    BY <1>4 DEF Tidy, Queued
  <2>4. r \in Goals => task[r].node \in GoalNodes
    BY DEF Typed, Courses
  <2>5. Named(r)' /\ Sunken(r)' /\ Gathered(r)'
    BY <1>2, <2>1, <2>2 DEF Tidy, Named, Sunken, Gathered
  <2>6. Queued(r)'
    BY <1>2, <2>1, <2>2, <1>4 DEF Tidy, Queued
  <2>7. Alone(r)'
    BY <1>2, <2>1, <2>2, <2>3, <2>4 DEF Tidy, Alone, Sunken, GoalNodes, Unmanned
  <2> QED
    BY <2>5, <2>6, <2>7 DEF Tidy
<1>5. ASSUME NEW l \in Roles, NEW s \in Live \cup Closed, lane[r][l] \in Live,
             lane' = [lane EXCEPT ![r][l] = s], UNCHANGED <<task, sunk>>
      PROVE  Tidy(r)'
  <2>1. \A m \in Roles : lane'[r][m] = IF m = l THEN s ELSE lane[r][m]
    BY <1>1, <1>2, <1>5, Moving
  <2>2. task'[r] = task[r] /\ sunk'[r] = sunk[r]
    BY <1>5
  <2>3. Named(r)' /\ Sunken(r)' /\ Gathered(r)'
    BY <1>2, <1>5, <2>1, <2>2 DEF Tidy, Named, Sunken, Gathered
  <2>4. Queued(r)'
    BY <1>2, <1>5, <2>1, <2>2 DEF Tidy, Queued
  <2>5. Alone(r)'
    BY <1>2, <1>5, <2>1, <2>2 DEF Tidy, Alone, Unmanned
  <2> QED
    BY <2>3, <2>4, <2>5 DEF Tidy
<1> QED
  BY <1>2, <1>3, <1>4, <1>5 DEF Works, SpawnSlice, SliceDropped, TurnEnds, TurnFails, Parks, Unparks,
                                IdleEnds, Wedges, outcomes

\* The blueprint's own steps.
LEMMA StepTidy ==
  ASSUME Typed, NEW r \in Runs, Tidy(r), Step(r) \/ NodeBreaks(r)
  PROVE  Tidy(r)'
<1> DEFINE Quiet == \A l \in Slices : lane'[r][l] # "waiting"
<1>1. /\ TypeOK /\ lane \in [Runs -> [Roles -> Statuses]] /\ sunk \in [Runs -> BOOLEAN]
      /\ task \in [Runs -> Tasks] /\ task[r] \in Tasks
  BY DEF Typed, TypeOK, Statuses, Tasks
<1>2. /\ {"running", "wedged", "idle", "parked"} = Live /\ Closed = {"completed", "failed"}
      /\ Statuses = Live \cup Closed \cup {"none", "waiting"}
      /\ Roles = Slices \cup {"one", "lead", "synth"} /\ Solo = {"one", "lead", "synth"}
      /\ Slices \cap {"one", "lead", "synth"} = {}
  BY PipelinesAssumption DEF Statuses, Live, Held, Closed, Roles, Solo
<1>3. /\ sunk'[r] = sunk[r]
      /\ r \in Goals => r \notin Swarms /\ task[r].node \in GoalNodes
      /\ r \in Swarms => r \notin Goals /\ task[r].node \in SwarmNodes
      /\ r \in Goals \/ r \in Swarms
  BY Unsunk, PipelinesAssumption DEF Typed, Courses, Runs
\* Before its lane starts a node has nobody who waits, and a goal nobody at all.
<1>4. ASSUME task[r].in \in {"gate", "body"}
      PROVE  /\ ~sunk[r] /\ task[r].seen = {} /\ \A l \in Slices : lane[r][l] # "waiting"
             /\ r \in Goals => Unmanned(r, Roles)
  BY <1>4 DEF Tidy, Sunken, Gathered, Queued, Alone
<1>5. ASSUME task[r].in = "lane"
      PROVE  /\ ~sunk[r]
             /\ (task[r].node \notin {"explore", "fanout"} \/ task[r].seen # {}) =>
                  \A l \in Slices : lane[r][l] # "waiting"
             /\ \A l \in Slices : lane[r][l] = "waiting" => lane[r]["one"] \notin Live
             /\ r \in Goals /\ task[r].node # "explore" => Unmanned(r, Roles \ {"one"})
  BY <1>5 DEF Tidy, Sunken, Queued, Alone
<1>6. ASSUME Raises(r), Named(r)', Quiet
      PROVE  Tidy(r)'
  <2>1. task'[r].in = "reap" /\ task'[r].node = task[r].node /\ task'[r].seen = task[r].seen
    BY <1>1, <1>6, Raised
  <2> QED
    BY <1>3, <1>6, <2>1 DEF Tidy, Sunken, Gathered, Queued, Alone
<1>7. ASSUME task'[r].in \in {"gate", "body"}, task'[r].seen = {}, ~sunk[r], Named(r)', Quiet,
             r \in Goals => Unmanned(r, Roles)'
      PROVE  Tidy(r)'
  BY <1>3, <1>7 DEF Tidy, Sunken, Gathered, Queued, Alone
<1>8. ASSUME NEW node \in GoalNodes \cup SwarmNodes, NEW n \in 0..(CritiqueRounds + MaxFixRounds),
             Goes(r, node, n), ~sunk[r], Named(r)', Quiet, r \in Goals => Unmanned(r, Roles)'
      PROVE  Tidy(r)'
  <2>1. task'[r].in \in {"gate", "body"} /\ task'[r].seen = {}
    BY <1>1, <1>8, Going
  <2> QED
    BY <1>7, <1>8, <2>1
<1>9. ASSUME UNCHANGED lane
      PROVE  Named(r)' /\ ((\A l \in Slices : lane[r][l] # "waiting") => Quiet)
  BY <1>9 DEF Tidy, Named
<1>10. ASSUME Raises(r), UNCHANGED lane, task[r].in \in {"gate", "body"}
       PROVE  Tidy(r)'
  BY <1>4, <1>6, <1>9, <1>10
<1>11. ASSUME NEW node \in GoalNodes \cup SwarmNodes, Goes(r, node, 0), UNCHANGED lane,
              task[r].in \in {"gate", "body"}
       PROVE  Tidy(r)'
  <2>1. r \in Goals => Unmanned(r, Roles)'
    BY <1>4, <1>11 DEF Unmanned
  <2>2. 0 \in 0..(CritiqueRounds + MaxFixRounds)
    BY PipelinesAssumption
  <2> QED
    BY <1>4, <1>8, <1>9, <1>11, <2>1, <2>2
<1>12. ASSUME NEW l \in Solo, Spawns(r, l), task[r].in = "body",
              r \in Goals => l = "one", r \in Swarms => l # "one"
       PROVE  Tidy(r)'
  <2>1. CASE Raises(r) /\ UNCHANGED lane
    BY <1>10, <1>12, <2>1
  <2>2. CASE lane' = [lane EXCEPT ![r][l] = "running"] /\ task' = [task EXCEPT ![r].in = "lane"]
    <3>1. \A m \in Roles : lane'[r][m] = IF m = l THEN "running" ELSE lane[r][m]
      BY <1>1, <1>2, <1>12, <2>2, Moving
    <3>2. task'[r].in = "lane" /\ task'[r].node = task[r].node /\ task'[r].seen = task[r].seen
      BY <1>1, <2>2, Staying
    <3>3. Quiet /\ Named(r)'
      BY <1>2, <1>3, <1>4, <1>12, <3>1 DEF Tidy, Named
    <3>4. Alone(r)'
      BY <1>2, <1>4, <1>12, <3>1, <3>2 DEF Alone, Unmanned
    <3> QED
      BY <1>3, <1>4, <1>12, <3>2, <3>3, <3>4 DEF Tidy, Sunken, Gathered, Queued
  <2> QED
    BY <1>12, <2>1, <2>2 DEF Spawns
<1>13. ASSUME NEW ls \in SUBSET Roles, Finishes(r, ls, "completed")
       PROVE  /\ Named(r)' /\ ((\A l \in Slices : lane[r][l] # "waiting") => Quiet)
              /\ \A l \in Roles : lane'[r][l] \in Live => lane[r][l] \in Live /\ l \notin ls
  <2>1. \A l \in Roles :
          lane'[r][l] = IF l \in ls /\ lane[r][l] \in Live THEN "completed" ELSE lane[r][l]
    BY <1>13, Finishing
  <2> QED
    BY <1>2, <2>1 DEF Tidy, Named
\* The lane that was awaited is ended: nobody is left.
<1>14. ASSUME NEW node \in GoalNodes \ {"explore"}, Finished(r, node)
       PROVE  /\ ~sunk[r] /\ task[r].seen = {}
              /\ Named(r)' /\ Quiet /\ (r \in Goals => Unmanned(r, Roles)')
  <2>1. task[r].node = node /\ task[r].in = "lane" /\ Finishes(r, {"one"}, "completed")
    BY <1>14 DEF Finished, Rested
  <2>2. {"one"} \in SUBSET Roles
    BY <1>2
  <2>3. \A l \in Slices : lane[r][l] # "waiting"
    BY <1>5, <2>1 DEF GoalNodes
  <2>4. r \in Goals => Unmanned(r, Roles)'
    BY <1>5, <1>13, <2>1, <2>2 DEF Unmanned
  <2> QED
    BY <1>5, <1>13, <2>1, <2>2, <2>3, <2>4 DEF Tidy, Gathered, GoalNodes
<1>15. /\ task[r].n \in 0..(CritiqueRounds + MaxFixRounds)
       /\ 0 \in 0..(CritiqueRounds + MaxFixRounds) /\ 1 \in 0..(CritiqueRounds + MaxFixRounds)
       /\ task[r].n < CritiqueRounds => task[r].n + 1 \in 0..(CritiqueRounds + MaxFixRounds)
  BY <1>1, PipelinesAssumption DEF Tasks
<1> HIDE DEF Quiet
<1>16. CASE Enter(r)
  <2>1. task'[r].in = "body" /\ task'[r].seen = task[r].seen /\ task[r].in = "gate" /\ UNCHANGED lane
    BY <1>1, <1>16, Staying DEF Enter
  <2>2. r \in Goals => Unmanned(r, Roles)'
    BY <1>4, <2>1 DEF Unmanned
  <2> QED
    BY <1>4, <1>7, <1>9, <2>1, <2>2
<1>17. CASE Reap(r)
  <2>1. task'[r].in = "over" /\ task'[r].node = task[r].node /\ task'[r].seen = task[r].seen
        /\ task[r].in = "reap"
    BY <1>1, <1>17, Staying DEF Reap
  <2>2. PICK ls : ls = {l \in Roles : lane[r][l] \in Live} /\ Sets(r, ls, "failed")
    BY <1>17 DEF Reap
  <2>3. \A l \in Roles : lane'[r][l] = IF lane[r][l] \in Live THEN "failed" ELSE lane[r][l]
    BY <1>1, <1>2, <2>2, Setting
  <2>4. Named(r)' /\ Sunken(r)' /\ Gathered(r)'
    BY <1>2, <1>3, <2>1, <2>3 DEF Tidy, Named, Sunken, Gathered
  <2>5. Queued(r)' /\ Alone(r)'
    BY <1>2, <1>3, <2>1, <2>3 DEF Tidy, Queued, Alone, Unmanned
  <2> QED
    BY <2>4, <2>5 DEF Tidy
<1>18. CASE GivesUp(r)
  <2>1. task[r].in = "lane" /\ Raises(r) /\ UNCHANGED lane
    BY <1>18 DEF GivesUp
  <2>2. PICK l \in Awaited(r) : lane[r][l] = "wedged"
    BY <1>18 DEF GivesUp
  <2>3. task[r].node # "fanout" /\ (task[r].node = "explore" => l = "one")
    BY DEF Awaited
  <2>4. \A m \in Slices : lane[r][m] # "waiting"
    BY <1>2, <1>5, <2>1, <2>2, <2>3
  <2> QED
    BY <1>6, <1>9, <2>1, <2>4
<1>19. CASE ExploreGivesUp(r)
  BY <1>6, <1>9, <1>19 DEF ExploreGivesUp
<1>20. CASE NodeBreaks(r)
  BY <1>10, <1>20 DEF NodeBreaks
<1>21. CASE HydrateGoal(r) \/ PresentGoal(r) \/ HydrateSwarm(r)
  BY <1>11, <1>21 DEF HydrateGoal, PresentGoal, HydrateSwarm, At, GoalNodes, SwarmNodes
<1>22. CASE Explore(r)
  <2>1. task[r].in = "body" /\ task[r].node = "explore" /\ r \notin Swarms
    BY <1>3, <1>22 DEF Explore, At, SwarmNodes
  <2>2. CASE Spawns(r, "one")
    BY <1>2, <1>12, <2>1, <2>2
  <2>3. CASE Sets(r, Slices, "waiting") /\ task' = [task EXCEPT ![r].in = "lane"]
    <3>1. task'[r].in = "lane" /\ task'[r].node = "explore" /\ task'[r].seen = {}
      BY <1>1, <1>4, <2>1, <2>3, Staying
    <3>2. Slices \in SUBSET Roles /\ "waiting" \in Statuses
      BY <1>2
    <3>3. \A l \in Roles : lane'[r][l] = IF l \in Slices THEN "waiting" ELSE lane[r][l]
      BY <1>1, <2>3, <3>2, Setting
    <3>4. lane'[r]["one"] \notin Live
      BY <1>2, <1>3, <1>4, <2>1, <3>3 DEF Unmanned
    <3>5. Named(r)'
      BY <1>2, <2>1, <3>3 DEF Tidy, Named
    <3> QED
      BY <1>3, <1>4, <2>1, <3>1, <3>4, <3>5 DEF Tidy, Sunken, Gathered, Queued, Alone
  <2> QED
    BY <1>22, <2>2, <2>3 DEF Explore
<1>23. CASE \/ Plan(r) \/ Criticise(r) \/ Revise(r) \/ Develop(r) \/ Fix(r)
  BY <1>2, <1>3, <1>12, <1>23 DEF Plan, Criticise, Revise, Develop, Fix, At, SwarmNodes
<1>24. CASE Decompose(r)
  BY <1>2, <1>3, <1>12, <1>24 DEF Decompose, At, GoalNodes
<1>25. CASE Explored(r)
  <2>1. /\ task[r].in = "lane" /\ Finishes(r, Slices \cup {"one"}, "completed") /\ Goes(r, "plan", 0)
        /\ Explorers(r) \subseteq task[r].seen
    BY <1>25 DEF Explored, At
  <2>2. Slices \cup {"one"} \in SUBSET Roles
    BY <1>2
  <2>3. \A l \in Slices : lane[r][l] # "waiting"
    BY <1>5, <2>1 DEF Explorers
  <2>4. r \in Goals => Unmanned(r, Roles)'
    <3>1. \A l \in Roles : lane'[r][l] \in Live => lane[r][l] \in Live /\ l \in {"lead", "synth"}
      BY <1>2, <1>13, <2>1, <2>2
    <3> QED
      BY <1>2, <3>1 DEF Tidy, Named, Unmanned
  <2> QED
    BY <1>5, <1>8, <1>13, <1>15, <2>1, <2>2, <2>3, <2>4 DEF GoalNodes
<1>26. CASE Planned(r)
  BY <1>6, <1>8, <1>14, <1>15, <1>26 DEF Planned, GoalNodes
<1>27. CASE Criticised(r)
  BY <1>8, <1>14, <1>15, <1>27 DEF Criticised, GoalNodes
<1>28. CASE Revised(r)
  BY <1>8, <1>14, <1>15, <1>28 DEF Revised, GoalNodes
<1>29. CASE Developed(r)
  BY <1>8, <1>14, <1>15, <1>29 DEF Developed, GoalNodes
<1>30. CASE Fixed(r)
  <2>1. task'[r].in = "body" /\ task'[r].seen = task[r].seen
    BY <1>1, <1>30 DEF Fixed, TypeOK, Tasks
  <2>2. Finished(r, "fix")
    BY <1>30 DEF Fixed
  <2> QED
    BY <1>7, <1>14, <2>1, <2>2 DEF GoalNodes
<1>31. CASE Verify(r)
  <2>1. task[r].in = "body" /\ UNCHANGED lane
    BY <1>31 DEF Verify, At
  <2>2. CASE Raises(r)
    BY <1>10, <2>1, <2>2
  <2>3. CASE Goes(r, "ship", 0)
    BY <1>11, <2>1, <2>3 DEF GoalNodes
  <2>4. CASE task' = [task EXCEPT ![r].node = "fix", ![r].n = @ + 1]
    <3>1. task'[r].in = "body" /\ task'[r].seen = task[r].seen
      BY <1>1, <2>1, <2>4 DEF TypeOK, Tasks
    <3>2. r \in Goals => Unmanned(r, Roles)'
      BY <1>4, <2>1 DEF Unmanned
    <3> QED
      BY <1>4, <1>7, <1>9, <2>1, <3>1, <3>2
  <2> QED
    BY <1>31, <2>2, <2>3, <2>4 DEF Verify
<1>32. CASE Ship(r)
  <2>1. task[r].in = "body" /\ r \in Goals /\ UNCHANGED lane
    BY <1>3, <1>32 DEF Ship, At, SwarmNodes
  <2>2. CASE task' = [task EXCEPT ![r].in = "over"]
    <3>1. task'[r].in = "over" /\ task'[r].seen = task[r].seen
      BY <1>1, <2>2, Staying
    <3>2. Unmanned(r, Roles \ {"lead", "synth"})'
      BY <1>4, <2>1 DEF Unmanned
    <3> QED
      BY <1>3, <1>4, <1>9, <2>1, <3>1, <3>2 DEF Quiet, Tidy, Sunken, Gathered, Queued, Alone
  <2> QED
    BY <1>10, <1>32, <2>1, <2>2 DEF Ship
<1>33. CASE Decomposed(r)
  <2>1. task[r].in = "lane" /\ task[r].node = "decompose" /\ r \in Swarms
    BY <1>3, <1>33 DEF Decomposed, Rested, GoalNodes
  <2>2. PICK some \in SUBSET Slices : Sets(r, some, "waiting")
    BY <1>33 DEF Decomposed
  <2>3. task'[r].in = "lane" /\ task'[r].node = "fanout" /\ task'[r].seen = task[r].seen
    BY <1>1, <1>33 DEF Decomposed, TypeOK, Tasks
  <2>4. "waiting" \in Statuses
    BY <1>2
  <2>5. \A l \in Roles : lane'[r][l] = IF l \in some THEN "waiting" ELSE lane[r][l]
    BY <1>1, <2>2, <2>4, Setting
  <2>6. Named(r)' /\ lane'[r]["one"] \notin Live /\ task[r].seen = {} /\ r \notin Goals
    BY <1>2, <1>3, <2>1, <2>5 DEF Tidy, Named, Gathered
  <2> QED
    BY <1>3, <1>5, <2>1, <2>3, <2>6 DEF Tidy, Sunken, Gathered, Queued, Alone
<1>34. CASE Fannedout(r)
  <2>1. task[r].in = "lane" /\ r \notin Goals /\ UNCHANGED lane /\ \A l \in Slices : lane[r][l] # "waiting"
    BY <1>3, <1>34 DEF Fannedout, At, GoalNodes
  <2>2. task'[r].in = "lane" /\ task'[r].node = "collect"
    BY <1>1, <1>34 DEF Fannedout, At, TypeOK, Tasks
  <2> QED
    BY <1>3, <1>5, <1>9, <2>1, <2>2 DEF Quiet, Tidy, Sunken, Gathered, Queued, Alone
<1>35. CASE Collected(r)
  <2>1. task[r].in = "lane" /\ r \notin Goals /\ task[r].node = "collect" /\ Goes(r, "synthesize", 0)
    BY <1>3, <1>35 DEF Collected, At, GoalNodes
  <2>2. PICK ls : ls = Explorers(r) \ task[r].seen /\ Sets(r, ls, "failed")
    BY <1>35 DEF Collected
  <2>3. Explorers(r) \ task[r].seen \in SUBSET Slices /\ "failed" \in Statuses
    BY <1>2 DEF Explorers
  <2>4. \A l \in Roles : lane'[r][l] = IF l \in Explorers(r) \ task[r].seen THEN "failed" ELSE lane[r][l]
    BY <1>1, <1>2, <2>2, <2>3, Setting
  <2>5. Quiet /\ Named(r)'
    BY <1>2, <1>5, <2>1, <2>3, <2>4 DEF Quiet, Tidy, Named
  <2> QED
    BY <1>5, <1>8, <1>15, <2>1, <2>5 DEF SwarmNodes
<1>36. CASE Synthesize(r)
  BY <1>2, <1>3, <1>11, <1>12, <1>36 DEF Synthesize, At, GoalNodes, SwarmNodes
<1>37. CASE Synthesized(r)
  <2>1. task[r].in = "lane" /\ r \notin Goals /\ task[r].node = "synthesize" /\ UNCHANGED lane
    BY <1>3, <1>37 DEF Synthesized, Rested, GoalNodes
  <2> QED
    BY <1>5, <1>8, <1>9, <1>15, <1>37, <2>1 DEF Synthesized, SwarmNodes
<1>38. CASE Complete(r)
  <2>1. task[r].in = "body" /\ r \in Swarms
    BY <1>3, <1>38 DEF Complete, At, GoalNodes
  <2>2. CASE Raises(r) /\ UNCHANGED lane
    BY <1>10, <2>1, <2>2
  <2>3. CASE Finishes(r, Slices, "completed") /\ task' = [task EXCEPT ![r].in = "over"]
    <3>1. task'[r].in = "over" /\ task'[r].seen = task[r].seen
      BY <1>1, <2>3, Staying
    <3>2. Slices \in SUBSET Roles
      BY <1>2
    <3>3. Named(r)' /\ Quiet
      BY <1>4, <1>13, <2>1, <2>3, <3>2
    <3>4. Unmanned(r, Roles \ {"lead", "synth"})'
      <4>1. \A l \in Roles \ {"lead", "synth"} : lane'[r][l] \in Live => l = "one"
        BY <1>2, <1>13, <2>3, <3>2
      <4>2. lane'[r]["one"] \notin Live
        BY <1>2, <2>1, <3>3 DEF Named
      <4> QED
        BY <4>1, <4>2 DEF Unmanned
    <3> QED
      BY <1>3, <1>4, <2>1, <3>1, <3>3, <3>4 DEF Quiet, Tidy, Sunken, Gathered, Queued, Alone
  <2> QED
    BY <1>38, <2>2, <2>3 DEF Complete
<1>39. CASE \E l \in Slices : Sees(r, l)
  <2>1. PICK l \in Slices : Sees(r, l)
    BY <1>39
  <2>2. /\ task[r].in = "lane" /\ task[r].node \in {"explore", "collect"} /\ UNCHANGED lane
        /\ \A m \in Slices : lane[r][m] # "waiting"
    BY <2>1 DEF Sees
  <2>3. task'[r].in = "lane" /\ task'[r].node = task[r].node
    BY <1>1, <2>1, <2>2 DEF Sees, TypeOK, Tasks
  <2>4. lane'[r] = lane[r]
    BY <2>2
  <2> QED
    BY <1>3, <1>5, <1>9, <2>2, <2>3, <2>4 DEF Quiet, Tidy, Sunken, Gathered, Queued, Alone, Unmanned
<1> QED
  BY <1>16, <1>17, <1>18, <1>19, <1>20, <1>21, <1>22, <1>23, <1>24, <1>25, <1>26, <1>27, <1>28, <1>29,
     <1>30, <1>31, <1>32, <1>33, <1>34, <1>35, <1>36, <1>37, <1>38, <1>39 DEF Step

LEMMA Tidying == Typed /\ Lanes /\ Next => Lanes'
<1> SUFFICES ASSUME Typed, Lanes, NEW r \in Runs, Acts(r), NEW q \in Runs
             PROVE  Tidy(q)'
  BY SomeRunActs DEF Lanes
<1>1. Tidy(q) /\ Tidy(r)
  BY DEF Lanes
<1>2. CASE q # r
  <2>1. task'[q] = task[q] /\ lane'[q] = lane[q] /\ sunk'[q] = sunk[q]
    BY <1>2, TaskTyped, LaneTyped, OutcomesTyped
  <2> QED
    BY <1>1, <2>1 DEF Tidy, Named, Sunken, Gathered, Queued, Alone, Unmanned
<1>3. CASE q = r
  BY <1>1, <1>3, WorksTidy, StepTidy DEF Acts
<1> QED
  BY <1>2, <1>3

-----------------------------------------------------------------------------
(* Theorems.                                                               *)

LEMMA Beginning == Init => IInv
<1> SUFFICES ASSUME Init PROVE IInv
  OBVIOUS
<1>1. \A r \in Runs : /\ task[r].node = "hydrate" /\ task[r].in = "gate" /\ task[r].seen = {}
                      /\ lane[r] = [l \in Roles |-> "none"] /\ shipped[r] = FALSE /\ sunk[r] = FALSE
  BY DEF Init
<1>2. TypeOK
  <2>1. [node |-> "hydrate", in |-> "gate", n |-> 0, seen |-> {}] \in Tasks
    BY PipelinesAssumption DEF Tasks, GoalNodes
  <2>2. task \in [Runs -> Tasks]
    BY <2>1 DEF Init
  <2>3. [l \in Roles |-> "none"] \in [Roles -> Statuses]
    BY DEF Statuses
  <2>4. lane \in [Runs -> [Roles -> Statuses]]
    BY <2>3 DEF Init
  <2>5. won \in [Runs -> BOOLEAN] /\ green \in [Runs -> BOOLEAN]
    BY DEF Init
  <2>6. shipped \in [Runs -> BOOLEAN] /\ sunk \in [Runs -> BOOLEAN]
    BY DEF Init
  <2>7. steps \in [Runs -> {"none", "pending", "done"}]
    BY DEF Init
  <2>8. stage \in [Runs -> Stages]
    BY DEF Init, Stages
  <2> QED
    BY <2>2, <2>4, <2>5, <2>6, <2>7, <2>8 DEF TypeOK, Tasks, Stages, Statuses
<1>3. Gated /\ Courses
  BY <1>1 DEF Gated, Courses, StageOf, GoalNodes, SwarmNodes, Runs
<1>4. Verified
  BY <1>1 DEF Verified, Runs
<1>5. Lanes
  <2> SUFFICES ASSUME NEW r \in Runs PROVE Tidy(r)
    BY DEF Lanes
  <2>1. \A l \in Roles : lane[r][l] = "none"
    BY <1>1
  <2>2. Slices \subseteq Roles /\ {"one", "lead", "synth"} \subseteq Roles /\ "none" \notin Live
    BY DEF Roles, Solo, Live, Held
  <2>3. Named(r) /\ Sunken(r) /\ Gathered(r)
    BY <1>1, <2>1, <2>2 DEF Named, Sunken, Gathered
  <2>4. Queued(r) /\ Alone(r)
    BY <1>1, <2>1, <2>2 DEF Queued, Alone, Unmanned
  <2> QED
    BY <2>3, <2>4 DEF Tidy
<1> QED
  BY <1>2, <1>3, <1>4, <1>5 DEF IInv, Typed

LEMMA Stepping == IInv /\ [Next]_vars => IInv'
<1>1. IInv /\ Next => IInv'
  BY Typing, Verifying, Tidying DEF IInv
<1>2. IInv /\ UNCHANGED vars => IInv'
  <2> SUFFICES ASSUME IInv, UNCHANGED vars PROVE IInv'
    OBVIOUS
  <2> USE DEF vars, outcomes
  <2>1. Typed'
    BY DEF IInv, Typed, TypeOK, Gated, Courses
  <2>2. Verified'
    BY DEF IInv, Verified
  <2>3. Lanes'
    BY DEF IInv, Lanes, Tidy, Named, Sunken, Gathered, Queued, Alone, Unmanned
  <2> QED
    BY <2>1, <2>2, <2>3 DEF IInv
<1> QED
  BY <1>1, <1>2

\* Types and courses, what leads to the ship, and which lanes a task has: every
\* step of either blueprint and of every lane keeps them.
THEOREM Invariance == Spec => []IInv
BY Beginning, Stepping, PTL DEF Spec

\* Every variable keeps to its type, for any number of runs, slices and rounds.
THEOREM PipelinesTypeCorrect == Spec => []TypeOK
<1>1. IInv => TypeOK
  BY DEF IInv, Typed
<1> QED
  BY <1>1, Invariance, PTL

\* What ships has passed the verification and its steps are done, however often
\* it went round the fixes (goal.py, _verify and _ship).
THEOREM ShippedGreen == Spec => []ShipsGreen
<1>1. IInv => ShipsGreen
  BY DEF IInv, Verified, ShipsGreen
<1> QED
  BY <1>1, Invariance, PTL

\* A pipeline that is over holds no lane, but a swarm's two leads and what a
\* broken fan-out left behind (run_manager.py, _guarded_execute).
THEOREM Freed == Spec => []SlotsFreed
<1>1. IInv => SlotsFreed
  BY DEF IInv, Lanes, Tidy, Alone, Unmanned, SlotsFreed
<1> QED
  BY <1>1, Invariance, PTL
=============================================================================
