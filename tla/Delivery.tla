------------------------------ MODULE Delivery ------------------------------
(***************************************************************************)
(* From a plan to a pull request: the plan, debug and development          *)
(* blueprints of one run, the decisions of its owner, the evidence gate    *)
(* and the merge (orchestrator/blueprints, services/plans.py,              *)
(* services/delivery.py).                                                  *)
(*                                                                         *)
(* A blueprint is a task of the event loop.  A chain of the owner starts   *)
(* another one and does not end the first, so tasks interleave at every    *)
(* await: after a stage is published, while a lane works, while tests run. *)
(* What a lane says is any of the answers the code tells apart; the        *)
(* containers behind lanes, stops and resumes are RunLifecycle's.          *)
(***************************************************************************)
EXTENDS Naturals, SequencesExt

CONSTANTS
  Steps,        \* indices of the steps of a plan
  MaxPlans,     \* bound: Plan rows
  MaxTasks,     \* bound: blueprints started
  MaxRequests,  \* bound: links, and requests under way
  MaxWorkFaults     \* bound: stops, node bodies and calls of ADO that fail

DeliveryAssumption ==
  MaxPlans \in Nat /\ MaxTasks \in Nat \ {0} /\ MaxRequests \in Nat /\ MaxWorkFaults \in Nat

VARIABLES
  stage,
  offered,      \* available_actions
  halting,      \* how far a stop or an abandon has come
  plans,        \* Plan rows, oldest first: status, and status of each step
  task,         \* blueprints, the newest last, those that are over included
  finished,     \* some thread row says "completed"
  control,      \* the "control-plane" pseudo-thread has its event 0
  prs, links,   \* pull requests of the branch in ADO; PrLink rows
  request,      \* create_pr and merge_pr
  workFaults

stageVars == <<stage, offered, halting>>
prVars == <<prs, links, request>>
workVars == <<stageVars, plans, task, finished, control, prVars, workFaults>>

Nodes ==
  [plan |-> <<"hydrate", "draft", "critique", "present">>,
   development |-> <<"hydrate", "develop", "stamp", "evaluate">>,
   debug |-> <<"hydrate", "reproduce", "diagnose", "propose", "show">>]

StageOf ==
  [hydrate |-> "provisioning", draft |-> "planning", critique |-> "planning",
   present |-> "awaiting_user", develop |-> "developing", stamp |-> "verifying",
   evaluate |-> "none", reproduce |-> "investigating", diagnose |-> "investigating",
   propose |-> "planning", show |-> "none"]

\* Modes of the run; its owner may switch between them at any time.
Modes == {"plan", "debug"}

Terminal == {"completed", "failed", "abandoned"}

\* ACTIONS_BY_STAGE, of the actions that are modelled.
Offers(s) ==
  CASE s = "awaiting_user" -> {"approve", "reject"}
    [] s = "verifying" -> {"create_pr"}
    [] s = "pr_ready" -> {"merge_pr"}
    [] OTHER -> {}

Moves(s) == stage' = s /\ offered' = Offers(s) /\ UNCHANGED halting

Fresh(bp, seed) ==
  [bp |-> bp, at |-> 1, in |-> "gate", lane |-> "none", plan |-> 0,
   seed |-> seed, draft |-> FALSE]

WorkInit ==
  /\ stage = "queued" /\ offered = {} /\ halting = "no"
  /\ plans = <<>> /\ \E mode \in Modes : task = <<Fresh(mode, FALSE)>>
  /\ finished = FALSE /\ control = FALSE
  /\ prs = <<>> /\ links = <<>> /\ request = <<>>
  /\ workFaults = 0

Name(t) == Nodes[task[t].bp][task[t].at]
In(t, where, names) == task[t].in = where /\ Name(t) \in names

Over(t) == [Fresh(task[t].bp, FALSE) EXCEPT !.in = "over"]

\* The task once its node has returned.
After(t) ==
  IF task[t].at = Len(Nodes[task[t].bp]) THEN Over(t)
  ELSE [task[t] EXCEPT !.at = @ + 1, !.in = "gate", !.lane = "none"]

\* _track: the new task is the newest.  The code also prunes the tasks that are
\* done, which nothing looks at again.
Track(T, bp, seed) == Len(T) < MaxTasks /\ task' = Append(T, Fresh(bp, seed))

\* _guarded_execute, up to the stop of the lanes that live.
Raises(t) ==
  /\ task' = [task EXCEPT ![t] = [Over(t) EXCEPT !.in = "reap"]]
  /\ IF stage \in Terminal THEN UNCHANGED stageVars ELSE Moves("failed")

Ended(u) == IF u.lane = "working" THEN [u EXCEPT !.lane = "ended"] ELSE u
LanesEnd(T) == [t \in DOMAIN T |-> Ended(T[t])]

-----------------------------------------------------------------------------
(* Nodes.                                                                  *)

\* The stage of the node, which may leave a terminal one; then the relay.
Enter(t) ==
  /\ task[t].in = "gate"
  /\ task' = [task EXCEPT ![t].in = "body"]
  /\ IF StageOf[Name(t)] = "none" THEN UNCHANGED stageVars ELSE Moves(StageOf[Name(t)])
  /\ UNCHANGED <<plans, finished, control, prVars, workFaults>>

\* A body that leaves the stage and the rows alone; draft: it has one that parses.
Returns(t, draft) ==
  /\ task' = [task EXCEPT ![t] = [After(t) EXCEPT !.draft = draft]]
  /\ UNCHANGED <<stageVars, plans, finished, control, prVars, workFaults>>

Spawns(t) ==
  /\ task' = [task EXCEPT ![t] = [@ EXCEPT !.in = "lane", !.lane = "working"]]
  /\ UNCHANGED <<stageVars, plans, finished, control, prVars, workFaults>>

HydratePlan(t) == In(t, "body", {"hydrate"}) /\ task[t].bp = "plan" /\ Returns(t, FALSE)
HydrateDebug(t) == In(t, "body", {"hydrate"}) /\ task[t].bp = "debug" /\ Returns(t, FALSE)

Approved == {i \in DOMAIN plans : plans[i].status = "approved"}

\* Mutant: the newest plan, decided or not.
HydrateDevelopmentMutant(t) ==
  /\ In(t, "body", {"hydrate"}) /\ task[t].bp = "development"
  /\ task' = [task EXCEPT ![t] = [After(t) EXCEPT !.plan = Len(plans)]]
  /\ UNCHANGED <<stageVars, plans, finished, control, prVars, workFaults>>

\* The newest plan that was approved.
HydrateDevelopment(t) ==
  /\ In(t, "body", {"hydrate"}) /\ task[t].bp = "development"
  /\ \/ \E i \in Approved :
          /\ \A j \in Approved : j <= i
          /\ task' = [task EXCEPT ![t] = [After(t) EXCEPT !.plan = i]]
          /\ UNCHANGED stageVars
     \/ Approved = {} /\ Raises(t)
  /\ UNCHANGED <<plans, finished, control, prVars, workFaults>>

\* A seed is the draft, and takes no lane.
Draft(t) ==
  In(t, "body", {"draft"}) /\ IF task[t].seed THEN Returns(t, TRUE) ELSE Spawns(t)

\* Nor does the critic of a draft that does not parse.
Critique(t) ==
  In(t, "body", {"critique"}) /\ IF task[t].draft THEN Spawns(t) ELSE Returns(t, FALSE)

Develop(t) == In(t, "body", {"develop"}) /\ Spawns(t)
Evaluate(t) == In(t, "body", {"evaluate"}) /\ Spawns(t)
Diagnose(t) == In(t, "body", {"diagnose"}) /\ Spawns(t)
Propose(t) == In(t, "body", {"propose"}) /\ Spawns(t)

\* The lane ends, well or otherwise; the task sees it at its next poll.
LaneEnds(t) ==
  /\ task[t].lane = "working"
  /\ task' = [task EXCEPT ![t].lane = "ended"]
  /\ finished' \in {finished, TRUE}
  /\ UNCHANGED <<stageVars, plans, control, prVars, workFaults>>

Seen(t, name) == In(t, "lane", {name}) /\ task[t].lane = "ended"

\* The last message of the lane is a plan, or it does not parse.
Drafted(t) == (Seen(t, "draft") \/ Seen(t, "propose")) /\ \E parsed \in BOOLEAN : Returns(t, parsed)

Noted(t) == (Seen(t, "critique") \/ Seen(t, "diagnose")) /\ Returns(t, task[t].draft)

\* However the lane ended, steps nobody has judged are done.
Developed(t) ==
  /\ Seen(t, "develop")
  /\ plans' = [plans EXCEPT ![task[t].plan].steps =
                 [s \in Steps |-> IF @[s] = "pending" THEN "done" ELSE @[s]]]
  /\ task' = [task EXCEPT ![t] = After(t)]
  /\ UNCHANGED <<stageVars, finished, control, prVars, workFaults>>

\* The tests run and are recorded; no step hears of them.
StampTests(t) == In(t, "body", {"stamp"}) /\ Returns(t, FALSE)

\* The verdict: the steps it fails, none when it passes or does not parse.
Evaluated(t) ==
  /\ Seen(t, "evaluate")
  /\ \E F \in SUBSET Steps :
       plans' = [plans EXCEPT ![task[t].plan].steps =
                   [s \in Steps |-> IF s \in F THEN "failed" ELSE @[s]]]
  /\ task' = [task EXCEPT ![t] = After(t)]
  /\ UNCHANGED <<stageVars, finished, control, prVars, workFaults>>

\* events is unique in (run, thread, seq), and the node always writes seq 0.
Reproduce(t) ==
  /\ In(t, "body", {"reproduce"})
  /\ \/ ~control /\ task' = [task EXCEPT ![t] = After(t)] /\ UNCHANGED stageVars
     \/ control /\ Raises(t)
  /\ control' = TRUE
  /\ UNCHANGED <<plans, finished, prVars, workFaults>>

\* The draft becomes a row, with the stage in one commit: neither when there is
\* no draft, or when the run has ended.
Presents(t, actions) ==
  /\ Len(plans) < MaxPlans
  /\ \/ /\ task[t].draft /\ stage \notin Terminal
        /\ plans' = Append(plans, [status |-> "draft", steps |-> [s \in Steps |-> "pending"]])
        /\ stage' = "awaiting_user" /\ offered' = actions /\ UNCHANGED halting
        /\ task' = [task EXCEPT ![t] = After(t)]
     \/ (~task[t].draft \/ stage \in Terminal) /\ Raises(t) /\ UNCHANGED plans
  /\ UNCHANGED <<finished, control, prVars, workFaults>>

Present(t) == In(t, "body", {"present"}) /\ Presents(t, Offers("awaiting_user"))
Show(t) == In(t, "body", {"show"}) /\ Presents(t, {"start_plan"})

\* A node that raises: no repository, no capacity, no tests, no container.
NodeFails(t) ==
  /\ task[t].in = "body" /\ workFaults < MaxWorkFaults /\ workFaults' = workFaults + 1
  /\ Raises(t)
  /\ UNCHANGED <<plans, finished, control, prVars>>

\* The end of _guarded_execute: whatever lane of the run lives is stopped.
Reap(t) ==
  /\ task[t].in = "reap"
  /\ task' = LanesEnd([task EXCEPT ![t] = Over(t)])
  /\ UNCHANGED <<stageVars, plans, finished, control, prVars, workFaults>>

-----------------------------------------------------------------------------
(* Decisions of the owner.                                                 *)

\* gate_intent.
Legal(action) == action \in offered

Decides(status, to, bp) ==
  /\ plans # <<>> /\ plans[Len(plans)].status = "draft"
  /\ plans' = [plans EXCEPT ![Len(plans)] =
                 [status |-> status,
                  steps |-> IF status = "approved" THEN [s \in Steps |-> "pending"] ELSE @.steps]]
  /\ Moves(to) /\ Track(task, bp, FALSE)
  /\ UNCHANGED <<finished, control, prVars, workFaults>>

ApprovePlan == Legal("approve") /\ Decides("approved", "developing", "development")
RejectPlan == Legal("reject") /\ Decides("rejected", "planning", "plan")

\* The newest plan, whatever its status, becomes the seed.
StartPlan ==
  /\ Legal("start_plan")
  /\ Track(task, "plan", plans # <<>>)
  /\ UNCHANGED <<stageVars, plans, finished, control, prVars, workFaults>>

\* stop_run: the lanes first, and only then the stage and the newest task.
Stop ==
  /\ halting = "no" /\ stage \notin Terminal \cup {"interrupted"}
  /\ workFaults < MaxWorkFaults /\ workFaults' = workFaults + 1
  /\ halting' = "stop" /\ task' = LanesEnd(task)
  /\ UNCHANGED <<stage, offered, plans, finished, control, prVars>>

StopStamps ==
  /\ halting = "stop"
  /\ IF stage \in Terminal THEN halting' = "no" /\ UNCHANGED <<stage, offered, task>>
     ELSE /\ stage' = "interrupted" /\ offered' = Offers("interrupted")
          /\ halting' = "stamped" /\ task' = LanesEnd(task)
  /\ UNCHANGED <<plans, finished, control, prVars, workFaults>>

\* abandon_run: the stage first.
Abandon ==
  /\ halting = "no" /\ stage \notin Terminal
  /\ workFaults < MaxWorkFaults /\ workFaults' = workFaults + 1
  /\ stage' = "abandoned" /\ offered' = Offers("abandoned") /\ halting' = "abandoned"
  /\ UNCHANGED <<plans, task, finished, control, prVars>>

Halted ==
  /\ halting \in {"stamped", "abandoned"} /\ halting' = "no"
  /\ LET cancelled == [task EXCEPT ![Len(task)] = Over(Len(task))] IN
       task' = IF halting = "abandoned" THEN LanesEnd(cancelled) ELSE cancelled
  /\ UNCHANGED <<stage, offered, plans, finished, control, prVars, workFaults>>

\* The run again, in the mode it has by now.
Resume ==
  /\ stage \in Terminal \cup {"interrupted"}
  /\ Moves("queued")
  /\ \E mode \in Modes : Track([task EXCEPT ![Len(task)] = Ended(@)], mode, FALSE)
  /\ UNCHANGED <<plans, finished, control, prVars, workFaults>>

-----------------------------------------------------------------------------
(* Pull requests.                                                          *)

\* Mutant: the statuses of the steps are not looked at.
CompleteMutant == plans # <<>> /\ finished

\* evidence_complete of build_evidence_package: a plan without steps is none.
Complete ==
  /\ plans # <<>> /\ Steps # {} /\ finished
  /\ \A s \in Steps : plans[Len(plans)].steps[s] = "done"

\* The package is built from the rows; then fetch, rebase and push.
CreatePr ==
  /\ Legal("create_pr") /\ Complete /\ Len(links) + Len(request) < MaxRequests
  /\ request' = Append(request, [kind |-> "create", pc |-> "push", plan |-> Len(plans), pr |-> 0])
  /\ UNCHANGED <<stageVars, plans, task, finished, control, prs, links, workFaults>>

Active == {p \in DOMAIN prs : prs[p] = "active"}

Opened(r, p) == request' = [request EXCEPT ![r] = [@ EXCEPT !.pc = "opened", !.pr = p]]

\* create_pull_request returns the branch's active one, and makes one if none is.
OpenInAdo(r) ==
  /\ request[r].pc = "push"
  /\ \/ \E p \in Active : Opened(r, p) /\ UNCHANGED prs
     \/ /\ Active = {} /\ prs' = Append(prs, "active")
        /\ Opened(r, Len(prs) + 1)
  /\ UNCHANGED <<stageVars, plans, task, finished, control, links, workFaults>>

\* A conflict, a push that is refused, or an answer of ADO that is lost.
RequestFails(r) ==
  /\ request[r].pc \in {"push", "opened", "complete", "completed"}
  /\ workFaults < MaxWorkFaults /\ workFaults' = workFaults + 1
  /\ request' = RemoveAt(request, r)
  /\ UNCHANGED <<stageVars, plans, task, finished, control, prs, links>>

\* The link is committed; then the stage, unless the run has ended.
Link(r) ==
  /\ request[r].pc = "opened"
  /\ links' = Append(links, [pr |-> request[r].pr, plan |-> request[r].plan, status |-> "open"])
  /\ request' = RemoveAt(request, r)
  /\ IF stage \in Terminal THEN UNCHANGED stageVars ELSE Moves("pr_ready")
  /\ UNCHANGED <<plans, task, finished, control, prs, workFaults>>

\* The newest link that is open, 0 when there is none.
OpenLink ==
  LET open == {l \in DOMAIN links : links[l].status = "open"} IN
  IF open = {} THEN 0 ELSE CHOOSE l \in open : \A k \in open : k <= l

\* Under merge_native_ui: an event, which is refused when it is not the first
\* of the control plane; the run stays pr_ready.
Handoff ==
  /\ Legal("merge_pr") /\ OpenLink # 0 /\ ~control
  /\ control' = TRUE
  /\ UNCHANGED <<stageVars, plans, task, finished, prVars, workFaults>>

\* Otherwise the service account completes it (the setting is read at each call).
MergePr ==
  /\ Legal("merge_pr") /\ OpenLink # 0 /\ Len(request) < MaxRequests
  /\ request' = Append(request, [kind |-> "merge", pc |-> "complete",
                                 plan |-> 0, pr |-> links[OpenLink].pr])
  /\ UNCHANGED <<stageVars, plans, task, finished, control, prs, links, workFaults>>

CompleteInAdo(r) ==
  /\ request[r].pc = "complete"
  /\ prs' = [prs EXCEPT ![request[r].pr] = "completed"]
  /\ request' = [request EXCEPT ![r].pc = "completed"]
  /\ UNCHANGED <<stageVars, plans, task, finished, control, links, workFaults>>

\* The newest link open by now; none raises, and the run stays as it is.
Merged(r) ==
  /\ request[r].pc = "completed"
  /\ request' = RemoveAt(request, r)
  /\ IF OpenLink = 0 THEN UNCHANGED <<links, stageVars>>
     ELSE /\ links' = [links EXCEPT ![OpenLink].status = "merged"]
          /\ IF stage \in Terminal THEN UNCHANGED stageVars ELSE Moves("completed")
  /\ UNCHANGED <<plans, task, finished, control, prs, workFaults>>

\* A human completes the pull request in ADO.
HumanMerges(p) ==
  /\ p \in Active /\ prs' = [prs EXCEPT ![p] = "completed"]
  /\ UNCHANGED <<stageVars, plans, task, finished, control, links, request, workFaults>>

\* mark_merged, by the webhook or by hand: a link, and never the run.
MarkMerged ==
  /\ OpenLink # 0
  /\ links' = [links EXCEPT ![OpenLink].status = "merged"]
  /\ UNCHANGED <<stageVars, plans, task, finished, control, prs, request, workFaults>>

WorkNext ==
  \/ \E t \in DOMAIN task :
       \/ Enter(t) \/ NodeFails(t) \/ LaneEnds(t) \/ Reap(t)
       \/ HydratePlan(t) \/ Draft(t) \/ Drafted(t) \/ Critique(t) \/ Noted(t) \/ Present(t)
       \/ HydrateDevelopment(t) \/ Develop(t) \/ Developed(t) \/ StampTests(t)
       \/ Evaluate(t) \/ Evaluated(t)
       \/ HydrateDebug(t) \/ Reproduce(t) \/ Diagnose(t) \/ Propose(t) \/ Show(t)
  \/ ApprovePlan \/ RejectPlan \/ StartPlan
  \/ Stop \/ StopStamps \/ Abandon \/ Halted \/ Resume
  \/ CreatePr \/ Handoff \/ MergePr \/ MarkMerged
  \/ \E r \in DOMAIN request :
       OpenInAdo(r) \/ RequestFails(r) \/ Link(r) \/ CompleteInAdo(r) \/ Merged(r)
  \/ \E p \in DOMAIN prs : HumanMerges(p)

WorkSpec == WorkInit /\ [][WorkNext]_workVars

-----------------------------------------------------------------------------
(* Properties.                                                             *)

\* Work is done and judged only on plans a human approved, whatever became of
\* the run between the approval and the blueprint (development.py:79).
OnlyApprovedWork ==
  \A i \in DOMAIN plans :
    plans[i].status # "approved" => \A s \in Steps : plans[i].steps[s] = "pending"

\* No later node, of this blueprint or of another, rolls a failed step back
\* (development.py:54).
FailedStays ==
  [][\A i \in DOMAIN plans : \A s \in Steps :
       plans[i].steps[s] = "failed" => plans'[i].steps[s] = "failed"]_workVars

\* A pull request carries a plan that was approved, though the gate does not
\* look at what became of the plan (delivery.py:133).
ShipsApproved == \A l \in DOMAIN links : plans[links[l].plan].status = "approved"

\* The run completes only on a real merge (run_manager.py:1125).
CompletedIsMerged == stage = "completed" => \E p \in DOMAIN prs : prs[p] = "completed"

\* The verdict of the evaluator is final: what it failed is not shipped
\* (development.py:53).
VerdictShips ==
  \A l \in DOMAIN links : \A s \in Steps : plans[links[l].plan].steps[s] # "failed"
=============================================================================
