---------------------------- MODULE Owner_proofs -----------------------------
(***************************************************************************)
(* Proofs about what the owner of a run approves and sees.                 *)
(*                                                                         *)
(* Delivery: work is done on approved plans only, a pull request carries   *)
(* an approved plan, a run completes on a real merge, and a failed step    *)
(* stays failed, for every number of steps, plans, tasks, requests and     *)
(* failures.                                                               *)
(*                                                                         *)
(* Console: what is on the screen is of one run, in order and durable, for *)
(* every number of runs, threads, events, cuts and questions on their way. *)
(***************************************************************************)
EXTENDS Delivery, Console, SequenceTheorems, FiniteSetTheorems, WellFoundedInduction, TLAPS

PlanRow == [status : {"draft", "approved", "rejected"},
            steps : [Steps -> {"pending", "done", "failed"}]]

Job == [bp : {"plan", "development", "debug"}, at : Nat,
        in : {"gate", "body", "lane", "reap", "over"}, lane : {"none", "working", "ended"},
        plan : Nat, seed : BOOLEAN, draft : BOOLEAN]

LinkRow == [pr : Nat, plan : Nat, status : {"open", "merged"}]

Request == [kind : {"create", "merge"}, pc : {"push", "opened", "complete", "completed"},
            plan : Nat, pr : Nat]

Shape ==
  /\ plans \in Seq(PlanRow) /\ prs \in Seq({"active", "completed"})
  /\ links \in Seq(LinkRow) /\ request \in Seq(Request)

\* A task is at a node of its blueprint; a development past its first node works
\* on a plan that was approved.
Bound(x) ==
  /\ x.at \in 1..Len(Nodes[x.bp])
  /\ x.bp = "development" /\ x.at # 1 => x.plan \in Approved

Jobs(T) == T \in Seq(Job) /\ \A u \in 1..Len(T) : Bound(T[u])

\* Links are of approved plans and real pull requests.
Linked == \A l \in 1..Len(links) : links[l].plan \in Approved /\ links[l].pr \in 1..Len(prs)

\* So are the links that a request is about to write, and what one has completed
\* is completed.
Asked(q) ==
  /\ q.kind = "create" =>
       /\ q.plan \in Approved /\ q.pc \in {"push", "opened"}
       /\ q.pc = "opened" => q.pr \in 1..Len(prs)
  /\ q.kind = "merge" =>
       /\ q.pc \in {"complete", "completed"} /\ q.pr \in 1..Len(prs)
       /\ q.pc = "completed" => prs[q.pr] = "completed"

Requested == \A r \in 1..Len(request) : Asked(request[r])

\* The inductive invariant.
Inv ==
  /\ Shape /\ Jobs(task) /\ OnlyApprovedWork /\ Linked /\ Requested /\ CompletedIsMerged

-----------------------------------------------------------------------------
(* Sequences.                                                              *)

LEMMA Domains ==
  ASSUME Shape, Jobs(task)
  PROVE  /\ DOMAIN plans = 1..Len(plans) /\ Len(plans) \in Nat
         /\ DOMAIN task = 1..Len(task) /\ Len(task) \in Nat
         /\ DOMAIN prs = 1..Len(prs) /\ Len(prs) \in Nat
         /\ DOMAIN links = 1..Len(links) /\ Len(links) \in Nat
         /\ DOMAIN request = 1..Len(request) /\ Len(request) \in Nat
         /\ \A i \in 1..Len(plans) : plans[i] \in PlanRow
         /\ \A t \in 1..Len(task) : task[t] \in Job /\ Bound(task[t])
         /\ \A p \in 1..Len(prs) : prs[p] \in {"active", "completed"}
         /\ \A l \in 1..Len(links) : links[l] \in LinkRow
         /\ \A r \in 1..Len(request) : request[r] \in Request
<1> HIDE DEF PlanRow, Job, LinkRow, Request, Bound
<1>1. DOMAIN plans = 1..Len(plans) /\ Len(plans) \in Nat /\ \A i \in 1..Len(plans) : plans[i] \in PlanRow
  BY LenProperties, ElementOfSeq DEF Shape
<1>2. /\ DOMAIN task = 1..Len(task) /\ Len(task) \in Nat
      /\ \A t \in 1..Len(task) : task[t] \in Job /\ Bound(task[t])
  BY LenProperties, ElementOfSeq DEF Jobs
<1>3. /\ DOMAIN prs = 1..Len(prs) /\ Len(prs) \in Nat
      /\ \A p \in 1..Len(prs) : prs[p] \in {"active", "completed"}
  BY LenProperties, ElementOfSeq DEF Shape
<1>4. DOMAIN links = 1..Len(links) /\ Len(links) \in Nat /\ \A l \in 1..Len(links) : links[l] \in LinkRow
  BY LenProperties, ElementOfSeq DEF Shape
<1>5. /\ DOMAIN request = 1..Len(request) /\ Len(request) \in Nat
      /\ \A r \in 1..Len(request) : request[r] \in Request
  BY LenProperties, ElementOfSeq DEF Shape
<1> QED
  BY <1>1, <1>2, <1>3, <1>4, <1>5

LEMMA Replace ==
  ASSUME NEW S, NEW q \in Seq(S), NEW k \in 1..Len(q), NEW e \in S
  PROVE  /\ [q EXCEPT ![k] = e] \in Seq(S) /\ Len([q EXCEPT ![k] = e]) = Len(q)
         /\ \A j \in 1..Len(q) : [q EXCEPT ![k] = e][j] = IF j = k THEN e ELSE q[j]
BY ExceptSeq

LEMMA Extend ==
  ASSUME NEW S, NEW q \in Seq(S), NEW e \in S
  PROVE  /\ Append(q, e) \in Seq(S) /\ Len(Append(q, e)) = Len(q) + 1
         /\ \A j \in 1..(Len(q) + 1) : Append(q, e)[j] = IF j = Len(q) + 1 THEN e ELSE q[j]
BY AppendProperties

\* What is left after one entry is taken out was there before.
LEMMA Removed ==
  ASSUME NEW S, NEW q \in Seq(S), NEW k \in 1..Len(q)
  PROVE  /\ RemoveAt(q, k) \in Seq(S)
         /\ \A j \in 1..Len(RemoveAt(q, k)) : \E i \in 1..Len(q) : RemoveAt(q, k)[j] = q[i]
<1> DEFINE a == SubSeq(q, 1, k - 1)
           b == SubSeq(q, k + 1, Len(q))
<1>1. Len(q) \in Nat /\ \A i \in 1..Len(q) : q[i] \in S
  BY LenProperties, ElementOfSeq
<1>2. /\ a \in Seq(S) /\ Len(a) = k - 1
      /\ \A i \in 1..(k - 1) : a[i] = q[i]
  <2>1. \A i \in 1..(k - 1) : q[i] \in S
    BY <1>1
  <2>2. /\ a \in Seq(S) /\ Len(a) = IF 1 <= k - 1 THEN (k - 1) - 1 + 1 ELSE 0
        /\ \A i \in 1..((k - 1) - 1 + 1) : a[i] = q[1 + i - 1]
    BY <1>1, <2>1, SubSeqProperties
  <2> QED
    BY <1>1, <2>2
<1>3. /\ b \in Seq(S) /\ Len(b) = Len(q) - k
      /\ \A i \in 1..(Len(q) - k) : b[i] = q[k + i]
  <2>1. \A i \in (k + 1)..Len(q) : q[i] \in S
    BY <1>1
  <2>2. /\ b \in Seq(S) /\ Len(b) = IF k + 1 <= Len(q) THEN Len(q) - (k + 1) + 1 ELSE 0
        /\ \A i \in 1..(Len(q) - (k + 1) + 1) : b[i] = q[(k + 1) + i - 1]
    BY <1>1, <2>1, SubSeqProperties
  <2> QED
    BY <1>1, <2>2
<1> HIDE DEF a, b
<1>4. /\ a \o b \in Seq(S) /\ Len(a \o b) = Len(a) + Len(b)
      /\ \A j \in 1..(Len(a) + Len(b)) :
           (a \o b)[j] = IF j <= Len(a) THEN a[j] ELSE b[j - Len(a)]
  BY <1>2, <1>3, ConcatProperties
<1>5. ASSUME NEW j \in 1..Len(a \o b)
      PROVE  \E i \in 1..Len(q) : (a \o b)[j] = q[i]
  <2>1. CASE j <= k - 1
    <3>1. j \in 1..Len(q) /\ (a \o b)[j] = q[j]
      BY <1>1, <1>2, <1>3, <1>4, <2>1
    <3> QED
      BY <3>1
  <2>2. CASE ~(j <= k - 1)
    <3>1. j - (k - 1) \in 1..(Len(q) - k) /\ k + (j - (k - 1)) \in 1..Len(q)
      BY <1>1, <1>2, <1>3, <1>4, <2>2
    <3>2. (a \o b)[j] = b[j - (k - 1)]
      BY <1>1, <1>2, <1>3, <1>4, <2>2
    <3> QED
      BY <1>3, <3>1, <3>2
  <2> QED
    BY <2>1, <2>2
<1>6. RemoveAt(q, k) = a \o b
  BY DEF RemoveAt, a, b
<1> QED
  BY <1>4, <1>5, <1>6

-----------------------------------------------------------------------------
(* Tasks.                                                                  *)

LEMMA JobsReplace ==
  ASSUME NEW T, Jobs(T), NEW t \in 1..Len(T), NEW x \in Job, Bound(x)
  PROVE  Jobs([T EXCEPT ![t] = x])
<1> HIDE DEF Job, Bound
<1>1. T \in Seq(Job)
  BY DEF Jobs
<1> QED
  BY <1>1, Replace DEF Jobs

LEMMA JobsAppend ==
  ASSUME NEW T, Jobs(T), NEW x \in Job, Bound(x)
  PROVE  Jobs(Append(T, x))
<1> HIDE DEF Job, Bound
<1>1. T \in Seq(Job) /\ Len(T) \in Nat
  BY LenProperties DEF Jobs
<1>2. \A j \in 1..(Len(T) + 1) : j = Len(T) + 1 \/ j \in 1..Len(T)
  BY <1>1
<1> QED
  BY <1>1, <1>2, Extend DEF Jobs

LEMMA EndedJob ==
  ASSUME NEW x \in Job, Bound(x)
  PROVE  Ended(x) \in Job /\ Bound(Ended(x))
BY DEF Ended, Job, Bound

LEMMA JobsEnd ==
  ASSUME NEW T, Jobs(T)
  PROVE  Jobs(LanesEnd(T))
<1> HIDE DEF Job, Bound
<1>1. /\ Len(T) \in Nat /\ DOMAIN T = 1..Len(T)
      /\ \A u \in 1..Len(T) : T[u] \in Job /\ Bound(T[u])
  BY LenProperties, ElementOfSeq DEF Jobs
<1>2. LanesEnd(T) = [u \in 1..Len(T) |-> Ended(T[u])]
  BY <1>1 DEF LanesEnd
<1>3. \A u \in 1..Len(T) : Ended(T[u]) \in Job /\ Bound(Ended(T[u]))
  BY <1>1, EndedJob
<1>4. LanesEnd(T) \in [1..Len(T) -> Job]
  BY <1>2, <1>3
<1>5. LanesEnd(T) \in Seq(Job) /\ Len(LanesEnd(T)) = Len(T)
  BY <1>1, <1>4
<1> QED
  BY <1>2, <1>3, <1>5 DEF Jobs

LEMMA NodesLens ==
  /\ \A bp \in {"plan", "development", "debug"} :
       Len(Nodes[bp]) \in Nat /\ 1 \in 1..Len(Nodes[bp])
  /\ Nodes["development"][1] = "hydrate"
BY DEF Nodes

\* The nodes have a stage, and none completes the run.
LEMMA NodeStages ==
  ASSUME NEW bp \in {"plan", "development", "debug"}, NEW i \in 1..Len(Nodes[bp])
  PROVE  StageOf[Nodes[bp][i]] # "completed"
<1>1. CASE bp = "plan"
  <2>1. Len(Nodes[bp]) = 4
    BY <1>1 DEF Nodes
  <2>2. i \in {1, 2, 3, 4}
    BY <2>1
  <2> QED
    BY <1>1, <2>2 DEF Nodes, StageOf
<1>2. CASE bp = "development"
  <2>1. Len(Nodes[bp]) = 4
    BY <1>2 DEF Nodes
  <2>2. i \in {1, 2, 3, 4}
    BY <2>1
  <2> QED
    BY <1>2, <2>2 DEF Nodes, StageOf
<1>3. CASE bp = "debug"
  <2>1. Len(Nodes[bp]) = 5
    BY <1>3 DEF Nodes
  <2>2. i \in {1, 2, 3, 4, 5}
    BY <2>1
  <2> QED
    BY <1>3, <2>2 DEF Nodes, StageOf
<1> QED
  BY <1>1, <1>2, <1>3

LEMMA FreshJob ==
  ASSUME NEW bp \in {"plan", "development", "debug"}, NEW seed \in BOOLEAN
  PROVE  Fresh(bp, seed) \in Job /\ Fresh(bp, seed).bp = bp /\ Bound(Fresh(bp, seed))
<1>1. Fresh(bp, seed) \in Job
  BY DEF Fresh, Job
<1>2. Fresh(bp, seed).bp = bp /\ Fresh(bp, seed).at = 1
  BY DEF Fresh
<1>3. Bound(Fresh(bp, seed))
  BY <1>2, NodesLens DEF Bound
<1> QED
  BY <1>1, <1>2, <1>3

LEMMA OverJob ==
  ASSUME Jobs(task), NEW t \in 1..Len(task)
  PROVE  /\ Over(t) \in Job /\ Bound(Over(t))
         /\ [Over(t) EXCEPT !.in = "reap"] \in Job /\ Bound([Over(t) EXCEPT !.in = "reap"])
<1>1. task[t] \in Job
  BY ElementOfSeq DEF Jobs
<1>2. task[t].bp \in {"plan", "development", "debug"}
  BY <1>1 DEF Job
<1> DEFINE y == Fresh(task[t].bp, FALSE)
<1>3. y \in Job /\ Bound(y)
  BY <1>2, FreshJob
<1>4. ASSUME NEW z \in Job, Bound(z), NEW w \in {"over", "reap"}
      PROVE  [z EXCEPT !.in = w] \in Job /\ Bound([z EXCEPT !.in = w])
  BY <1>4 DEF Job, Bound
<1> HIDE DEF y
<1>5. Over(t) = [y EXCEPT !.in = "over"]
  BY DEF Over, y
<1> QED
  BY <1>3, <1>4, <1>5

\* The next node of a task: it keeps its plan, unless it is about to choose one.
LEMMA AfterJob ==
  ASSUME Jobs(task), NEW t \in 1..Len(task)
  PROVE  /\ After(t) \in Job /\ After(t).at \in 1..Len(Nodes[After(t).bp])
         /\ task[t].bp # "development" \/ Name(t) # "hydrate" => Bound(After(t))
<1>1. task[t] \in Job /\ Bound(task[t])
  BY ElementOfSeq DEF Jobs
<1>2. CASE task[t].at = Len(Nodes[task[t].bp])
  BY <1>2, OverJob DEF After, Bound
<1>3. CASE task[t].at # Len(Nodes[task[t].bp])
  <2> DEFINE x == [task[t] EXCEPT !.at = @ + 1, !.in = "gate", !.lane = "none"]
  <2>1. Len(Nodes[task[t].bp]) \in Nat /\ task[t].at \in 1..Len(Nodes[task[t].bp])
    BY <1>1, NodesLens DEF Job, Bound
  <2> DEFINE n == task[t].at + 1
  <2>0. n \in Nat
    BY <2>1
  <2> HIDE DEF n
  <2>a. x = [task[t] EXCEPT !.at = n, !.in = "gate", !.lane = "none"]
    BY DEF n
  <2>b. x \in Job
    BY <1>1, <2>0, <2>a DEF Job
  <2>c. x.bp = task[t].bp /\ x.at = n /\ x.plan = task[t].plan
    BY <1>1, <2>a DEF Job
  <2>2. /\ x \in Job /\ x.bp = task[t].bp /\ x.at = task[t].at + 1 /\ x.plan = task[t].plan
    BY <2>b, <2>c DEF n
  <2> HIDE DEF x
  <2>3. x.bp = "development" /\ Name(t) # "hydrate" => task[t].at # 1
    BY <2>2, NodesLens DEF Name
  <2>d. x.at \in 1..Len(Nodes[x.bp])
    BY <1>3, <2>1, <2>2
  <2>4. task[t].bp # "development" \/ Name(t) # "hydrate" => Bound(x)
    BY <1>1, <2>2, <2>3, <2>d DEF Bound
  <2>5. After(t) = x
    BY <1>3 DEF After, x
  <2> QED
    BY <2>2, <2>d, <2>4, <2>5
<1> QED
  BY <1>2, <1>3

LEMMA DraftedJob ==
  ASSUME NEW x \in Job, Bound(x), NEW d \in BOOLEAN
  PROVE  [x EXCEPT !.draft = d] \in Job /\ Bound([x EXCEPT !.draft = d])
BY DEF Job, Bound

-----------------------------------------------------------------------------
(* What a step has to keep.                                                *)

Uncompleted == stage' = "completed" => stage = "completed"

\* A step of plans and tasks: approved plans stay, and no other is worked on.
LEMMA PlanFrame ==
  ASSUME Inv, Jobs(task'), plans' \in Seq(PlanRow),
         \A i \in Approved : i \in 1..Len(plans') /\ plans'[i].status = "approved",
         OnlyApprovedWork', UNCHANGED prVars, Uncompleted
  PROVE  Inv'
<1> HIDE DEF PlanRow, Job, LinkRow, Request
<1>0. DOMAIN plans' = 1..Len(plans')
  BY LenProperties
<1>1. Approved \subseteq Approved'
  BY <1>0 DEF Approved
<1>2. Shape'
  BY DEF Inv, Shape, prVars
<1>3. \A x : Bound(x) => Bound(x)'
  BY <1>1 DEF Bound
<1>4. Jobs(task)'
  BY <1>3 DEF Jobs
<1>5. Linked' /\ Requested'
  BY <1>1 DEF Inv, Linked, Requested, Asked, prVars
<1>6. CompletedIsMerged'
  BY DEF Inv, CompletedIsMerged, Uncompleted, prVars
<1> QED
  BY <1>2, <1>4, <1>5, <1>6 DEF Inv

LEMMA TaskFrame ==
  ASSUME Inv, Jobs(task'), UNCHANGED <<plans, prVars>>, Uncompleted
  PROVE  Inv'
<1> HIDE DEF PlanRow, Job, LinkRow, Request
<1>1. /\ plans' \in Seq(PlanRow)
      /\ \A i \in Approved : i \in 1..Len(plans') /\ plans'[i].status = "approved"
  BY Domains DEF Inv, Shape, Approved
<1>2. OnlyApprovedWork'
  BY DEF Inv, OnlyApprovedWork
<1> QED
  BY <1>1, <1>2, PlanFrame

-----------------------------------------------------------------------------
(* The steps of the tasks.                                                 *)

LEMMA ReturnsStep ==
  ASSUME Inv, NEW t \in DOMAIN task, NEW d \in BOOLEAN, Returns(t, d),
         task[t].bp # "development" \/ Name(t) # "hydrate"
  PROVE  Inv'
<1> HIDE DEF Job, Bound
<1> DEFINE x == [After(t) EXCEPT !.draft = d]
<1>0. Jobs(task) /\ t \in 1..Len(task)
  BY Domains DEF Inv
<1>1. x \in Job /\ Bound(x)
  BY <1>0, AfterJob, DraftedJob
<1>2. task' = [task EXCEPT ![t] = x]
  BY DEF Returns
<1> HIDE DEF x
<1>3. Jobs(task')
  BY <1>0, <1>1, <1>2, JobsReplace
<1> QED
  BY <1>3, TaskFrame DEF Returns, stageVars, Uncompleted

LEMMA SpawnsStep ==
  ASSUME Inv, NEW t \in DOMAIN task, Spawns(t)
  PROVE  Inv'
<1> DEFINE x == [task[t] EXCEPT !.in = "lane", !.lane = "working"]
<1>0. Jobs(task) /\ t \in 1..Len(task) /\ task[t] \in Job /\ Bound(task[t])
  BY Domains DEF Inv
<1>1. x \in Job
  BY <1>0 DEF Job
<1>2. Bound(x)
  BY <1>0 DEF Job, Bound
<1>3. task' = [task EXCEPT ![t] = x]
  BY DEF Spawns
<1> HIDE DEF x
<1>4. Jobs(task')
  BY <1>0, <1>1, <1>2, <1>3, JobsReplace
<1> QED
  BY <1>4, TaskFrame DEF Spawns, stageVars, Uncompleted

LEMMA RaisesStep ==
  ASSUME Inv, NEW t \in DOMAIN task, Raises(t), UNCHANGED <<plans, prVars>>
  PROVE  Inv'
<1> HIDE DEF Job, Bound
<1>0. Jobs(task) /\ t \in 1..Len(task)
  BY Domains DEF Inv
<1>1. Jobs(task')
  BY <1>0, OverJob, JobsReplace DEF Raises
<1>2. Uncompleted
  BY DEF Raises, Moves, stageVars, Uncompleted
<1> QED
  BY <1>1, <1>2, TaskFrame

\* A body of a task, and the polls of its lane.
Quiet(t) ==
  \/ HydratePlan(t) \/ HydrateDebug(t) \/ Draft(t) \/ Critique(t) \/ Develop(t)
  \/ Evaluate(t) \/ Diagnose(t) \/ Propose(t) \/ Drafted(t) \/ Noted(t) \/ StampTests(t)

LEMMA QuietStep ==
  ASSUME Inv, NEW t \in DOMAIN task, Quiet(t)
  PROVE  Inv'
<1>0. task[t] \in Job
  BY Domains DEF Inv
<1>1. task[t].draft \in BOOLEAN
  BY <1>0 DEF Job
<1>2. ASSUME NEW d \in BOOLEAN, Returns(t, d), task[t].bp # "development" \/ Name(t) # "hydrate"
      PROVE  Inv'
  BY <1>2, ReturnsStep
<1>3. CASE HydratePlan(t) \/ HydrateDebug(t)
  BY <1>2, <1>3 DEF HydratePlan, HydrateDebug
<1>4. CASE Draft(t) \/ Critique(t)
  BY <1>2, <1>4, SpawnsStep DEF Draft, Critique, In
<1>5. CASE Develop(t) \/ Evaluate(t) \/ Diagnose(t) \/ Propose(t)
  BY <1>5, SpawnsStep DEF Develop, Evaluate, Diagnose, Propose
<1>6. CASE Drafted(t)
  BY <1>2, <1>6 DEF Drafted, Seen, In
<1>7. CASE Noted(t)
  BY <1>1, <1>2, <1>7 DEF Noted, Seen, In
<1>8. CASE StampTests(t)
  BY <1>2, <1>8 DEF StampTests, In
<1> QED
  BY <1>3, <1>4, <1>5, <1>6, <1>7, <1>8 DEF Quiet

\* The stage of a node, and what befalls a task.
LEMMA BefallsStep ==
  ASSUME Inv, NEW t \in DOMAIN task,
         Enter(t) \/ LaneEnds(t) \/ Reproduce(t) \/ NodeFails(t) \/ Reap(t)
  PROVE  Inv'
<1>0. /\ Jobs(task) /\ t \in 1..Len(task) /\ task[t] \in Job /\ Bound(task[t])
  BY Domains DEF Inv
<1>1. CASE Enter(t)
  <2> DEFINE x == [task[t] EXCEPT !.in = "body"]
  <2>1. x \in Job /\ Bound(x)
    BY <1>0 DEF Job, Bound
  <2>2. task' = [task EXCEPT ![t] = x]
    BY <1>1 DEF Enter
  <2> HIDE DEF x
  <2>3. Jobs(task')
    BY <1>0, <2>1, <2>2, JobsReplace
  <2>4. StageOf[Name(t)] # "completed"
    BY <1>0, NodeStages DEF Job, Bound, Name
  <2>6. Uncompleted
    BY <1>1, <2>4 DEF Enter, Moves, stageVars, Uncompleted
  <2> QED
    BY <1>1, <2>3, <2>6, TaskFrame DEF Enter
<1>2. CASE LaneEnds(t)
  <2> DEFINE x == [task[t] EXCEPT !.lane = "ended"]
  <2>1. x \in Job /\ Bound(x)
    BY <1>0 DEF Job, Bound
  <2>2. task' = [task EXCEPT ![t] = x]
    BY <1>2 DEF LaneEnds
  <2> HIDE DEF x
  <2>3. Jobs(task')
    BY <1>0, <2>1, <2>2, JobsReplace
  <2> QED
    BY <1>2, <2>3, TaskFrame DEF LaneEnds, stageVars, Uncompleted
<1>3. CASE Reproduce(t)
  <2>1. CASE control
    BY <1>3, <2>1, RaisesStep DEF Reproduce
  <2>2. CASE ~control
    <3>1. task' = [task EXCEPT ![t] = After(t)] /\ UNCHANGED <<plans, prVars, stageVars>>
      BY <1>3, <2>2 DEF Reproduce
    <3>2. Name(t) # "hydrate"
      BY <1>3 DEF Reproduce, In
    <3>3. Jobs(task')
      BY <1>0, <3>1, <3>2, AfterJob, JobsReplace
    <3> QED
      BY <3>1, <3>3, TaskFrame DEF stageVars, Uncompleted
  <2> QED
    BY <2>1, <2>2
<1>4. CASE NodeFails(t)
  BY <1>4, RaisesStep DEF NodeFails
<1>5. CASE Reap(t)
  <2>1. Jobs(task')
    BY <1>0, <1>5, OverJob, JobsReplace, JobsEnd DEF Reap
  <2> QED
    BY <1>5, <2>1, TaskFrame DEF Reap, stageVars, Uncompleted
<1> QED
  BY <1>1, <1>2, <1>3, <1>4, <1>5

-----------------------------------------------------------------------------
(* The steps that write plans.                                             *)

\* A failed step stays failed.
Stays ==
  \A i \in DOMAIN plans : \A s \in Steps :
    plans[i].steps[s] = "failed" => plans'[i].steps[s] = "failed"

LEMMA HydrateDevelopmentStep ==
  ASSUME Inv, NEW t \in DOMAIN task, HydrateDevelopment(t)
  PROVE  Inv'
<1> HIDE DEF Job
<1>0. Jobs(task) /\ t \in 1..Len(task) /\ Approved \subseteq Nat
  BY Domains DEF Inv, Approved
<1>1. ASSUME NEW i \in Approved, task' = [task EXCEPT ![t] = [After(t) EXCEPT !.plan = i]],
             UNCHANGED stageVars
      PROVE  Inv'
  <2> DEFINE y == After(t)
             x == [y EXCEPT !.plan = i]
  <2>1. y \in Job /\ y.at \in 1..Len(Nodes[y.bp]) /\ i \in Nat
    BY <1>0, AfterJob
  <2> HIDE DEF y
  <2>2. x \in Job /\ x.bp = y.bp /\ x.at = y.at /\ x.plan = i
    BY <2>1 DEF Job
  <2>3. Bound(x)
    BY <2>1, <2>2 DEF Bound
  <2>4. task' = [task EXCEPT ![t] = x]
    BY <1>1 DEF y
  <2> HIDE DEF x
  <2>5. Jobs(task')
    BY <1>0, <2>2, <2>3, <2>4, JobsReplace
  <2> QED
    BY <1>1, <2>5, TaskFrame DEF HydrateDevelopment, stageVars, Uncompleted
<1>2. CASE Raises(t)
  BY <1>2, RaisesStep DEF HydrateDevelopment
<1> QED
  BY <1>1, <1>2 DEF HydrateDevelopment

\* The developer and the evaluator write the steps of the task's plan.
LEMMA WorkStep ==
  ASSUME Inv, NEW t \in DOMAIN task, Developed(t) \/ Evaluated(t)
  PROVE  Inv' /\ Stays
<1> DEFINE i == task[t].plan
<1>0. /\ Jobs(task) /\ t \in 1..Len(task) /\ task[t] \in Job /\ Bound(task[t])
      /\ DOMAIN plans = 1..Len(plans) /\ \A k \in 1..Len(plans) : plans[k] \in PlanRow
      /\ plans \in Seq(PlanRow)
  BY Domains DEF Inv, Shape
<1>1. Name(t) \in {"develop", "evaluate"}
  BY DEF Developed, Evaluated, Seen, In
<1>2. task[t].bp = "development" /\ task[t].at # 1
  <2>1. ASSUME NEW bp \in {"plan", "development", "debug"}, NEW k \in 1..Len(Nodes[bp]),
               Nodes[bp][k] \in {"develop", "evaluate"}
        PROVE  bp = "development" /\ k # 1
    <3>1. CASE bp = "plan"
      <4>1. Len(Nodes[bp]) = 4
        BY <3>1 DEF Nodes
      <4>2. k \in {1, 2, 3, 4}
        BY <4>1
      <4> QED
        BY <2>1, <3>1, <4>2 DEF Nodes
    <3>2. CASE bp = "development"
      BY <2>1, <3>2 DEF Nodes
    <3>3. CASE bp = "debug"
      <4>1. Len(Nodes[bp]) = 5
        BY <3>3 DEF Nodes
      <4>2. k \in {1, 2, 3, 4, 5}
        BY <4>1
      <4> QED
        BY <2>1, <3>3, <4>2 DEF Nodes
    <3> QED
      BY <3>1, <3>2, <3>3
  <2> QED
    BY <1>0, <1>1, <2>1 DEF Job, Bound, Name
<1>3. i \in Approved /\ i \in 1..Len(plans)
  BY <1>0, <1>2 DEF Bound, Approved
<1>4. PICK g \in [Steps -> {"pending", "done", "failed"}] :
        /\ plans' = [plans EXCEPT ![i].steps = g]
        /\ \A s \in Steps : plans[i].steps[s] = "failed" => g[s] = "failed"
  <2>1. plans[i].steps \in [Steps -> {"pending", "done", "failed"}]
    BY <1>0, <1>3 DEF PlanRow
  <2>2. CASE Developed(t)
    <3> DEFINE g == [s \in Steps |-> IF plans[i].steps[s] = "pending" THEN "done"
                                     ELSE plans[i].steps[s]]
    <3>1. g \in [Steps -> {"pending", "done", "failed"}]
      BY <2>1
    <3>2. plans' = [plans EXCEPT ![i].steps = g]
      BY <2>2 DEF Developed
    <3> QED
      BY <3>1, <3>2
  <2>3. CASE Evaluated(t)
    <3>1. PICK F \in SUBSET Steps :
            plans' = [plans EXCEPT ![i].steps =
                        [s \in Steps |-> IF s \in F THEN "failed" ELSE @[s]]]
      BY <2>3 DEF Evaluated
    <3> DEFINE g == [s \in Steps |-> IF s \in F THEN "failed" ELSE plans[i].steps[s]]
    <3>2. g \in [Steps -> {"pending", "done", "failed"}]
      BY <2>1
    <3>3. plans' = [plans EXCEPT ![i].steps = g]
      BY <3>1
    <3> QED
      BY <3>2, <3>3
  <2> QED
    BY <2>2, <2>3
<1> DEFINE e == [plans[i] EXCEPT !.steps = g]
<1>5. e \in PlanRow /\ e.status = "approved" /\ e.steps = g
  BY <1>0, <1>3 DEF PlanRow, Approved
<1>6. plans' = [plans EXCEPT ![i] = e]
  BY <1>4
<1> HIDE DEF e, i, PlanRow, Job
<1>7. /\ plans' \in Seq(PlanRow) /\ Len(plans') = Len(plans)
      /\ \A k \in 1..Len(plans) : plans'[k] = IF k = i THEN e ELSE plans[k]
  BY <1>0, <1>3, <1>5, <1>6, Replace
<1>8. DOMAIN plans' = 1..Len(plans)
  BY <1>7, LenProperties
<1>9. OnlyApprovedWork'
  BY <1>0, <1>5, <1>7, <1>8 DEF Inv, OnlyApprovedWork
<1>10. \A k \in Approved : k \in 1..Len(plans') /\ plans'[k].status = "approved"
  BY <1>0, <1>5, <1>7 DEF Approved
<1>11. Stays
  BY <1>0, <1>4, <1>5, <1>7 DEF Stays
<1>12. Jobs(task')
  <2>1. Name(t) # "hydrate" /\ task' = [task EXCEPT ![t] = After(t)]
    BY <1>1 DEF Developed, Evaluated
  <2> QED
    BY <1>0, <2>1, AfterJob, JobsReplace
<1>13. UNCHANGED prVars /\ Uncompleted
  BY DEF Developed, Evaluated, stageVars, Uncompleted
<1> QED
  BY <1>7, <1>9, <1>10, <1>11, <1>12, <1>13, PlanFrame

\* A draft becomes the newest plan.
LEMMA PresentsStep ==
  ASSUME Inv, NEW t \in DOMAIN task, Present(t) \/ Show(t)
  PROVE  Inv' /\ Stays
<1>0. /\ Jobs(task) /\ t \in 1..Len(task)
      /\ DOMAIN plans = 1..Len(plans) /\ Len(plans) \in Nat
      /\ plans \in Seq(PlanRow)
  BY Domains DEF Inv, Shape
<1>1. Name(t) # "hydrate"
  BY DEF Present, Show, In
<1>2. \E actions : Presents(t, actions)
  BY DEF Present, Show
<1>3. CASE Raises(t) /\ UNCHANGED plans
  BY <1>2, <1>3, RaisesStep DEF Presents, Stays
<1>4. CASE /\ plans' = Append(plans, [status |-> "draft", steps |-> [s \in Steps |-> "pending"]])
           /\ stage' = "awaiting_user" /\ task' = [task EXCEPT ![t] = After(t)]
  <2> DEFINE e == [status |-> "draft", steps |-> [s \in Steps |-> "pending"]]
  <2>1. e \in PlanRow /\ \A s \in Steps : e.steps[s] = "pending"
    BY DEF PlanRow
  <2>2. plans' = Append(plans, e)
    BY <1>4
  <2> HIDE DEF e, PlanRow, Job
  <2>3. /\ plans' \in Seq(PlanRow) /\ Len(plans') = Len(plans) + 1
        /\ \A k \in 1..(Len(plans) + 1) : plans'[k] = IF k = Len(plans) + 1 THEN e ELSE plans[k]
    BY <1>0, <2>1, <2>2, Extend
  <2>4. DOMAIN plans' = 1..(Len(plans) + 1)
    BY <2>3, LenProperties
  <2>5. \A k \in 1..Len(plans) : k \in 1..(Len(plans) + 1) /\ plans'[k] = plans[k]
    BY <1>0, <2>3
  <2>6. OnlyApprovedWork'
    <3> SUFFICES ASSUME NEW k \in 1..(Len(plans) + 1), plans'[k].status # "approved",
                        NEW s \in Steps
                 PROVE  plans'[k].steps[s] = "pending"
      BY <2>4 DEF OnlyApprovedWork
    <3>1. CASE k = Len(plans) + 1
      BY <2>1, <2>3, <3>1
    <3>2. CASE k # Len(plans) + 1
      <4>1. k \in 1..Len(plans)
        BY <1>0, <3>2
      <4> QED
        BY <1>0, <2>5, <4>1 DEF Inv, OnlyApprovedWork
    <3> QED
      BY <3>1, <3>2
  <2>7. \A k \in Approved : k \in 1..Len(plans') /\ plans'[k].status = "approved"
    BY <1>0, <2>3, <2>5 DEF Approved
  <2>8. Stays
    BY <1>0, <2>5 DEF Stays
  <2>9. Jobs(task')
    BY <1>0, <1>1, <1>4, AfterJob, JobsReplace
  <2>10. UNCHANGED prVars /\ Uncompleted
    BY <1>2, <1>4 DEF Presents, Uncompleted
  <2> QED
    BY <2>3, <2>6, <2>7, <2>8, <2>9, <2>10, PlanFrame
<1> QED
  BY <1>2, <1>3, <1>4 DEF Presents

\* The owner decides the newest plan, which nobody has worked on.
LEMMA DecidesStep ==
  ASSUME Inv, NEW status \in {"approved", "rejected"}, NEW to \in {"developing", "planning"},
         NEW bp \in {"plan", "development"}, Decides(status, to, bp)
  PROVE  Inv' /\ Stays
<1> DEFINE n == Len(plans)
           e == [status |-> status,
                 steps |-> IF status = "approved" THEN [s \in Steps |-> "pending"]
                           ELSE plans[n].steps]
<1>0. /\ Jobs(task) /\ DOMAIN plans = 1..n /\ n \in Nat /\ plans \in Seq(PlanRow)
      /\ \A k \in 1..n : plans[k] \in PlanRow
  BY Domains DEF Inv, Shape
<1>1. n \in 1..n /\ plans[n].status = "draft"
  BY <1>0, EmptySeq DEF Decides
<1>2. \A s \in Steps : plans[n].steps[s] = "pending"
  BY <1>0, <1>1 DEF Inv, OnlyApprovedWork
<1>3. plans[n].steps \in [Steps -> {"pending", "done", "failed"}]
  BY <1>0, <1>1 DEF PlanRow
<1>4. e \in PlanRow
  BY <1>3 DEF PlanRow
<1>5. \A s \in Steps : e.steps[s] = "pending"
  BY <1>2
<1>6. plans' = [plans EXCEPT ![n] = e]
  BY DEF Decides
<1> HIDE DEF e, n, PlanRow, Job
<1>7. /\ plans' \in Seq(PlanRow) /\ Len(plans') = n
      /\ \A k \in 1..n : plans'[k] = IF k = n THEN e ELSE plans[k]
  BY <1>0, <1>1, <1>4, <1>6, Replace DEF n
<1>8. DOMAIN plans' = 1..n
  BY <1>7, LenProperties
<1>9. OnlyApprovedWork'
  BY <1>0, <1>5, <1>7, <1>8 DEF Inv, OnlyApprovedWork
<1>10. \A k \in Approved : k \in 1..Len(plans') /\ plans'[k].status = "approved"
  BY <1>0, <1>1, <1>7 DEF Approved
<1>11. Stays
  BY <1>0, <1>2, <1>7 DEF Stays
<1>12. Jobs(task')
  BY <1>0, FreshJob, JobsAppend DEF Decides, Track
<1>13. UNCHANGED prVars /\ Uncompleted
  BY DEF Decides, Moves, Uncompleted
<1> QED
  BY <1>7, <1>9, <1>10, <1>11, <1>12, <1>13, PlanFrame

-----------------------------------------------------------------------------
(* The owner's other steps.                                                *)

LEMMA JobsNewest ==
  ASSUME NEW T, Jobs(T), NEW x, T # <<>> => x \in Job /\ Bound(x)
  PROVE  Jobs([T EXCEPT ![Len(T)] = x])
<1> HIDE DEF Job, Bound
<1>0. T \in Seq(Job) /\ Len(T) \in Nat /\ DOMAIN T = 1..Len(T)
  BY LenProperties DEF Jobs
<1>1. CASE T = <<>>
  <2>1. [T EXCEPT ![Len(T)] = x] = T
    BY <1>0, <1>1
  <2> QED
    BY <2>1
<1>2. CASE T # <<>>
  <2>1. Len(T) \in 1..Len(T)
    BY <1>0, <1>2, EmptySeq
  <2> QED
    BY <1>2, <2>1, JobsReplace
<1> QED
  BY <1>1, <1>2

LEMMA OwnerStep ==
  ASSUME Inv, StartPlan \/ Stop \/ StopStamps \/ Abandon \/ Halted \/ Resume
  PROVE  Inv'
<1> HIDE DEF Job, Bound
<1>0. /\ Jobs(task) /\ Len(task) \in Nat /\ task \in Seq(Job)
      /\ \A t \in 1..Len(task) : task[t] \in Job /\ Bound(task[t])
  BY Domains DEF Inv, Jobs
<1>a. task # <<>> => Len(task) \in 1..Len(task)
  BY <1>0, EmptySeq
<1>1. CASE StartPlan
  <2>1. Jobs(task')
    BY <1>0, <1>1, FreshJob, JobsAppend DEF StartPlan, Track
  <2> QED
    BY <1>1, <2>1, TaskFrame DEF StartPlan, stageVars, Uncompleted
<1>2. CASE Stop
  BY <1>0, <1>2, JobsEnd, TaskFrame DEF Stop, Uncompleted
<1>3. CASE StopStamps
  BY <1>0, <1>3, JobsEnd, TaskFrame DEF StopStamps, Uncompleted
<1>4. CASE Abandon
  BY <1>0, <1>4, TaskFrame DEF Abandon, Uncompleted
<1>5. CASE Halted
  <2> DEFINE cancelled == [task EXCEPT ![Len(task)] = Over(Len(task))]
  <2>1. Jobs(cancelled)
    BY <1>0, <1>a, OverJob, JobsNewest
  <2>2. task' \in {cancelled, LanesEnd(cancelled)}
    BY <1>5 DEF Halted
  <2> HIDE DEF cancelled
  <2>3. Jobs(task')
    BY <2>1, <2>2, JobsEnd
  <2> QED
    BY <1>5, <2>3, TaskFrame DEF Halted, Uncompleted
<1>6. CASE Resume
  <2> DEFINE T == [task EXCEPT ![Len(task)] = Ended(task[Len(task)])]
  <2>1. Jobs(T)
    BY <1>0, <1>a, EndedJob, JobsNewest
  <2>2. PICK mode \in Modes : task' = Append(T, Fresh(mode, FALSE))
    BY <1>6 DEF Resume, Track
  <2> HIDE DEF T
  <2>3. Jobs(task')
    BY <2>1, <2>2, FreshJob, JobsAppend DEF Modes
  <2> QED
    BY <1>6, <2>3, TaskFrame DEF Resume, Moves, Uncompleted
<1> QED
  BY <1>1, <1>2, <1>3, <1>4, <1>5, <1>6

-----------------------------------------------------------------------------
(* The steps of the pull requests.                                         *)

\* The links of approved plans, and the requests that are sound before or after the
\* step.
OkLinks == {l \in LinkRow : l.plan \in Approved /\ l.pr \in 1..Len(prs)}
OkRequests == {q \in Request : Asked(q) \/ Asked(q)'}

LEMMA Narrow ==
  ASSUME NEW S, NEW T, NEW q \in Seq(S), \A i \in 1..Len(q) : q[i] \in T
  PROVE  q \in Seq(T)
<1>1. Len(q) \in Nat /\ q \in [1..Len(q) -> T]
  BY LenProperties
<1> QED
  BY <1>1

LEMMA Sound ==
  ASSUME Inv
  PROVE  links \in Seq(OkLinks) /\ request \in Seq(OkRequests)
<1> HIDE DEF LinkRow, Request
<1>1. \A l \in 1..Len(links) : links[l] \in OkLinks
  BY Domains DEF Inv, Linked, OkLinks
<1>2. \A r \in 1..Len(request) : request[r] \in OkRequests
  BY Domains DEF Inv, Requested, OkRequests
<1> QED
  BY <1>1, <1>2, Narrow DEF Inv, Shape

\* A pull request never goes away, and what is completed stays so.
LEMMA RequestFrame ==
  ASSUME Inv, UNCHANGED <<plans, task>>,
         prs' \in Seq({"active", "completed"}), Len(prs) <= Len(prs'),
         \A p \in 1..Len(prs) : prs[p] = "completed" => prs'[p] = "completed",
         links' \in Seq(OkLinks), request' \in Seq(OkRequests),
         stage' = "completed" =>
           stage = "completed" \/ \E p \in 1..Len(prs) : prs[p] = "completed"
  PROVE  Inv'
<1> HIDE DEF PlanRow, Job, LinkRow, Request
<1>0. /\ Len(prs) \in Nat /\ DOMAIN prs = 1..Len(prs)
      /\ Len(prs') \in Nat /\ DOMAIN prs' = 1..Len(prs')
  BY Domains, LenProperties DEF Inv
<1>1. Approved' = Approved /\ \A p \in 1..Len(prs) : p \in 1..Len(prs')
  BY <1>0 DEF Approved
<1>2. \A x : Bound(x) => Bound(x)'
  BY <1>1 DEF Bound
<1>3. Jobs(task)' /\ OnlyApprovedWork'
  BY <1>2 DEF Inv, Jobs, OnlyApprovedWork
<1>4. \A q \in OkRequests : q \in Request /\ Asked(q)'
  <2> SUFFICES ASSUME NEW q \in Request, Asked(q)
               PROVE  Asked(q)'
    BY DEF OkRequests
  <2> QED
    BY <1>1 DEF Asked
<1>5. /\ \A l \in 1..Len(links') : links'[l] \in OkLinks
      /\ \A r \in 1..Len(request') : request'[r] \in OkRequests
  BY ElementOfSeq
<1>6. Linked'
  BY <1>1, <1>5 DEF Linked, OkLinks
<1>7. Requested'
  <2> SUFFICES ASSUME NEW r \in 1..Len(request')
               PROVE  Asked(request[r])'
    BY DEF Requested
  <2>1. PICK q \in OkRequests : q = request'[r]
    BY <1>5
  <2>2. Asked(q)'
    BY <1>4
  <2> QED
    BY <2>1, <2>2 DEF Asked
<1>8. links' \in Seq(LinkRow) /\ request' \in Seq(Request)
  BY <1>5, Narrow DEF OkLinks, OkRequests
<1>9. Shape'
  BY <1>8 DEF Inv, Shape
<1>10. CompletedIsMerged'
  BY <1>0, <1>1 DEF Inv, CompletedIsMerged
<1> QED
  BY <1>3, <1>6, <1>7, <1>9, <1>10 DEF Inv

\* The gate: every step of a plan with steps is done, so the plan was approved.
LEMMA CompleteApproved ==
  ASSUME Inv, Complete
  PROVE  Len(plans) \in Approved
<1>1. Len(plans) \in DOMAIN plans
  BY Domains, EmptySeq DEF Inv, Complete, Shape
<1> QED
  BY <1>1 DEF Inv, OnlyApprovedWork, Complete, Approved

\* A set of positions has a last one.
LEMMA Greatest ==
  ASSUME NEW n \in Nat, NEW S \in SUBSET (1..n), S # {}
  PROVE  \E x \in S : \A y \in S : y <= x
<1> DEFINE D == {n - x : x \in S}
<1>1. D \subseteq Nat /\ D # {}
  <2>1. \A x \in S : x \in 1..n /\ n - x \in Nat
    OBVIOUS
  <2> QED
    BY <2>1
<1>2. \E d \in D : \A e \in D : <<e, d>> \notin OpToRel(<, Nat)
  <2> HIDE DEF D
  <2> QED
    BY <1>1, NatLessThanWellFounded, WFMin, Zenon
<1>3. \A d, e \in Nat : e < d => <<e, d>> \in OpToRel(<, Nat)
  BY DEF OpToRel
<1>4. PICK d \in D : \A e \in D : ~(e < d)
  BY <1>1, <1>2, <1>3
<1>5. PICK x \in S : d = n - x
  OBVIOUS
<1>6. \A y \in S : n - y \in D
  OBVIOUS
<1>7. ASSUME NEW y \in S
      PROVE  y <= x
  <2>1. ~(n - y < n - x)
    BY <1>4, <1>5, <1>6
  <2> QED
    BY <2>1
<1> QED
  BY <1>7

LEMMA OpenLinkIn ==
  ASSUME Inv, OpenLink # 0
  PROVE  OpenLink \in 1..Len(links) /\ links[OpenLink].pr \in 1..Len(prs)
<1>1. DOMAIN links = 1..Len(links) /\ Len(links) \in Nat
  BY Domains DEF Inv
<1> DEFINE open == {l \in DOMAIN links : links[l].status = "open"}
<1>2. OpenLink \in open
  <2>1. open # {}
    BY DEF OpenLink
  <2>2. \E l \in open : \A k \in open : k <= l
    <3>1. open \subseteq 1..Len(links)
      BY <1>1
    <3> QED
      BY <1>1, <2>1, <3>1, Greatest
  <2> QED
    BY <2>1, <2>2 DEF OpenLink
<1> QED
  BY <1>1, <1>2 DEF Inv, Linked

\* A merge that is recorded on a link.
LEMMA Merges ==
  ASSUME Inv,
         \/ links' = links
         \/ OpenLink # 0 /\ links' = [links EXCEPT ![OpenLink].status = "merged"]
  PROVE  links' \in Seq(OkLinks)
<1>1. links \in Seq(OkLinks) /\ \A l \in 1..Len(links) : links[l] \in OkLinks
  BY Sound, ElementOfSeq
<1>2. CASE OpenLink # 0 /\ links' = [links EXCEPT ![OpenLink].status = "merged"]
  <2> DEFINE l == [links[OpenLink] EXCEPT !.status = "merged"]
  <2>1. OpenLink \in 1..Len(links)
    BY <1>2, OpenLinkIn
  <2>2. l \in OkLinks
    BY <1>1, <2>1 DEF OkLinks, LinkRow
  <2>3. links' = [links EXCEPT ![OpenLink] = l]
    BY <1>2
  <2> HIDE DEF l, OkLinks
  <2> QED
    BY <1>1, <2>1, <2>2, <2>3, Replace
<1> QED
  BY <1>1, <1>2

LEMMA RequestsBegin ==
  ASSUME Inv, CreatePr \/ MergePr \/ Handoff \/ MarkMerged \/ \E p \in DOMAIN prs : HumanMerges(p)
  PROVE  Inv'
<1> HIDE DEF PlanRow, Job, LinkRow, Request, OkLinks, OkRequests
<1>0. /\ Len(prs) \in Nat /\ DOMAIN prs = 1..Len(prs) /\ Len(plans) \in Nat
      /\ prs \in Seq({"active", "completed"})
      /\ links \in Seq(OkLinks) /\ request \in Seq(OkRequests)
      /\ \A l \in 1..Len(links) : links[l] \in LinkRow
  BY Domains, Sound DEF Inv, Shape
<1>1. CASE CreatePr
  <2> DEFINE q == [kind |-> "create", pc |-> "push", plan |-> Len(plans), pr |-> 0]
  <2>1. q \in OkRequests
    <3>1. Len(plans) \in Approved
      BY <1>1, CompleteApproved DEF CreatePr
    <3> QED
      BY <1>0, <3>1 DEF Asked, Request, OkRequests
  <2>2. request' = Append(request, q)
    BY <1>1 DEF CreatePr
  <2> HIDE DEF q
  <2>3. request' \in Seq(OkRequests)
    BY <1>0, <2>1, <2>2, Extend
  <2> QED
    BY <1>0, <1>1, <2>3, RequestFrame DEF CreatePr, stageVars
<1>2. CASE MergePr
  <2> DEFINE q == [kind |-> "merge", pc |-> "complete", plan |-> 0, pr |-> links[OpenLink].pr]
  <2>1. q \in OkRequests
    <3>1. links[OpenLink].pr \in 1..Len(prs)
      BY <1>2, OpenLinkIn DEF MergePr
    <3> QED
      BY <1>0, <3>1 DEF Asked, Request, OkRequests
  <2>2. request' = Append(request, q)
    BY <1>2 DEF MergePr
  <2> HIDE DEF q
  <2>3. request' \in Seq(OkRequests)
    BY <1>0, <2>1, <2>2, Extend
  <2> QED
    BY <1>0, <1>2, <2>3, RequestFrame DEF MergePr, stageVars
<1>3. CASE Handoff
  BY <1>0, <1>3, RequestFrame DEF Handoff, prVars, stageVars
<1>4. CASE MarkMerged
  <2>1. links' \in Seq(OkLinks)
    BY <1>4, Merges DEF MarkMerged
  <2> QED
    BY <1>0, <1>4, <2>1, RequestFrame DEF MarkMerged, stageVars
<1>5. ASSUME NEW p \in DOMAIN prs, HumanMerges(p)
      PROVE  Inv'
  <2>1. /\ prs' \in Seq({"active", "completed"}) /\ Len(prs') = Len(prs)
        /\ \A k \in 1..Len(prs) : prs'[k] = IF k = p THEN "completed" ELSE prs[k]
    BY <1>0, <1>5, Replace DEF HumanMerges
  <2>2. UNCHANGED <<plans, task, links, request, stage>>
    BY <1>5 DEF HumanMerges, stageVars
  <2> QED
    BY <1>0, <2>1, <2>2, RequestFrame
<1> QED
  BY <1>1, <1>2, <1>3, <1>4, <1>5

LEMMA RequestsGoOn ==
  ASSUME Inv, NEW r \in DOMAIN request,
         OpenInAdo(r) \/ RequestFails(r) \/ Link(r) \/ CompleteInAdo(r) \/ Merged(r)
  PROVE  Inv'
<1> HIDE DEF PlanRow, Job, LinkRow, Request, OkLinks, OkRequests
<1>0. /\ Len(prs) \in Nat /\ DOMAIN prs = 1..Len(prs)
      /\ prs \in Seq({"active", "completed"})
      /\ links \in Seq(OkLinks) /\ request \in Seq(OkRequests)
      /\ r \in 1..Len(request) /\ request[r] \in Request /\ Asked(request[r])
  BY Domains, Sound DEF Inv, Shape, Requested
<1>a. request[r].kind \in {"create", "merge"}
  BY <1>0 DEF Request
<1>b. RemoveAt(request, r) \in Seq(OkRequests)
  BY <1>0, Removed
<1>1. CASE OpenInAdo(r)
  <2>1. request[r].kind = "create" /\ request[r].plan \in Approved
    BY <1>0, <1>1, <1>a DEF OpenInAdo, Asked
  <2>0. UNCHANGED <<stage, plans, task, links>>
    BY <1>1 DEF OpenInAdo, stageVars
  <2>2. ASSUME NEW p \in Nat, Opened(r, p), p \in 1..Len(prs'), UNCHANGED plans
        PROVE  request' \in Seq(OkRequests)
    <3>0. PICK q : q = [request[r] EXCEPT !.pc = "opened", !.pr = p]
      OBVIOUS
    <3>1. q \in Request /\ q.kind = "create" /\ q.plan = request[r].plan /\ q.pc = "opened" /\ q.pr = p
      BY <1>0, <2>1, <3>0 DEF Request
    <3>2. request' = [request EXCEPT ![r] = q]
      BY <2>2, <3>0 DEF Opened
    <3>3. Asked(q)'
      BY <2>1, <2>2, <3>1 DEF Asked, Approved
    <3>4. q \in OkRequests
      BY <3>1, <3>3 DEF OkRequests
    <3> QED
      BY <1>0, <3>2, <3>4, Replace
  <2>3. ASSUME NEW p \in Active, Opened(r, p), UNCHANGED prs
        PROVE  Inv'
    <3>1. p \in Nat /\ p \in 1..Len(prs')
      BY <1>0, <2>3 DEF Active
    <3>2. request' \in Seq(OkRequests)
      BY <2>0, <2>2, <2>3, <3>1
    <3> QED
      BY <1>0, <2>0, <2>3, <3>2, RequestFrame
  <2>4. ASSUME prs' = Append(prs, "active"), Opened(r, Len(prs) + 1)
        PROVE  Inv'
    <3>1. /\ prs' \in Seq({"active", "completed"}) /\ Len(prs') = Len(prs) + 1
          /\ \A p \in 1..(Len(prs) + 1) : prs'[p] = IF p = Len(prs) + 1 THEN "active" ELSE prs[p]
      BY <1>0, <2>4, Extend
    <3>a. Len(prs) + 1 \in Nat /\ Len(prs) + 1 \in 1..Len(prs')
      BY <1>0, <3>1
    <3>2. request' \in Seq(OkRequests)
      BY <2>0, <2>2, <2>4, <3>a
    <3>3. \A p \in 1..Len(prs) : p \in 1..(Len(prs) + 1) /\ prs'[p] = prs[p]
      BY <1>0, <3>1
    <3> QED
      BY <1>0, <2>0, <3>1, <3>2, <3>3, RequestFrame
  <2> QED
    BY <1>1, <2>3, <2>4 DEF OpenInAdo
<1>2. CASE RequestFails(r)
  BY <1>0, <1>2, <1>b, RequestFrame DEF RequestFails, stageVars
<1>3. CASE Link(r)
  <2> DEFINE l == [pr |-> request[r].pr, plan |-> request[r].plan, status |-> "open"]
  <2>1. request[r].plan \in Approved /\ request[r].pr \in 1..Len(prs)
    BY <1>0, <1>3, <1>a DEF Link, Asked
  <2>2. l \in OkLinks
    BY <1>0, <2>1 DEF Request, LinkRow, OkLinks
  <2>3. links' = Append(links, l)
    BY <1>3 DEF Link
  <2> HIDE DEF l
  <2>4. links' \in Seq(OkLinks)
    BY <1>0, <2>2, <2>3, Extend
  <2>5. stage' = "completed" => stage = "completed"
    BY <1>3 DEF Link, Moves, stageVars
  <2> QED
    BY <1>0, <1>3, <1>b, <2>4, <2>5, RequestFrame DEF Link
<1>4. CASE CompleteInAdo(r)
  <2>1. request[r].kind = "merge" /\ request[r].pr \in 1..Len(prs)
    BY <1>0, <1>4, <1>a DEF CompleteInAdo, Asked
  <2>2. /\ prs' \in Seq({"active", "completed"}) /\ Len(prs') = Len(prs)
        /\ \A p \in 1..Len(prs) : prs'[p] = IF p = request[r].pr THEN "completed" ELSE prs[p]
    BY <1>0, <1>4, <2>1, Replace DEF CompleteInAdo
  <2>0. PICK q : q = [request[r] EXCEPT !.pc = "completed"]
    OBVIOUS
  <2>3. q \in Request /\ q.kind = "merge" /\ q.pc = "completed" /\ q.pr = request[r].pr
    BY <1>0, <2>0, <2>1 DEF Request
  <2>4. request' = [request EXCEPT ![r] = q]
    BY <1>4, <2>0 DEF CompleteInAdo
  <2>5. Asked(q)'
    BY <2>1, <2>2, <2>3 DEF Asked
  <2>6. q \in OkRequests
    BY <2>3, <2>5 DEF OkRequests
  <2>7. request' \in Seq(OkRequests)
    BY <1>0, <2>4, <2>6, Replace
  <2> QED
    BY <1>0, <1>4, <2>2, <2>7, RequestFrame DEF CompleteInAdo, stageVars
<1>5. CASE Merged(r)
  <2>1. request[r].pr \in 1..Len(prs) /\ prs[request[r].pr] = "completed"
    BY <1>0, <1>5, <1>a DEF Merged, Asked
  <2>2. links' \in Seq(OkLinks)
    BY <1>0, <1>5, Merges DEF Merged
  <2> QED
    BY <1>0, <1>5, <1>b, <2>1, <2>2, RequestFrame DEF Merged
<1> QED
  BY <1>1, <1>2, <1>3, <1>4, <1>5

-----------------------------------------------------------------------------
LEMMA Single ==
  ASSUME NEW S, NEW x \in S
  PROVE  <<x>> \in Seq(S) /\ Len(<<x>>) = 1 /\ <<x>>[1] = x
OBVIOUS

LEMMA InitInv ==
  ASSUME WorkInit
  PROVE  Inv
<1>1. PICK mode \in Modes : task = <<Fresh(mode, FALSE)>>
  BY DEF WorkInit
<1>2. Fresh(mode, FALSE) \in Job /\ Bound(Fresh(mode, FALSE))
  BY FreshJob DEF Modes
<1>3. Jobs(task)
  <2> HIDE DEF Job, Bound
  <2>1. PICK x \in Job : x = Fresh(mode, FALSE) /\ Bound(x)
    BY <1>2
  <2>2. task = <<x>> /\ Len(<<x>>) = 1 /\ <<x>>[1] = x /\ <<x>> \in Seq(Job)
    BY <1>1, <2>1, Single
  <2>3. \A u \in 1..Len(task) : task[u] = x
    BY <2>2
  <2> QED
    BY <2>1, <2>2, <2>3 DEF Jobs
<1>4. /\ Len(plans) = 0 /\ Len(prs) = 0 /\ Len(links) = 0 /\ Len(request) = 0
      /\ DOMAIN plans = {}
  BY DEF WorkInit
<1>5. Shape
  BY EmptySeq DEF WorkInit, Shape
<1>6. OnlyApprovedWork /\ Linked /\ Requested /\ CompletedIsMerged
  BY <1>4 DEF WorkInit, OnlyApprovedWork, Linked, Requested, CompletedIsMerged
<1> QED
  BY <1>3, <1>5, <1>6 DEF Inv

LEMMA NextInv ==
  ASSUME Inv, [WorkNext]_workVars
  PROVE  Inv' /\ (UNCHANGED plans \/ Stays)
<1>1. ASSUME NEW t \in DOMAIN task, Quiet(t)
      PROVE  Inv' /\ UNCHANGED plans
  <2>1. UNCHANGED plans
    BY <1>1 DEF Quiet, HydratePlan, HydrateDebug, Draft, Critique, Develop, Evaluate, Diagnose,
                Propose, Drafted, Noted, StampTests, Returns, Spawns
  <2> QED
    BY <1>1, <2>1, QuietStep
<1>2. ASSUME NEW t \in DOMAIN task,
             Enter(t) \/ LaneEnds(t) \/ Reproduce(t) \/ NodeFails(t) \/ Reap(t)
      PROVE  Inv' /\ UNCHANGED plans
  <2>1. UNCHANGED plans
    BY <1>2 DEF Enter, LaneEnds, Reproduce, NodeFails, Reap
  <2> QED
    BY <1>2, <2>1, BefallsStep
<1>3. ASSUME NEW t \in DOMAIN task, HydrateDevelopment(t)
      PROVE  Inv' /\ UNCHANGED plans
  BY <1>3, HydrateDevelopmentStep DEF HydrateDevelopment
<1>4. ASSUME NEW t \in DOMAIN task, Developed(t) \/ Evaluated(t) \/ Present(t) \/ Show(t)
      PROVE  Inv' /\ Stays
  BY <1>4, WorkStep, PresentsStep
<1>5. CASE ApprovePlan \/ RejectPlan
  BY <1>5, DecidesStep DEF ApprovePlan, RejectPlan
<1>6. CASE StartPlan \/ Stop \/ StopStamps \/ Abandon \/ Halted \/ Resume
  <2>1. UNCHANGED plans
    BY <1>6 DEF StartPlan, Stop, StopStamps, Abandon, Halted, Resume
  <2> QED
    BY <1>6, <2>1, OwnerStep
<1>7. CASE CreatePr \/ MergePr \/ Handoff \/ MarkMerged \/ \E p \in DOMAIN prs : HumanMerges(p)
  <2>1. UNCHANGED plans
    BY <1>7 DEF CreatePr, MergePr, Handoff, MarkMerged, HumanMerges
  <2> QED
    BY <1>7, <2>1, RequestsBegin
<1>8. ASSUME NEW r \in DOMAIN request,
             OpenInAdo(r) \/ RequestFails(r) \/ Link(r) \/ CompleteInAdo(r) \/ Merged(r)
      PROVE  Inv' /\ UNCHANGED plans
  <2>1. UNCHANGED plans
    BY <1>8 DEF OpenInAdo, RequestFails, Link, CompleteInAdo, Merged
  <2> QED
    BY <1>8, <2>1, RequestsGoOn
<1>9. CASE UNCHANGED workVars
  <2>1. UNCHANGED <<plans, prVars, task, stage>>
    BY <1>9 DEF workVars, stageVars
  <2> QED
    BY <2>1, TaskFrame DEF Inv, Uncompleted
<1> QED
  BY <1>1, <1>2, <1>3, <1>4, <1>5, <1>6, <1>7, <1>8, <1>9 DEF WorkNext, Quiet

\* The inductive invariant holds in every reachable state.
THEOREM Invariance == WorkSpec => []Inv
<1>1. WorkInit => Inv
  BY InitInv
<1>2. Inv /\ [WorkNext]_workVars => Inv'
  BY NextInv
<1> QED
  BY <1>1, <1>2, PTL DEF WorkSpec

\* No step of a plan is worked on or judged before the plan is approved: for every
\* interleaving of blueprints, decisions, stops and resumes (development.py:79).
THEOREM ApprovedWork == WorkSpec => []OnlyApprovedWork
BY Invariance, PTL DEF Inv

\* A pull request carries a plan a human approved, though the gate looks at its
\* steps alone (delivery.py:133).
THEOREM ApprovedShips == WorkSpec => []ShipsApproved
<1>1. Inv => ShipsApproved
  BY Domains DEF Inv, Linked, ShipsApproved, Approved
<1> QED
  BY <1>1, Invariance, PTL

\* A run is completed only after ADO has completed a pull request of its branch
\* (run_manager.py:1125).
THEOREM Completed == WorkSpec => []CompletedIsMerged
BY Invariance, PTL DEF Inv

\* A step that was judged failed stays failed: neither a later developer, nor a
\* later verdict, nor a decision of the owner resets it (development.py:54).
THEOREM FailedForGood == WorkSpec => FailedStays
<1>1. Inv /\ [WorkNext]_workVars =>
        [\A i \in DOMAIN plans : \A s \in Steps :
           plans[i].steps[s] = "failed" => plans'[i].steps[s] = "failed"]_workVars
  BY NextInv DEF Stays
<1> QED
  BY <1>1, Invariance, PTL DEF WorkSpec, FailedStays

-----------------------------------------------------------------------------
(* Numbers. *)

LEMMA Inductive ==
  ASSUME NEW A, 0 \in A, \A n \in A \cap Nat : n + 1 \in A
  PROVE  Nat \subseteq A
<1> SUFFICES ASSUME Nat \ A # {} PROVE FALSE
  OBVIOUS
<1> DEFINE B == Nat \ A
<1>1. B \in SUBSET Nat /\ B # {}
  OBVIOUS
<1>2. \A n \in B : n - 1 \in B
  OBVIOUS
<1> HIDE DEF B
<1>3. \E n \in B : \A k \in B : <<k, n>> \notin OpToRel(<, Nat)
  BY <1>1, NatLessThanWellFounded, WFMin, Zenon
<1>4. \A x, y \in Nat : x < y => <<x, y>> \in OpToRel(<, Nat)
  BY DEF OpToRel
<1>5. PICK n \in B : \A k \in B : ~(k < n)
  BY <1>1, <1>3, <1>4, Zenon
<1> QED
  BY <1>1, <1>2, <1>5

\* A set of numbers with a bound has a greatest element.
LEMMA Highest ==
  ASSUME NEW m \in Nat, NEW D \in SUBSET Nat, D # {}, \A d \in D : d < m
  PROVE  Max(D) \in D /\ \A d \in D : d <= Max(D)
<1> DEFINE Peak(E) == \E i \in E : \A j \in E : i >= j
           A == {n \in Nat : \A E \in SUBSET Nat : E # {} /\ (\A d \in E : d < n) => Peak(E)}
<1>1. 0 \in A
  <2>1. \A E \in SUBSET Nat : (\A d \in E : d < 0) => E = {}
    <3> SUFFICES ASSUME NEW E \in SUBSET Nat, \A d \in E : d < 0, NEW d \in E PROVE FALSE
      OBVIOUS
    <3>1. d \in Nat /\ d < 0
      OBVIOUS
    <3> QED
      BY <3>1
  <2> HIDE DEF Peak
  <2> QED
    BY <2>1
<1>2. ASSUME NEW n \in A \cap Nat PROVE n + 1 \in A
  <2>1. ASSUME NEW E \in SUBSET Nat, E # {}, \A d \in E : d < n + 1 PROVE Peak(E)
    <3>1. CASE n \in E
      BY <2>1, <3>1
    <3>2. CASE n \notin E
      <4>1. \A d \in E : d < n
        BY <2>1, <3>2
      <4> QED
        BY <2>1, <4>1
    <3> QED
      BY <3>1, <3>2
  <2> HIDE DEF Peak
  <2> QED
    BY <2>1
<1> HIDE DEF A
<1>3. m \in A
  BY <1>1, <1>2, Inductive
<1>4. Peak(D)
  BY <1>3 DEF A
<1>5. Max(D) \in D /\ \A d \in D : Max(D) >= d
  BY <1>4 DEF Max
<1> QED
  BY <1>5

\* and a least one.
LEMMA Lowest ==
  ASSUME NEW D \in SUBSET Nat, D # {}
  PROVE  Min(D) \in D /\ \A d \in D : Min(D) <= d
<1>1. \E n \in D : \A k \in D : <<k, n>> \notin OpToRel(<, Nat)
  BY NatLessThanWellFounded, WFMin, Zenon
<1>2. \A x, y \in Nat : x < y => <<x, y>> \in OpToRel(<, Nat)
  BY DEF OpToRel
<1>3. PICK n \in D : \A k \in D : ~(k < n)
  BY <1>1, <1>2, Zenon
<1>4. n <= n /\ \A k \in D : n <= k
  BY <1>3
<1> QED
  BY <1>4 DEF Min

-----------------------------------------------------------------------------
(* What folding events into a history does to it.                          *)

Rising(s) == \A i \in 1..Len(s) : \A k \in 1..(i - 1) : s[k] < s[i]

\* h is s with the seqs of D folded in.
Holds(h, s, D) == h \in Seq(Nat) /\ Rising(h) /\ ToSet(h) = ToSet(s) \cup D

LEMMA UpsertHolds ==
  ASSUME NEW s \in Seq(Nat), Rising(s), NEW n \in Nat
  PROVE  Holds(Upsert(s, n), s, {n})
<1> DEFINE higher == {i \in 1..Len(s) : s[i] > n}
           u == Upsert(s, n)
<1>1. Len(s) \in Nat /\ DOMAIN s = 1..Len(s) /\ ToSet(s) = {s[i] : i \in 1..Len(s)}
  BY DEF ToSet
<1>0. Len(s) \in Nat
  OBVIOUS
<1>2. \A i \in 1..Len(s) : s[i] \in Nat
  BY <1>1
<1>3. \A i, k \in 1..Len(s) : k < i => s[k] < s[i]
  <2> SUFFICES ASSUME NEW i \in 1..Len(s), NEW k \in 1..Len(s), k < i PROVE s[k] < s[i]
    OBVIOUS
  <2>1. k \in 1..(i - 1)
    BY <1>1
  <2> QED
    BY <2>1 DEF Rising
<1>4. CASE n \in ToSet(s)
  <2>1. u = s
    BY <1>4 DEF Upsert
  <2> QED
    BY <1>4, <2>1 DEF Holds
<1>5. CASE n \notin ToSet(s) /\ higher = {}
  <2>1. u = Append(s, n)
    BY <1>5 DEF Upsert
  <2>2. u \in Seq(Nat) /\ Len(u) = Len(s) + 1
    BY <2>1
  <2>3. u[Len(s) + 1] = n /\ \A i \in 1..Len(s) : u[i] = s[i]
    BY <1>1, <2>1
  <2>4. \A i \in 1..Len(s) : s[i] < n
    <3> SUFFICES ASSUME NEW i \in 1..Len(s) PROVE s[i] < n
      OBVIOUS
    <3>1. ~(s[i] > n) /\ s[i] # n
      BY <1>1, <1>5
    <3> QED
      BY <1>2, <3>1
  <2> HIDE DEF u
  <2>5. Rising(u)
    <3> SUFFICES ASSUME NEW i \in 1..Len(u), NEW k \in 1..(i - 1) PROVE u[k] < u[i]
      BY DEF Rising
    <3>1. k \in 1..Len(s) /\ (i = Len(s) + 1 \/ (i \in 1..Len(s) /\ k < i))
      BY <1>1, <2>2
    <3> QED
      BY <1>3, <2>3, <2>4, <3>1
  <2>6. ToSet(u) = ToSet(s) \cup {n}
    <3>1. DOMAIN u = 1..(Len(s) + 1) /\ 1..(Len(s) + 1) = (1..Len(s)) \cup {Len(s) + 1}
      BY <1>1, <2>2
    <3> QED
      BY <1>1, <2>3, <3>1 DEF ToSet
  <2> QED
    BY <2>2, <2>5, <2>6 DEF Holds, u
<1>6. CASE n \notin ToSet(s) /\ higher # {}
  <2> DEFINE p == Min(higher)
  <2>1. p \in 1..Len(s) /\ s[p] > n /\ \A i \in higher : p <= i
    <3>1. higher \in SUBSET Nat
      OBVIOUS
    <3>2. Min(higher) \in higher /\ \A i \in higher : Min(higher) <= i
      BY <1>6, <3>1, Lowest
    <3> QED
      BY <3>2
  <2>2. u = SubSeq(s, 1, p - 1) \o <<n>> \o SubSeq(s, p, Len(s))
    BY <1>6 DEF Upsert, InsertAt
  <2> HIDE DEF p
  <2>3. \A i \in 1..(p - 1) : s[i] < n
    <3> SUFFICES ASSUME NEW i \in 1..(p - 1) PROVE s[i] < n
      OBVIOUS
    <3>1. i \in 1..Len(s) /\ i \notin higher
      BY <1>1, <2>1
    <3>2. ~(s[i] > n) /\ s[i] # n
      BY <1>1, <1>6, <3>1
    <3> QED
      BY <1>2, <3>1, <3>2
  <2>4. \A i \in p..Len(s) : n < s[i]
    <3> SUFFICES ASSUME NEW i \in p..Len(s) PROVE n < s[i]
      OBVIOUS
    <3>1. i \in 1..Len(s) /\ (i = p \/ p < i)
      BY <1>1, <2>1
    <3> QED
      BY <1>2, <1>3, <2>1, <3>1
  <2>5. /\ u \in Seq(Nat) /\ Len(u) = Len(s) + 1
        /\ \A i \in 1..(p - 1) : u[i] = s[i]
        /\ u[p] = n
        /\ \A i \in (p + 1)..(Len(s) + 1) : u[i] = s[i - 1]
    <3> DEFINE before == SubSeq(s, 1, p - 1)
               after == SubSeq(s, p, Len(s))
    <3>1. before \in Seq(Nat) /\ Len(before) = p - 1 /\ \A i \in 1..(p - 1) : before[i] = s[i]
      BY <1>1, <2>1
    <3>2. /\ after \in Seq(Nat) /\ Len(after) = Len(s) - p + 1
          /\ \A i \in 1..(Len(s) - p + 1) : after[i] = s[p + i - 1]
      BY <1>1, <2>1
    <3>3. u = before \o <<n>> \o after
      BY <2>2
    <3> HIDE DEF before, after, u
    <3> DEFINE front == before \o <<n>>
    <3>4. /\ front \in Seq(Nat) /\ Len(front) = p
          /\ \A i \in 1..(p - 1) : front[i] = s[i]
          /\ front[p] = n
      <4>1. <<n>> \in Seq(Nat) /\ Len(<<n>>) = 1 /\ <<n>>[1] = n
        OBVIOUS
      <4>2. front \in Seq(Nat) /\ Len(front) = Len(before) + 1
        BY <3>1, <4>1, ConcatProperties
      <4>3. \A i \in 1..(Len(before) + 1) :
              front[i] = IF i <= Len(before) THEN before[i] ELSE <<n>>[i - Len(before)]
        BY <3>1, <4>1, ConcatProperties
      <4>4. Len(front) = p /\ \A i \in 1..(p - 1) : front[i] = before[i]
        BY <1>0, <2>1, <3>1, <4>2, <4>3
      <4>5. front[p] = <<n>>[1]
        <5>1. p \in 1..(Len(before) + 1) /\ ~(p <= Len(before)) /\ p - Len(before) = 1
          BY <1>0, <2>1, <3>1
        <5> QED
          BY <4>3, <5>1
      <4> QED
        BY <3>1, <4>1, <4>2, <4>4, <4>5
    <3>5. u = front \o after
      BY <3>3
    <3> HIDE DEF front
    <3>6. u \in Seq(Nat) /\ Len(u) = Len(s) + 1
      <4>1. u \in Seq(Nat) /\ Len(u) = Len(front) + Len(after)
        BY <3>2, <3>4, <3>5, ConcatProperties
      <4> QED
        BY <1>0, <2>1, <3>2, <3>4, <4>1
    <3>9. \A i \in 1..(Len(front) + Len(after)) :
            u[i] = IF i <= Len(front) THEN front[i] ELSE after[i - Len(front)]
      BY <3>2, <3>4, <3>5, ConcatProperties
    <3>7. ASSUME NEW i \in 1..p PROVE u[i] = front[i]
      <4>1. i \in 1..(Len(front) + Len(after)) /\ i <= Len(front)
        BY <1>0, <2>1, <3>2, <3>4
      <4> QED
        BY <3>9, <4>1
    <3>8. ASSUME NEW i \in (p + 1)..(Len(s) + 1) PROVE u[i] = s[i - 1]
      <4>1. i - p \in 1..(Len(s) - p + 1) /\ i \in 1..(Len(front) + Len(after)) /\ ~(i <= Len(front))
        BY <1>0, <2>1, <3>2, <3>4
      <4>2. u[i] = after[i - p]
        BY <3>4, <3>9, <4>1
      <4>3. after[i - p] = s[p + (i - p) - 1] /\ p + (i - p) - 1 = i - 1
        BY <1>0, <2>1, <3>2, <4>1
      <4> QED
        BY <4>2, <4>3
    <3> QED
      BY <1>1, <2>1, <3>4, <3>6, <3>7, <3>8
  <2> HIDE DEF u, higher
  <2>6. Rising(u)
    <3> SUFFICES ASSUME NEW i \in 1..Len(u), NEW k \in 1..(i - 1) PROVE u[k] < u[i]
      BY DEF Rising
    <3>0. p \in 1..Len(s) /\ Len(u) = Len(s) + 1
      BY <2>1, <2>5
    <3>1. \/ i \in 1..(p - 1) /\ k \in 1..(p - 1)
          \/ i = p /\ k \in 1..(p - 1)
          \/ i \in (p + 1)..(Len(s) + 1) /\ k \in 1..(p - 1)
          \/ i \in (p + 1)..(Len(s) + 1) /\ k = p
          \/ i \in (p + 1)..(Len(s) + 1) /\ k \in (p + 1)..(Len(s) + 1)
      BY <1>0, <3>0
    <3>2. \A j \in 1..(p - 1) : j \in 1..Len(s)
      BY <1>0, <3>0
    <3>3. \A j \in (p + 1)..(Len(s) + 1) : j - 1 \in 1..Len(s) /\ j - 1 \in p..Len(s)
      BY <1>0, <3>0
    <3>4. k < i
      BY <1>0, <3>0
    <3>5. CASE i \in 1..(p - 1) /\ k \in 1..(p - 1)
      BY <1>3, <2>5, <3>2, <3>4, <3>5
    <3>6. CASE i = p /\ k \in 1..(p - 1)
      BY <2>3, <2>5, <3>6
    <3>7. CASE i \in (p + 1)..(Len(s) + 1) /\ k \in 1..(p - 1)
      <4>1. k < i - 1 /\ i - 1 \in 1..Len(s) /\ k \in 1..Len(s)
        BY <1>1, <2>1, <3>2, <3>3, <3>7
      <4>2. u[k] = s[k] /\ u[i] = s[i - 1]
        BY <2>5, <3>7
      <4> QED
        BY <1>3, <4>1, <4>2
    <3>8. CASE i \in (p + 1)..(Len(s) + 1) /\ k = p
      BY <2>4, <2>5, <3>3, <3>8
    <3>9. CASE i \in (p + 1)..(Len(s) + 1) /\ k \in (p + 1)..(Len(s) + 1)
      <4>1. k - 1 < i - 1 /\ k - 1 \in 1..Len(s) /\ i - 1 \in 1..Len(s)
        BY <1>1, <2>1, <3>3, <3>4, <3>9
      <4>2. u[k] = s[k - 1] /\ u[i] = s[i - 1]
        BY <2>5, <3>9
      <4> QED
        BY <1>3, <4>1, <4>2
    <3> QED
      BY <3>1, <3>5, <3>6, <3>7, <3>8, <3>9
  <2>7. ToSet(u) = ToSet(s) \cup {n}
    <3>1. ToSet(u) = {u[i] : i \in 1..(Len(s) + 1)}
      <4>1. u \in Seq(Nat) /\ Len(u) = Len(s) + 1
        BY <2>5
      <4>2. DOMAIN u = 1..(Len(s) + 1)
        BY <4>1
      <4> QED
        BY <4>2, Zenon DEF ToSet
    <3>2. ASSUME NEW i \in 1..(Len(s) + 1) PROVE u[i] \in ToSet(s) \cup {n}
      <4>0. p \in 1..Len(s)
        BY <2>1
      <4>1. \/ i \in 1..(p - 1) /\ i \in 1..Len(s)
            \/ i = p
            \/ i \in (p + 1)..(Len(s) + 1) /\ i - 1 \in 1..Len(s)
        BY <1>0, <4>0
      <4> QED
        BY <1>1, <2>5, <4>1
    <3>3. ASSUME NEW i \in 1..Len(s) PROVE s[i] \in ToSet(u)
      <4>1. CASE i < p
        <5>1. i \in 1..(p - 1) /\ i \in 1..(Len(s) + 1)
          BY <1>1, <2>1, <4>1
        <5> QED
          BY <2>5, <3>1, <5>1
      <4>2. CASE i >= p
        <5>1. i + 1 \in (p + 1)..(Len(s) + 1) /\ i + 1 \in 1..(Len(s) + 1) /\ (i + 1) - 1 = i
          BY <1>1, <2>1, <4>2
        <5>2. u[i + 1] = s[i]
          BY <2>5, <5>1
        <5> QED
          BY <3>1, <5>1, <5>2
      <4> QED
        BY <2>1, <4>1, <4>2
    <3>4. n \in ToSet(u)
      <4>1. p \in 1..(Len(s) + 1)
        BY <1>1, <2>1
      <4> QED
        BY <2>5, <3>1, <4>1
    <3> QED
      BY <1>1, <3>1, <3>2, <3>3, <3>4
  <2> QED
    BY <2>5, <2>6, <2>7 DEF Holds, u
<1> QED
  BY <1>4, <1>5, <1>6

\* h is what is folded into s from the seqs D, the greatest last.
Piled(s, h, D) == IF D = {} THEN s ELSE Upsert(h[D \ {Max(D)}], Max(D))
Below(S, m) == {D \in SUBSET S : \A d \in D : d < m}
Piles(s, T, h) == h = [D \in T |-> Piled(s, h, D)]

LEMMA Peeled ==
  ASSUME NEW S \in SUBSET Nat, NEW m \in Nat, NEW D \in Below(S, m + 1), D # {}
  PROVE  /\ Max(D) \in D /\ Max(D) \in Nat
         /\ D \ {Max(D)} \in Below(S, m) /\ D \ {Max(D)} \in Below(S, m + 1)
<1>1. D \in SUBSET Nat /\ D \in SUBSET S /\ (\A d \in D : d < m + 1) /\ m + 1 \in Nat
  BY DEF Below
<1>2. Max(D) \in D /\ \A d \in D : d <= Max(D)
  BY <1>1, Highest
<1>3. ASSUME NEW d \in D \ {Max(D)} PROVE d < m /\ d < m + 1
  <2>1. d \in Nat /\ Max(D) \in Nat /\ d <= Max(D) /\ d # Max(D) /\ Max(D) < m + 1
    BY <1>1, <1>2
  <2> QED
    BY <2>1
<1>4. D \ {Max(D)} \in SUBSET S
  BY <1>1
<1> QED
  BY <1>1, <1>2, <1>3, <1>4 DEF Below

LEMMA PilesExist ==
  ASSUME NEW s, NEW S \in SUBSET Nat
  PROVE  \A m \in Nat : \E h : Piles(s, Below(S, m), h)
<1> DEFINE P == {m \in Nat : \E h : Piles(s, Below(S, m), h)}
<1>1. 0 \in P
  <2> DEFINE h == [D \in Below(S, 0) |-> s]
  <2>1. ASSUME NEW D \in Below(S, 0) PROVE D = {}
    <3> SUFFICES ASSUME NEW d \in D PROVE FALSE
      OBVIOUS
    <3>1. d \in Nat /\ d < 0
      BY DEF Below
    <3> QED
      BY <3>1
  <2>2. \A D \in Below(S, 0) : Piled(s, h, D) = s
    BY <2>1 DEF Piled
  <2>3. Piles(s, Below(S, 0), h)
    BY <2>2 DEF Piles
  <2> QED
    BY <2>3
<1>2. ASSUME NEW m \in P \cap Nat PROVE m + 1 \in P
  <2>1. PICK g : Piles(s, Below(S, m), g)
    OBVIOUS
  <2> DEFINE h == [D \in Below(S, m + 1) |-> Piled(s, g, D)]
  <2>2. \A D \in Below(S, m) : g[D] = Piled(s, g, D) /\ D \in Below(S, m + 1)
    <3>1. \A D \in Below(S, m) : g[D] = Piled(s, g, D)
      BY <2>1, Zenon DEF Piles
    <3>2. ASSUME NEW D \in Below(S, m) PROVE D \in Below(S, m + 1)
      <4>1. D \in SUBSET S /\ \A d \in D : d \in Nat /\ d < m
        BY DEF Below
      <4>2. \A d \in D : d < m + 1
        BY <4>1
      <4> QED
        BY <4>1, <4>2 DEF Below
    <3> QED
      BY <3>1, <3>2
  <2>3. ASSUME NEW D \in Below(S, m + 1) PROVE Piled(s, g, D) = Piled(s, h, D)
    <3>1. CASE D = {}
      BY <3>1 DEF Piled
    <3>2. CASE D # {}
      <4>1. h[D \ {Max(D)}] = g[D \ {Max(D)}]
        BY <2>2, <3>2, Peeled
      <4> QED
        BY <3>2, <4>1 DEF Piled
    <3> QED
      BY <3>1, <3>2
  <2>4. Piles(s, Below(S, m + 1), h)
    BY <2>3 DEF Piles
  <2> QED
    BY <2>4
<1> HIDE DEF P
<1>3. Nat \subseteq P
  BY <1>1, <1>2, Inductive
<1> QED
  BY <1>3 DEF P

LEMMA UpsertsHolds ==
  ASSUME NEW s \in Seq(Nat), Rising(s), NEW S \in SUBSET Nat, NEW m \in Nat, \A d \in S : d < m
  PROVE  Holds(Upserts(s, S), s, S)
<1>1. Below(S, m) = SUBSET S
  BY DEF Below
<1> DEFINE it == CHOOSE h : h = [D \in SUBSET S |-> Piled(s, h, D)]
<1>2. it = [D \in SUBSET S |-> Piled(s, it, D)]
  <2>1. \E h : Piles(s, SUBSET S, h)
    <3>1. \E h : Piles(s, Below(S, m), h)
      BY PilesExist
    <3> QED
      BY <1>1, <3>1
  <2> QED
    BY <2>1 DEF Piles
<1>3. Upserts(s, S) = it[S]
  BY DEF Upserts, MapThenFoldSet, Piled
<1> HIDE DEF it
<1>4. \A D \in SUBSET S : it[D] = Piled(s, it, D)
  BY <1>2, Zenon
<1> DEFINE A == {n \in Nat : \A D \in Below(S, n) : Holds(it[D], s, D)}
<1>5. Holds(it[{}], s, {})
  BY <1>4 DEF Piled, Holds
<1>6. 0 \in A
  <2>1. ASSUME NEW D \in Below(S, 0) PROVE D = {}
    <3> SUFFICES ASSUME NEW d \in D PROVE FALSE
      OBVIOUS
    <3>1. d \in Nat /\ d < 0
      BY DEF Below
    <3> QED
      BY <3>1
  <2> QED
    BY <1>5, <2>1
<1>7. ASSUME NEW n \in A \cap Nat PROVE n + 1 \in A
  <2>1. ASSUME NEW D \in Below(S, n + 1), D # {} PROVE Holds(it[D], s, D)
    <3> DEFINE x == Max(D)
               R == D \ {x}
    <3>1. x \in D /\ x \in Nat /\ R \in Below(S, n) /\ D \in SUBSET S
      BY <2>1, Peeled DEF Below
    <3>2. it[D] = Upsert(it[R], x)
      BY <1>4, <2>1, <3>1 DEF Piled
    <3>3. Holds(it[R], s, R)
      BY <3>1
    <3> HIDE DEF x
    <3>4. Holds(it[D], it[R], {x})
      <4>1. it[R] \in Seq(Nat) /\ Rising(it[R])
        BY <3>3 DEF Holds
      <4> QED
        BY <3>1, <3>2, <4>1, UpsertHolds
    <3>5. R \cup {x} = D
      BY <3>1
    <3> QED
      BY <3>3, <3>4, <3>5 DEF Holds
  <2>2. \A D \in Below(S, n + 1) : Holds(it[D], s, D)
    BY <1>5, <2>1
  <2> QED
    BY <2>2
<1> HIDE DEF A
<1>8. m \in A
  BY <1>6, <1>7, Inductive
<1>9. Holds(it[S], s, S)
  BY <1>1, <1>8 DEF A
<1> QED
  BY <1>3, <1>9

-----------------------------------------------------------------------------
(* The console.                                                            *)

\* Nothing newer than the run on the screen waits to replace it while its socket is
\* there; what was asked for it is about it.
Anchored ==
  /\ sock # "none" => shown.run # NoRun
  /\ \A q \in asked : q.gen <= gen /\ (q.kind = "catchup" => q.thread \in Threads)
  /\ \A q \in asked : q.gen = gen /\ q.kind \in {"resync", "catchup", "lanes"} => q.run = shown.run
  /\ \A p, q \in asked : p.kind = "open" /\ p.gen = gen /\ q.gen = gen =>
       sock = "none" /\ (q.kind \in {"poll", "intent"} \/ q = p)

\* What was read is durable, and of the run it was asked of.
Fetched ==
  /\ \A e \in unsent : e[2] < stored[e[1]]
  /\ \A q \in asked : \A e \in q.rows : RunOf[e[1]] = q.run /\ e[2] < stored[e[1]]
  /\ \A q \in asked : q.row = "ended" => runStage[q.run] # "working"

\* A frame on its way is true of the run on the screen.
Tells(f) ==
  /\ f.type \in {"step", "delta"} => f.thread \in Threads /\ RunOf[f.thread] = shown.run
  /\ f.type = "step" => f.seq < stored[f.thread]
  /\ f.type = "run_stage" => shown.run # NoRun /\ runStage[shown.run] # "working"

Relayed == \A i \in 1..Len(queue) : Tells(queue[i])

Screens == [run : Runs \cup {NoRun}, stage : Stages, lanes : Runs \cup {NoRun},
            view : [Threads -> Seq(Nat)], bubbles : SUBSET Threads]

Faithful == TypeOK /\ Anchored /\ Fetched /\ Relayed /\ ShowsTheRun

\* What is durable stays, and what has ended.
Grows ==
  /\ \A t \in Threads : stored[t] <= stored'[t]
  /\ \A r \in Runs : runStage[r] # "working" => runStage'[r] # "working"

LEMMA GrowsNot == ASSUME TypeOK, UNCHANGED <<stored, runStage>> PROVE Grows
<1>1. \A t \in Threads : stored[t] \in Nat
  BY DEF TypeOK
<1> QED
  BY <1>1 DEF Grows

LEMMA TellsStays ==
  ASSUME TypeOK, TypeOK', Grows, shown'.run = shown.run, NEW f \in Frame, Tells(f)
  PROVE  Tells(f)'
<1>1. shown.run \in Runs \cup {NoRun}
  BY DEF TypeOK
<1>2. f.type = "run_stage" => shown'.run # NoRun /\ runStage'[shown'.run] # "working"
  BY <1>1 DEF Grows, Tells
<1>3. ASSUME f.type = "step" PROVE f.seq < stored'[f.thread]
  <2>1. f.thread \in Threads /\ f.seq < stored[f.thread] /\ f.seq \in Nat
    BY <1>3 DEF Tells, Frame
  <2>2. stored[f.thread] \in Nat /\ stored'[f.thread] \in Nat /\ stored[f.thread] <= stored'[f.thread]
    BY <2>1 DEF TypeOK, Grows
  <2> QED
    BY <2>1, <2>2
<1> QED
  BY <1>2, <1>3 DEF Tells

LEMMA RelayedStays ==
  ASSUME TypeOK, TypeOK', Grows, shown'.run = shown.run, Relayed, queue' = queue
  PROVE  Relayed'
<1>1. \A i \in 1..Len(queue) : queue[i] \in Frame
  BY DEF TypeOK
<1> QED
  BY <1>1, TellsStays DEF Relayed

LEMMA RelayedTail ==
  ASSUME TypeOK, TypeOK', Grows, shown'.run = shown.run, Relayed, queue # <<>>, queue' = Tail(queue)
  PROVE  Relayed'
<1>1. queue \in Seq(Frame) /\ Len(queue) \in Nat \ {0}
  BY DEF TypeOK
<1>2. Len(queue') = Len(queue) - 1 /\ \A i \in 1..(Len(queue) - 1) : queue'[i] = queue[i + 1]
  BY <1>1
<1>3. \A f \in Frame : Tells(f) => Tells(f)'
  BY TellsStays
<1>4. ASSUME NEW i \in 1..Len(queue') PROVE queue'[i] \in Frame /\ Tells(queue'[i])
  <2>1. i + 1 \in 1..Len(queue) /\ queue'[i] = queue[i + 1]
    BY <1>1, <1>2
  <2> QED
    BY <1>1, <2>1 DEF Relayed
<1> SUFFICES ASSUME NEW i \in 1..Len(queue') PROVE Tells(queue[i])'
  BY DEF Relayed
<1>5. PICK f \in Frame : f = queue'[i] /\ Tells(f)
  BY <1>4
<1>6. Tells(f)'
  BY <1>3, <1>5
<1> QED
  BY <1>5, <1>6 DEF Tells

LEMMA RelayedEmpty == ASSUME queue' = <<>> PROVE Relayed'
  BY DEF Relayed

LEMMA FetchedStays ==
  ASSUME TypeOK, TypeOK', Grows, Fetched, asked' \subseteq asked, unsent' \subseteq unsent
  PROVE  Fetched'
<1>1. \A t \in Threads : stored[t] \in Nat /\ stored'[t] \in Nat /\ stored[t] <= stored'[t]
  BY DEF TypeOK, Grows
<1>2. ASSUME NEW e \in unsent' PROVE e[2] < stored'[e[1]]
  <2>1. e[1] \in Threads /\ e[2] < stored[e[1]] /\ e[2] \in Int
    BY DEF TypeOK, Fetched, Seqs
  <2> QED
    BY <1>1, <2>1
<1>3. ASSUME NEW q \in asked', NEW e \in q.rows
      PROVE  RunOf[e[1]] = q.run /\ e[2] < stored'[e[1]]
  <2>1. q \in asked /\ q \in Question /\ e \in Threads \X Nat
    BY DEF TypeOK, Question
  <2>2. RunOf[e[1]] = q.run /\ e[2] < stored[e[1]] /\ e[1] \in Threads /\ e[2] \in Nat
    BY <2>1 DEF Fetched
  <2> QED
    BY <1>1, <2>2
<1>4. ASSUME NEW q \in asked', q.row = "ended" PROVE runStage'[q.run] # "working"
  <2>1. q \in asked /\ q.run \in Runs
    BY DEF TypeOK, Question
  <2> QED
    BY <1>4, <2>1 DEF Fetched, Grows
<1> QED
  BY <1>2, <1>3, <1>4 DEF Fetched

LEMMA AnchoredStays ==
  ASSUME Anchored, asked' \subseteq asked, gen' = gen, shown'.run = shown.run,
         sock' # "none" => sock # "none"
  PROVE  Anchored'
  BY DEF Anchored

LEMMA ShowsStays == ASSUME TypeOK, TypeOK', Grows, ShowsTheRun, shown' = shown PROVE ShowsTheRun'
<1>1. \A t \in Threads : stored[t] \in Nat /\ stored'[t] \in Nat /\ stored[t] <= stored'[t]
  BY DEF TypeOK, Grows
<1>2. \A t \in Threads : \A i \in 1..Len(shown.view[t]) : shown.view[t][i] \in Nat
  BY DEF TypeOK
<1>3. shown.stage = "ended" => shown.run # NoRun /\ runStage'[shown.run] # "working"
  <2>1. shown.run \in Runs \cup {NoRun}
    BY DEF TypeOK
  <2> QED
    BY <2>1 DEF ShowsTheRun, Grows
<1>4. \A t \in Threads : \A i \in 1..Len(shown.view[t]) : shown.view[t][i] < stored'[t]
  BY <1>1, <1>2 DEF ShowsTheRun
<1> QED
  BY <1>3, <1>4 DEF ShowsTheRun

-----------------------------------------------------------------------------
(* The server. *)

LEMMA StoreTrue == ASSUME Faithful, NEW t \in Threads, Store(t) PROVE Faithful'
<1>0. TypeOK
  BY DEF Faithful
<1>1. stored'[t] = stored[t] + 1 /\ stored[t] \in Nat /\ \A u \in Threads \ {t} : stored'[u] = stored[u]
  BY <1>0 DEF Store, TypeOK
<1>2. Grows
  BY <1>0, <1>1 DEF Grows, Store, TypeOK
<1>3. TypeOK'
  <2>1. stored[t] \in 0..Events[t] /\ Events[t] \in Nat
    BY <1>0, ConsoleAssumption DEF TypeOK
  <2>2. unsent' \subseteq Threads \X Seqs
    BY <1>0, <2>1 DEF Store, TypeOK, Seqs
  <2>3. stored' \in [Threads -> Nat] /\ \A u \in Threads : stored'[u] <= Events[u]
    BY <1>0, <1>1, <2>1 DEF Store, TypeOK
  <2> QED
    BY <1>0, <2>2, <2>3 DEF Store, TypeOK
<1>4. Anchored' /\ Relayed' /\ ShowsTheRun'
  BY <1>0, <1>2, <1>3, AnchoredStays, RelayedStays, ShowsStays DEF Faithful, Store
<1>5. Fetched'
  <2>1. \A u \in Threads : stored[u] \in Nat /\ stored'[u] \in Nat /\ stored[u] <= stored'[u]
    BY <1>0, <1>2, <1>3 DEF TypeOK, Grows
  <2>2. ASSUME NEW e \in unsent' PROVE e[2] < stored'[e[1]]
    <3>1. CASE e = <<t, stored[t]>>
      BY <1>1, <3>1
    <3>2. CASE e \in unsent
      <4>1. e[1] \in Threads /\ e[2] < stored[e[1]] /\ e[2] \in Int
        BY <1>0, <3>2 DEF TypeOK, Faithful, Fetched, Seqs
      <4> QED
        BY <2>1, <4>1
    <3> QED
      BY <3>1, <3>2 DEF Store
  <2>3. ASSUME NEW q \in asked, NEW e \in q.rows
        PROVE  RunOf[e[1]] = q.run /\ e[2] < stored'[e[1]]
    <3>1. q \in Question /\ e \in Threads \X Nat
      BY <1>0 DEF TypeOK, Question
    <3>2. RunOf[e[1]] = q.run /\ e[2] < stored[e[1]] /\ e[1] \in Threads /\ e[2] \in Nat
      BY <3>1 DEF Faithful, Fetched
    <3> QED
      BY <2>1, <3>2
  <2> QED
    BY <2>2, <2>3 DEF Faithful, Fetched, Store
<1> QED
  BY <1>3, <1>4, <1>5 DEF Faithful

LEMMA RunEndsTrue == ASSUME Faithful, NEW r \in Runs, RunEnds(r) PROVE Faithful'
<1>0. TypeOK
  BY DEF Faithful
<1>1. TypeOK'
  <2>1. spent' \in 0..MaxSpent
    BY <1>0, ConsoleAssumption DEF TypeOK, RunEnds
  <2>2. runStage' \in [Runs -> Stages \cup {"told"}]
    BY <1>0 DEF TypeOK, RunEnds, Stages
  <2> QED
    BY <1>0, <2>1, <2>2 DEF TypeOK, RunEnds
<1>2. Grows
  BY <1>0 DEF Grows, RunEnds, TypeOK
<1> QED
  BY <1>0, <1>1, <1>2, AnchoredStays, RelayedStays, ShowsStays, FetchedStays DEF Faithful, RunEnds

LEMMA FanoutTells ==
  ASSUME TypeOK, Relayed, NEW r, NEW f \in Frame, Fanout(r, f),
         shown.run = r => Tells(f)', \A d \in Frame : Tells(d) => Tells(d)'
  PROVE  /\ queue' \in Seq(Frame) /\ Len(queue') <= QueueSize
         /\ sub' \in {"none", "accepted", "subscribed", "evicted"}
         /\ Relayed'
<1> DEFINE G == {d \in Frame : Tells(d)'}
<1>1. queue \in Seq(G) /\ Len(queue) \in Nat /\ Len(queue) <= QueueSize /\ QueueSize \in Nat \ {0}
  <2>1. queue \in Seq(Frame) /\ Len(queue) <= QueueSize
    BY DEF TypeOK
  <2>2. \A i \in 1..Len(queue) : queue[i] \in G
    BY <2>1 DEF Relayed
  <2> HIDE DEF G
  <2>3. queue \in Seq(G)
    BY <2>1, <2>2
  <2> QED
    BY <2>1, <2>3, ConsoleAssumption
<1>2. Sentinel \in G
  BY DEF Sentinel, Frame, Tells
<1>3. shown.run = r => f \in G
  OBVIOUS
<1> HIDE DEF G
<1>4. queue' \in Seq(G) /\ Len(queue') <= QueueSize
  <2>1. CASE shown.run = r /\ queue' = Append(queue, f) /\ Len(queue) < QueueSize
    BY <1>1, <1>3, <2>1
  <2>2. CASE queue' = Append(Tail(queue), Sentinel) /\ Len(queue) >= QueueSize
    <3>1. queue # <<>> /\ Tail(queue) \in Seq(G) /\ Len(Tail(queue)) = Len(queue) - 1
      BY <1>1, <2>2
    <3> HIDE DEF Sentinel
    <3> QED
      BY <1>1, <1>2, <2>2, <3>1
  <2>3. CASE queue' = queue
    BY <1>1, <2>3
  <2>4. \/ shown.run = r /\ queue' = Append(queue, f) /\ Len(queue) < QueueSize
        \/ queue' = Append(Tail(queue), Sentinel) /\ ~(Len(queue) < QueueSize)
        \/ queue' = queue
    BY DEF Fanout, Evict
  <2> QED
    BY <1>1, <2>1, <2>2, <2>3, <2>4
<1>5. sub' \in {"none", "accepted", "subscribed", "evicted"}
  BY DEF Fanout, Evict, TypeOK
<1>6. queue' \in Seq(Frame)
  <2>1. G \subseteq Frame
    BY DEF G
  <2>2. \A i \in 1..Len(queue') : queue'[i] \in G
    BY <1>4
  <2> QED
    BY <1>4, <2>1, <2>2
<1>7. Relayed'
  <2> SUFFICES ASSUME NEW i \in 1..Len(queue') PROVE Tells(queue[i])'
    BY DEF Relayed
  <2>1. queue'[i] \in G
    BY <1>4
  <2>2. PICK d \in Frame : d = queue'[i] /\ Tells(d)'
    BY <2>1 DEF G
  <2> QED
    BY <2>2 DEF Tells
<1> QED
  BY <1>4, <1>5, <1>6, <1>7

\* A frame that tells the truth is all that a fanout adds.
LEMMA FanoutTrue ==
  ASSUME Faithful, NEW r \in Runs, NEW f \in Frame, Fanout(r, f), shown.run = r => Tells(f)', Grows,
         UNCHANGED <<stored, sock, gen, shown, asked, pending, blind>>,
         unsent' \subseteq unsent, spent' \in 0..MaxSpent, runStage' \in [Runs -> Stages \cup {"told"}]
  PROVE  Faithful'
<1>1. TypeOK
  BY DEF Faithful
<1>2. \A d \in Frame : Tells(d) => Tells(d)'
  <2> SUFFICES ASSUME NEW d \in Frame, Tells(d) PROVE Tells(d)'
    OBVIOUS
  <2>1. d.type = "run_stage" => shown.run # NoRun /\ shown.run \in Runs
    BY <1>1 DEF Tells, TypeOK
  <2> QED
    BY <2>1 DEF Tells, Grows
<1>3. /\ queue' \in Seq(Frame) /\ Len(queue') <= QueueSize
      /\ sub' \in {"none", "accepted", "subscribed", "evicted"}
      /\ Relayed'
  BY <1>1, <1>2, FanoutTells DEF Faithful
<1>4. TypeOK'
  BY <1>1, <1>3 DEF TypeOK
<1>5. Anchored' /\ ShowsTheRun' /\ Fetched'
  BY <1>1, <1>4, AnchoredStays, ShowsStays, FetchedStays DEF Faithful
<1> QED
  BY <1>3, <1>4, <1>5 DEF Faithful

LEMMA StepFrame == \A t, n \in Nat : /\ Step(t, n) \in Frame /\ Step(t, n).type = "step"
                                     /\ Step(t, n).thread = t /\ Step(t, n).seq = n
  BY DEF Step, Frame

LEMMA PublishStepTrue ==
  ASSUME Faithful, NEW t \in Threads, NEW n \in Seqs, PublishStep(t, n) PROVE Faithful'
<1>1. TypeOK /\ t \in Nat /\ RunOf[t] \in Runs
  BY ConsoleAssumption DEF Faithful
<1>2. n < stored[t] /\ n \in Nat
  BY DEF Faithful, Fetched, PublishStep, Seqs
<1>3. RunOf[t] = shown.run => Tells(Step(t, n))'
  BY <1>1, <1>2, StepFrame DEF Tells, PublishStep
<1>4. Step(t, n) \in Frame
  BY <1>1, <1>2, StepFrame
<1>5. Grows
  BY <1>1, GrowsNot DEF PublishStep
<1>6. spent' \in 0..MaxSpent /\ runStage' \in [Runs -> Stages \cup {"told"}] /\ unsent' \subseteq unsent
  BY <1>1 DEF TypeOK, PublishStep
<1> HIDE DEF Step
<1> QED
  BY <1>1, <1>3, <1>4, <1>5, <1>6, FanoutTrue DEF PublishStep

LEMMA RelayAgainTrue ==
  ASSUME Faithful, NEW t \in Threads, NEW n \in Seqs, RelayAgain(t, n) PROVE Faithful'
<1>1. TypeOK /\ t \in Nat /\ RunOf[t] \in Runs
  BY ConsoleAssumption DEF Faithful
<1>2. n < stored[t] /\ n \in Nat
  BY DEF RelayAgain, Seqs
<1>3. RunOf[t] = shown.run => Tells(Step(t, n))'
  BY <1>1, <1>2, StepFrame DEF Tells, RelayAgain, server
<1>4. Step(t, n) \in Frame
  BY <1>1, <1>2, StepFrame
<1>5. Grows
  BY <1>1, GrowsNot DEF RelayAgain, server
<1>6. spent' \in 0..MaxSpent /\ runStage' \in [Runs -> Stages \cup {"told"}] /\ unsent' \subseteq unsent
  BY <1>1, ConsoleAssumption DEF TypeOK, RelayAgain, server
<1> HIDE DEF Step
<1> QED
  BY <1>1, <1>3, <1>4, <1>5, <1>6, FanoutTrue DEF RelayAgain, server

LEMMA DeltaTrue == ASSUME Faithful, NEW t \in Threads, Delta(t) PROVE Faithful'
<1> DEFINE f == [type |-> "delta", thread |-> t, seq |-> 0]
<1>1. TypeOK /\ t \in Nat /\ RunOf[t] \in Runs
  BY ConsoleAssumption DEF Faithful
<1>2. f \in Frame /\ f.type = "delta" /\ f.thread = t
  BY <1>1 DEF Frame
<1>3. Fanout(RunOf[t], f)
  BY DEF Delta
<1> HIDE DEF f
<1>4. RunOf[t] = shown.run => Tells(f)'
  BY <1>1, <1>2 DEF Tells, Delta, server
<1>5. Grows
  BY <1>1, GrowsNot DEF Delta, server
<1>6. spent' \in 0..MaxSpent /\ runStage' \in [Runs -> Stages \cup {"told"}] /\ unsent' \subseteq unsent
  BY <1>1, ConsoleAssumption DEF TypeOK, Delta, server
<1> QED
  BY <1>1, <1>2, <1>3, <1>4, <1>5, <1>6, FanoutTrue DEF Delta, server

LEMMA PublishStageTrue == ASSUME Faithful, NEW r \in Runs, PublishStage(r) PROVE Faithful'
<1> DEFINE f == [type |-> "run_stage", thread |-> 0, seq |-> 0]
<1>1. TypeOK
  BY DEF Faithful
<1>2. f \in Frame /\ f.type = "run_stage"
  BY DEF Frame
<1>3. Fanout(r, f)
  BY DEF PublishStage
<1> HIDE DEF f
<1>4. runStage' \in [Runs -> Stages \cup {"told"}] /\ runStage'[r] = "told"
  BY <1>1 DEF TypeOK, PublishStage
<1>5. Grows
  BY <1>1, <1>4 DEF Grows, PublishStage, TypeOK
<1>6. r = shown.run => Tells(f)'
  BY <1>1, <1>2, <1>4, ConsoleAssumption DEF Tells, PublishStage
<1>7. spent' \in 0..MaxSpent /\ unsent' \subseteq unsent
  BY <1>1 DEF TypeOK, PublishStage
<1> QED
  BY <1>1, <1>2, <1>3, <1>4, <1>5, <1>6, <1>7, FanoutTrue DEF PublishStage

-----------------------------------------------------------------------------
(* The socket. *)

LEMMA Asking ==
  ASSUME TypeOK, NEW kind \in {"resync", "catchup", "lanes", "poll", "intent"},
         NEW t \in Threads \cup {-1}, NEW n \in Nat \cup {-1}, shown.run \in Runs
  PROVE  LET p == Ask(kind, t, n)
         IN /\ p \in Question /\ p.kind = kind /\ p.gen = gen /\ p.run = shown.run
            /\ p.thread = t /\ p.rows = {} /\ p.row = "unread"
<1>1. gen \in Nat /\ spent \in Nat
  BY ConsoleAssumption DEF TypeOK
<1> QED
  BY <1>1 DEF Ask, Question

\* A question about the run on the screen changes nothing that is known.
LEMMA AskedTrue ==
  ASSUME TypeOK, TypeOK', Anchored, Fetched,
         NEW p \in Question, p.rows = {}, p.row = "unread", p.gen = gen, p.run = shown.run,
         p.kind # "open", p.kind = "catchup" => p.thread \in Threads,
         p.kind \in {"resync", "catchup", "lanes"} => sock # "none",
         asked' \subseteq asked \cup {p}, UNCHANGED <<stored, runStage, unsent, gen>>,
         shown'.run = shown.run, sock' # "none" => sock # "none"
  PROVE  Anchored' /\ Fetched'
<1>1. gen \in Nat
  BY ConsoleAssumption DEF TypeOK
<1>2. ASSUME NEW q \in asked' PROVE q \in asked \/ q = p
  OBVIOUS
<1>3. Anchored'
  <2>1. \A q \in asked' : q.gen <= gen /\ (q.kind = "catchup" => q.thread \in Threads)
    BY <1>1, <1>2 DEF Anchored
  <2>2. \A q \in asked' : q.gen = gen /\ q.kind \in {"resync", "catchup", "lanes"}
                            => q.run = shown.run
    BY <1>2 DEF Anchored
  <2>3. ASSUME NEW o \in asked', NEW q \in asked', o.kind = "open", o.gen = gen, q.gen = gen
        PROVE  sock' = "none" /\ (q.kind \in {"poll", "intent"} \/ q = o)
    <3>1. o \in asked /\ sock = "none"
      BY <1>2, <2>3 DEF Anchored
    <3>2. CASE q \in asked
      BY <2>3, <3>1, <3>2 DEF Anchored
    <3>3. CASE q = p
      <4>1. p.kind \in {"poll", "intent"}
        BY <3>1 DEF Question
      <4> QED
        BY <3>1, <3>3, <4>1
    <3> QED
      BY <1>2, <3>2, <3>3
  <2> QED
    BY <2>1, <2>2, <2>3 DEF Anchored
<1>4. Fetched'
  BY <1>2 DEF Fetched
<1> QED
  BY <1>3, <1>4

LEMMA OnOpenTrue == ASSUME Faithful, OnOpen PROVE Faithful'
<1>1. TypeOK /\ Grows /\ shown.run \in Runs
  BY GrowsNot DEF Faithful, OnOpen, Anchored, TypeOK, server
<1> DEFINE p == Ask("resync", -1, -1)
<1>2. p \in Question /\ p.kind = "resync" /\ p.gen = gen /\ p.run = shown.run /\ p.rows = {} /\ p.row = "unread"
  BY <1>1, Asking
<1>3. asked' \subseteq asked \cup {p}
  BY DEF OnOpen
<1> HIDE DEF p
<1>4. TypeOK'
  BY <1>1, <1>2, <1>3 DEF TypeOK, OnOpen, server
<1>5. Anchored' /\ Fetched'
  BY <1>1, <1>2, <1>3, <1>4, AskedTrue DEF Faithful, OnOpen, server
<1> QED
  BY <1>1, <1>4, <1>5, RelayedStays, ShowsStays DEF Faithful, OnOpen

LEMMA CalmTrue ==
  ASSUME Faithful, UNCHANGED <<server, queue, gen, shown, asked, pending, blind>>,
         sub' \in {"none", "accepted", "subscribed", "evicted"},
         sock' \in {"none", "connecting", "reconnecting", "open", "waiting"},
         sock' # "none" => sock # "none", spent' \in 0..MaxSpent
  PROVE  Faithful'
<1>1. TypeOK /\ Grows
  BY GrowsNot DEF Faithful, server
<1>2. TypeOK'
  BY <1>1 DEF TypeOK, server
<1> QED
  BY <1>1, <1>2, AnchoredStays, FetchedStays, RelayedStays, ShowsStays DEF Faithful, server

LEMMA SocketTrue == ASSUME Faithful, Accept \/ Refused \/ Reconnect PROVE Faithful'
<1>1. TypeOK /\ MaxSpent \in Nat
  BY ConsoleAssumption DEF Faithful
<1>2. CASE Accept
  BY <1>1, <1>2, CalmTrue DEF Accept, TypeOK
<1>3. CASE Refused
  <2>1. spent' \in 0..MaxSpent
    BY <1>1, <1>3 DEF Refused, TypeOK
  <2> QED
    BY <1>1, <1>3, <2>1, CalmTrue DEF Refused, TypeOK
<1>4. CASE Reconnect
  BY <1>1, <1>4, CalmTrue DEF Reconnect, TypeOK
<1> QED
  BY <1>2, <1>3, <1>4

LEMMA SubscribeTrue == ASSUME Faithful, Subscribe PROVE Faithful'
<1>1. TypeOK /\ Grows
  BY GrowsNot DEF Faithful, server, Subscribe
<1>2. TypeOK'
  <2>1. <<>> \in Seq(Frame) /\ Len(<<>>) <= QueueSize
    BY ConsoleAssumption
  <2> QED
    BY <1>1, <2>1 DEF TypeOK, server, Subscribe
<1> QED
  BY <1>1, <1>2, AnchoredStays, FetchedStays, RelayedEmpty, ShowsStays DEF Faithful, server, Subscribe

\* A socket that closes takes bubbles away.
LEMMA CloseTrue ==
  ASSUME Faithful, OnClose, sock # "none", spent' \in 0..MaxSpent,
         UNCHANGED <<server, gen, asked, pending, blind>>
  PROVE  Faithful'
<1>1. TypeOK /\ Grows
  BY GrowsNot DEF Faithful, server
<1>2. /\ shown' \in Screens /\ shown'.run = shown.run /\ shown'.stage = shown.stage
      /\ shown'.lanes = shown.lanes /\ shown'.view = shown.view
      /\ shown'.bubbles \subseteq shown.bubbles
  BY <1>1 DEF OnClose, TypeOK, Screens
<1>3. TypeOK'
  <2>1. <<>> \in Seq(Frame) /\ Len(<<>>) <= QueueSize
    BY ConsoleAssumption
  <2>2. shown' \in Screens
    BY <1>2
  <2> QED
    BY <1>1, <2>1, <2>2 DEF TypeOK, server, OnClose, Screens
<1>4. ShowsTheRun'
  BY <1>2 DEF Faithful, ShowsTheRun, server
<1>5. Anchored' /\ Fetched' /\ Relayed'
  BY <1>1, <1>2, <1>3, AnchoredStays, FetchedStays, RelayedEmpty DEF Faithful, server, OnClose
<1> QED
  BY <1>3, <1>4, <1>5 DEF Faithful

LEMMA CutTrue == ASSUME Faithful, Cut \/ ReceiveDrop PROVE Faithful'
<1>1. spent' \in 0..MaxSpent
  BY ConsoleAssumption DEF Faithful, TypeOK, Cut, ReceiveDrop
<1>2. sock # "none" /\ OnClose /\ UNCHANGED <<server, gen, asked, pending, blind>>
  BY DEF Cut, ReceiveDrop, Receiving
<1> QED
  BY <1>1, <1>2, CloseTrue

-----------------------------------------------------------------------------
(* What a socket brings. *)

LEMMA NewestTyped == ASSUME Faithful, NEW t \in Threads PROVE Newest(t) \in Nat \cup {-1}
<1>1. shown.view[t] \in Seq(Nat) /\ stored[t] \in Nat
  BY DEF Faithful, TypeOK
<1>2. ASSUME NEW n \in ToSet(shown.view[t]) PROVE n \in Nat /\ n < stored[t]
  <2>1. PICK i \in 1..Len(shown.view[t]) : n = shown.view[t][i]
    BY <1>1 DEF ToSet
  <2> QED
    BY <1>1, <2>1 DEF Faithful, ShowsTheRun
<1>3. CASE shown.view[t] = <<>>
  BY <1>3 DEF Newest
<1>4. CASE shown.view[t] # <<>>
  <2> DEFINE S == ToSet(shown.view[t])
  <2>1. S # {} /\ S \in SUBSET Nat /\ \A n \in S : n < stored[t]
    <3>1. 1 \in DOMAIN shown.view[t]
      BY <1>1, <1>4
    <3> QED
      BY <1>2, <3>1 DEF ToSet
  <2>2. Newest(t) = CHOOSE n \in S : \A k \in S : k <= n
    BY <1>4 DEF Newest
  <2> HIDE DEF S
  <2>3. Max(S) \in S /\ \A k \in S : k <= Max(S)
    BY <1>1, <2>1, Highest
  <2> QED
    BY <2>1, <2>2, <2>3
<1> QED
  BY <1>3, <1>4

LEMMA HeadTells ==
  ASSUME Faithful, NEW k, Receiving(k)
  PROVE  /\ Frame1 \in Frame /\ Frame1.type = k /\ Tells(Frame1) /\ queue # <<>>
         /\ Tail(queue) \in Seq(Frame) /\ Len(Tail(queue)) <= QueueSize
         /\ sock = "open" /\ shown.run \in Runs
<1>1. queue \in Seq(Frame) /\ queue # <<>> /\ Len(queue) \in Nat /\ Len(queue) <= QueueSize /\ QueueSize \in Nat
  BY ConsoleAssumption DEF Faithful, TypeOK, Receiving
<1>2. Frame1 = queue[1] /\ 1 \in 1..Len(queue) /\ Len(Tail(queue)) = Len(queue) - 1
  BY <1>1 DEF Frame1
<1>3. Frame1 \in Frame /\ Tells(Frame1)
  BY <1>1, <1>2 DEF Faithful, Relayed
<1>4. Frame1.type = k /\ sock = "open"
  BY DEF Receiving
<1>5. shown.run \in Runs
  BY <1>4 DEF Faithful, Anchored, TypeOK
<1> QED
  BY <1>1, <1>2, <1>3, <1>4, <1>5

\* A history of a thread of run r, in order, of durable events.
HistoryOf(r, t, h) ==
  \A i \in 1..Len(h) : /\ RunOf[t] = r /\ h[i] < stored[t]
                        /\ \A k \in 1..(i - 1) : h[k] < h[i]

\* It stays one when durable events of the run are folded in.
LEMMA HistoryTakes ==
  ASSUME NEW r, NEW t, NEW s \in Seq(Nat), HistoryOf(r, t, s), NEW h, NEW D,
         Holds(h, s, D), \A d \in D : RunOf[t] = r /\ d < stored[t]
  PROVE  HistoryOf(r, t, h)
<1>1. h \in Seq(Nat) /\ Rising(h) /\ ToSet(h) = ToSet(s) \cup D
  BY DEF Holds
<1>2. ASSUME NEW n \in ToSet(h) PROVE RunOf[t] = r /\ n < stored[t]
  <2>1. CASE n \in D
    BY <2>1
  <2>2. CASE n \in ToSet(s)
    <3>1. PICK i \in 1..Len(s) : n = s[i]
      BY <2>2 DEF ToSet
    <3> QED
      BY <3>1 DEF HistoryOf
  <2> QED
    BY <1>1, <2>1, <2>2
<1>3. ASSUME NEW i \in 1..Len(h) PROVE h[i] \in ToSet(h)
  BY <1>1 DEF ToSet
<1> QED
  BY <1>1, <1>2, <1>3 DEF Rising, HistoryOf

LEMMA ViewRising ==
  ASSUME Faithful, NEW t \in Threads
  PROVE  /\ shown.view[t] \in Seq(Nat) /\ Rising(shown.view[t])
         /\ HistoryOf(shown.run, t, shown.view[t])
  BY DEF Faithful, TypeOK, ShowsTheRun, Rising, HistoryOf

LEMMA ReceiveStepTrue == ASSUME Faithful, ReceiveStep PROVE Faithful'
<1> DEFINE t == Frame1.thread
           n == Frame1.seq
           h == Upsert(shown.view[t], n)
<1>1. TypeOK /\ Grows
  BY GrowsNot DEF Faithful, ReceiveStep, server
<1>2. /\ t \in Threads /\ RunOf[t] = shown.run /\ n \in Nat /\ n < stored[t]
      /\ queue # <<>> /\ Tail(queue) \in Seq(Frame) /\ Len(Tail(queue)) <= QueueSize
      /\ sock = "open" /\ shown.run \in Runs
  <2>1. Receiving("step")
    BY DEF ReceiveStep
  <2>2. Frame1 \in Frame /\ Frame1.type = "step" /\ Tells(Frame1)
    BY <2>1, HeadTells
  <2>3. t \in Threads /\ RunOf[t] = shown.run /\ n \in Nat /\ n < stored[t]
    BY <2>2 DEF Tells, Frame
  <2> QED
    BY <2>1, <2>3, HeadTells
<1>3. Holds(h, shown.view[t], {n})
  BY <1>2, UpsertHolds, ViewRising
<1>4. shown' = [shown EXCEPT !.view[t] = h, !.bubbles = @ \ {t}]
  BY DEF ReceiveStep
<1> DEFINE p == Ask("catchup", t, Newest(t))
<1>5. /\ p \in Question /\ p.kind = "catchup" /\ p.gen = gen /\ p.run = shown.run
      /\ p.thread = t /\ p.rows = {} /\ p.row = "unread"
  BY <1>1, <1>2, Asking, NewestTyped
<1>6. asked' \subseteq asked \cup {p} /\ pending' \subseteq pending \cup {t}
  BY DEF ReceiveStep
<1>7. UNCHANGED <<server, sub, sock, gen, blind, spent>> /\ queue' = Tail(queue)
  BY DEF ReceiveStep
<1> HIDE DEF t, n, h, p
<1>8. /\ shown' \in Screens /\ shown'.run = shown.run /\ shown'.stage = shown.stage
      /\ shown'.lanes = shown.lanes /\ shown'.view = [shown.view EXCEPT ![t] = h]
      /\ shown'.bubbles = shown.bubbles \ {t}
  <2>1. h \in Seq(Nat) /\ shown \in Screens
    BY <1>1, <1>3 DEF Holds, TypeOK, Screens
  <2>2. [shown.view EXCEPT ![t] = h] \in [Threads -> Seq(Nat)]
    BY <2>1 DEF Screens
  <2>3. shown' = [shown EXCEPT !.view = [shown.view EXCEPT ![t] = h], !.bubbles = shown.bubbles \ {t}]
    BY <1>4, <2>1 DEF Screens
  <2> QED
    BY <2>1, <2>2, <2>3 DEF Screens
<1>9. TypeOK'
  <2>1. shown' \in Screens
    BY <1>8
  <2> QED
    BY <1>1, <1>2, <1>5, <1>6, <1>7, <2>1 DEF TypeOK, server, Screens
<1>10. Anchored' /\ Fetched'
  BY <1>1, <1>2, <1>5, <1>6, <1>7, <1>8, <1>9, AskedTrue DEF Faithful, server
<1>11. Relayed'
  BY <1>1, <1>2, <1>7, <1>8, <1>9, RelayedTail DEF Faithful
<1>12. ShowsTheRun'
  <2>1. HistoryOf(shown.run, t, h)
    <3>1. \A d \in {n} : RunOf[t] = shown.run /\ d < stored[t]
      BY <1>2
    <3>2. shown.view[t] \in Seq(Nat) /\ HistoryOf(shown.run, t, shown.view[t])
      BY <1>2, ViewRising
    <3> QED
      BY <1>3, <3>1, <3>2, HistoryTakes
  <2>2. shown.view \in [Threads -> Seq(Nat)]
    BY <1>1 DEF TypeOK
  <2>3. shown'.view[t] = h /\ \A u \in Threads \ {t} : shown'.view[u] = shown.view[u]
    BY <1>2, <1>8, <2>2
  <2>4. \A u \in Threads : HistoryOf(shown.run, u, shown'.view[u])
    BY <2>1, <2>3, ViewRising
  <2>5. stored' = stored /\ runStage' = runStage
    BY <1>7 DEF server
  <2> QED
    BY <1>8, <2>4, <2>5 DEF Faithful, ShowsTheRun, HistoryOf
<1> QED
  BY <1>9, <1>10, <1>11, <1>12 DEF Faithful

LEMMA ReceiveDeltaTrue == ASSUME Faithful, ReceiveDelta PROVE Faithful'
<1>1. TypeOK /\ Grows
  BY GrowsNot DEF Faithful, ReceiveDelta, server
<1>2. /\ Frame1.thread \in Threads /\ RunOf[Frame1.thread] = shown.run
      /\ queue # <<>> /\ Tail(queue) \in Seq(Frame) /\ Len(Tail(queue)) <= QueueSize
  <2>1. Receiving("delta")
    BY DEF ReceiveDelta
  <2> QED
    BY <2>1, HeadTells DEF Tells
<1>3. /\ shown' \in Screens /\ shown'.run = shown.run /\ shown'.stage = shown.stage
      /\ shown'.lanes = shown.lanes /\ shown'.view = shown.view
      /\ shown'.bubbles = shown.bubbles \cup {Frame1.thread}
  BY <1>1, <1>2 DEF ReceiveDelta, TypeOK, Screens
<1>4. UNCHANGED <<server, sub, sock, gen, asked, pending, blind, spent>> /\ queue' = Tail(queue)
  BY DEF ReceiveDelta
<1>5. TypeOK'
  <2>1. shown' \in Screens
    BY <1>3
  <2> QED
    BY <1>1, <1>2, <1>4, <2>1 DEF TypeOK, server, Screens
<1>6. ShowsTheRun'
  <2>1. stored' = stored /\ runStage' = runStage
    BY <1>4 DEF server
  <2> QED
    BY <1>2, <1>3, <2>1 DEF Faithful, ShowsTheRun
<1>7. Anchored' /\ Fetched' /\ Relayed'
  BY <1>1, <1>2, <1>3, <1>4, <1>5, AnchoredStays, FetchedStays, RelayedTail DEF Faithful, server
<1> QED
  BY <1>5, <1>6, <1>7 DEF Faithful

LEMMA ReceiveStageTrue == ASSUME Faithful, ReceiveStage PROVE Faithful'
<1>1. TypeOK /\ Grows
  BY GrowsNot DEF Faithful, ReceiveStage, server
<1>2. /\ runStage[shown.run] # "working" /\ shown.run # NoRun /\ shown.run \in Runs /\ sock = "open"
      /\ queue # <<>> /\ Tail(queue) \in Seq(Frame) /\ Len(Tail(queue)) <= QueueSize
  <2>1. Receiving("run_stage")
    BY DEF ReceiveStage
  <2> QED
    BY <2>1, HeadTells, ConsoleAssumption DEF Tells
<1> DEFINE p == Ask("lanes", -1, -1)
<1>3. /\ p \in Question /\ p.kind = "lanes" /\ p.gen = gen /\ p.run = shown.run
      /\ p.rows = {} /\ p.row = "unread"
  <2>1. shown.run \in Runs /\ -1 \in Threads \cup {-1} /\ -1 \in Nat \cup {-1}
    BY <1>2
  <2> QED
    BY <1>1, <2>1, Asking
<1>4. asked' = asked \cup {p}
  BY DEF ReceiveStage
<1> HIDE DEF p
<1>5. /\ shown' \in Screens /\ shown'.run = shown.run /\ shown'.stage = "ended"
      /\ shown'.lanes = shown.lanes /\ shown'.view = shown.view /\ shown'.bubbles = {}
  BY <1>1 DEF ReceiveStage, TypeOK, Screens, Stages
<1>6. UNCHANGED <<server, sub, sock, gen, pending, blind, spent>> /\ queue' = Tail(queue)
  BY DEF ReceiveStage
<1>7. TypeOK'
  <2>1. shown' \in Screens
    BY <1>5
  <2> QED
    BY <1>1, <1>2, <1>3, <1>4, <1>6, <2>1 DEF TypeOK, server, Screens
<1>8. ShowsTheRun'
  <2>1. stored' = stored /\ runStage' = runStage
    BY <1>6 DEF server
  <2> QED
    BY <1>2, <1>5, <2>1 DEF Faithful, ShowsTheRun
<1>9. Anchored' /\ Fetched'
  BY <1>1, <1>2, <1>3, <1>4, <1>5, <1>6, <1>7, AskedTrue DEF Faithful, server
<1>10. Relayed'
  BY <1>1, <1>2, <1>5, <1>6, <1>7, RelayedTail DEF Faithful
<1> QED
  BY <1>7, <1>8, <1>9, <1>10 DEF Faithful

-----------------------------------------------------------------------------
(* What the user does. *)

LEMMA BlankScreen == Blank \in Screens /\ Blank.run = NoRun /\ Blank.stage = "working"
                     /\ Blank.lanes = NoRun /\ Blank.bubbles = {}
                     /\ \A t \in Threads : Blank.view[t] = <<>>
  BY DEF Blank, Screens, Stages

LEMMA BlankShows == ASSUME shown' = Blank PROVE ShowsTheRun'
<1>1. \A t \in Threads : Len(Blank.view[t]) = 0
  BY BlankScreen
<1> HIDE DEF Blank
<1>2. ASSUME NEW t \in Threads, NEW i \in 1..Len(Blank.view[t]) PROVE FALSE
  BY <1>1
<1> QED
  BY <1>2, BlankScreen DEF ShowsTheRun

LEMMA OpenRunTrue == ASSUME Faithful, NEW r \in Runs, OpenRun(r) PROVE Faithful'
<1>1. TypeOK /\ Grows /\ gen \in Nat /\ spent \in Nat /\ MaxOpens \in Nat
  BY GrowsNot, ConsoleAssumption DEF Faithful, OpenRun, server, TypeOK
<1> DEFINE p == [Ask("open", -1, -1) EXCEPT !.run = r, !.gen = gen + 1]
<1>2. p \in Question /\ p.kind = "open" /\ p.gen = gen + 1 /\ p.rows = {} /\ p.row = "unread"
  <2> DEFINE b == Ask("open", -1, -1)
  <2>1. /\ b \in [kind : {"open"}, gen : Nat, run : Runs \cup {NoRun}, thread : {-1}, no : Nat,
                   after : {-1}, row : {"unread"}, rows : SUBSET (Threads \X Nat), whole : BOOLEAN]
        /\ b.rows = {}
    BY <1>1 DEF Ask, TypeOK
  <2> HIDE DEF b
  <2> DEFINE c == [b EXCEPT !.run = r]
  <2>2. /\ c \in [kind : {"open"}, gen : Nat, run : Runs, thread : {-1}, no : Nat,
                   after : {-1}, row : {"unread"}, rows : SUBSET (Threads \X Nat), whole : BOOLEAN]
        /\ c.rows = {}
    BY <2>1
  <2>3. p = [c EXCEPT !.gen = gen + 1]
    BY <2>1 DEF b
  <2> HIDE DEF c, p
  <2>4. gen + 1 \in Nat
    BY <1>1
  <2> QED
    BY <2>2, <2>3, <2>4 DEF Question
<1>3. asked' = asked \cup {p}
  BY DEF OpenRun
<1> HIDE DEF p
<1>4. /\ UNCHANGED <<server, shown, pending, blind, spent>>
      /\ gen < MaxOpens /\ gen' = gen + 1 /\ sock' = "none" /\ sub' = "none" /\ queue' = <<>>
  BY DEF OpenRun, Leave
<1>5. TypeOK'
  <2>1. <<>> \in Seq(Frame) /\ Len(<<>>) <= QueueSize /\ gen' \in 0..MaxOpens
    BY <1>1, <1>4, ConsoleAssumption
  <2> QED
    BY <1>1, <1>2, <1>3, <1>4, <2>1 DEF TypeOK, server
<1>6. Anchored'
  <2>1. \A q \in asked : q.gen <= gen /\ q.gen \in Nat /\ (q.kind = "catchup" => q.thread \in Threads)
    BY <1>1 DEF Faithful, Anchored, TypeOK, Question
  <2>2. ASSUME NEW q \in asked' PROVE q = p \/ (q \in asked /\ q.gen # gen')
    <3>1. CASE q \in asked
      <4>1. q.gen <= gen /\ q.gen \in Nat
        BY <2>1, <3>1
      <4> QED
        BY <1>1, <1>4, <3>1, <4>1
    <3> QED
      BY <1>3, <3>1
  <2>3. \A q \in asked' : q.gen <= gen' /\ (q.kind = "catchup" => q.thread \in Threads)
    BY <1>1, <1>2, <1>3, <1>4, <2>1
  <2> QED
    BY <1>2, <1>4, <2>2, <2>3 DEF Anchored
<1>7. Fetched'
  BY <1>2, <1>3, <1>4 DEF Faithful, Fetched, server
<1>8. Relayed' /\ ShowsTheRun'
  BY <1>1, <1>4, <1>5, RelayedEmpty, ShowsStays DEF Faithful
<1> QED
  BY <1>5, <1>6, <1>7, <1>8 DEF Faithful

LEMMA CloseRunTrue == ASSUME Faithful, CloseRun PROVE Faithful'
<1>1. TypeOK /\ Grows /\ gen \in Nat /\ MaxOpens \in Nat
  BY GrowsNot, ConsoleAssumption DEF Faithful, CloseRun, server, TypeOK
<1>2. /\ UNCHANGED <<server, asked, pending, blind, spent>> /\ shown' = Blank
      /\ gen < MaxOpens /\ gen' = gen + 1 /\ sock' = "none" /\ sub' = "none" /\ queue' = <<>>
  BY DEF CloseRun, Leave
<1>3. TypeOK'
  <2>1. <<>> \in Seq(Frame) /\ Len(<<>>) <= QueueSize /\ gen' \in 0..MaxOpens
    BY <1>1, <1>2, ConsoleAssumption
  <2>2. shown' \in Screens
    BY <1>2, BlankScreen
  <2> QED
    BY <1>1, <1>2, <2>1, <2>2 DEF TypeOK, server, Screens
<1>4. Anchored'
  <2>1. \A q \in asked : q.gen <= gen /\ q.gen \in Nat /\ (q.kind = "catchup" => q.thread \in Threads)
    BY <1>1 DEF Faithful, Anchored, TypeOK, Question
  <2>2. \A q \in asked' : q.gen <= gen' /\ q.gen # gen' /\ (q.kind = "catchup" => q.thread \in Threads)
    BY <1>1, <1>2, <2>1
  <2> QED
    BY <1>2, <2>2 DEF Anchored
<1>5. Fetched' /\ Relayed' /\ ShowsTheRun'
  BY <1>1, <1>2, <1>3, FetchedStays, RelayedEmpty, BlankShows DEF Faithful, server
<1> QED
  BY <1>3, <1>4, <1>5 DEF Faithful

LEMMA PollTrue == ASSUME Faithful, NEW kind, Poll(kind) PROVE Faithful'
<1>1. TypeOK /\ Grows /\ shown.run \in Runs /\ kind \in {"poll", "intent"}
  BY GrowsNot DEF Faithful, Poll, TypeOK, server
<1> DEFINE p == Ask(kind, -1, -1)
<1>2. /\ p \in Question /\ p.kind = kind /\ p.gen = gen /\ p.run = shown.run
      /\ p.rows = {} /\ p.row = "unread"
  BY <1>1, Asking
<1>3. asked' = asked \cup {p}
  BY DEF Poll
<1> HIDE DEF p
<1>4. UNCHANGED <<server, sub, queue, sock, gen, shown, pending, blind>> /\ spent' \in 0..MaxSpent
  BY <1>1, ConsoleAssumption DEF Poll, TypeOK
<1>5. TypeOK'
  BY <1>1, <1>2, <1>3, <1>4 DEF TypeOK, server
<1>6. Anchored' /\ Fetched'
  BY <1>1, <1>2, <1>3, <1>4, <1>5, AskedTrue DEF Faithful, server
<1> QED
  BY <1>1, <1>4, <1>5, <1>6, RelayedStays, ShowsStays DEF Faithful

-----------------------------------------------------------------------------
(* What the server answers. *)

LEMMA SomeBound == \E n \in Nat : \A t \in Threads : Events[t] <= n
<1> DEFINE Capped(D) == \E n \in Nat : \A t \in D : Events[t] <= n
           A == {k \in Nat : \A D \in SUBSET Threads :
                               IsFiniteSet(D) /\ Cardinality(D) = k => Capped(D)}
<1>1. 0 \in A
  <2>1. ASSUME NEW D \in SUBSET Threads, IsFiniteSet(D), Cardinality(D) = 0 PROVE Capped(D)
    <3>1. D = {}
      BY <2>1, FS_EmptySet
    <3> QED
      BY <3>1
  <2> HIDE DEF Capped
  <2> QED
    BY <2>1
<1>2. ASSUME NEW k \in A \cap Nat PROVE k + 1 \in A
  <2>1. ASSUME NEW D \in SUBSET Threads, IsFiniteSet(D), Cardinality(D) = k + 1 PROVE Capped(D)
    <3>1. PICK u : u \in D
      <4>1. D # {}
        BY <2>1, FS_EmptySet
      <4> QED
        BY <4>1
    <3>2. IsFiniteSet(D \ {u}) /\ Cardinality(D \ {u}) = k
      <4>1. IsFiniteSet(D \ {u}) /\ Cardinality(D \ {u}) = Cardinality(D) - 1
        BY <2>1, <3>1, FS_RemoveElement
      <4> QED
        BY <2>1, <4>1
    <3>3. Capped(D \ {u})
      BY <3>2
    <3>4. PICK n \in Nat : \A t \in D \ {u} : Events[t] <= n
      BY <3>3
    <3>5. Events[u] \in Nat /\ \A t \in D : Events[t] \in Nat
      BY <3>1, ConsoleAssumption
    <3>6. n + Events[u] \in Nat
      BY <3>5
    <3>7. ASSUME NEW t \in D PROVE Events[t] <= n + Events[u]
      <4>1. t = u \/ Events[t] <= n
        BY <3>4
      <4> QED
        BY <3>5, <4>1
    <3> QED
      BY <3>6, <3>7
  <2> HIDE DEF Capped
  <2> QED
    BY <2>1
<1> HIDE DEF A
<1>3. IsFiniteSet(Threads) /\ Cardinality(Threads) \in Nat
  BY ConsoleAssumption, FS_CardinalityType
<1>4. Cardinality(Threads) \in A
  BY <1>1, <1>2, <1>3, Inductive
<1> QED
  BY <1>3, <1>4 DEF A

Furthest(page) == CHOOSE n \in {e[2] : e \in page} : \A e \in page : e[2] <= n

LEMMA Replayed ==
  ASSUME TypeOK, NEW r, NEW among \in SUBSET Threads, NEW after
  PROVE  /\ Replay(r, among, after) \subseteq Threads \X Nat
         /\ \A e \in Replay(r, among, after) : RunOf[e[1]] = r /\ e[2] < stored[e[1]]
         /\ Replay(r, among, after) # {} => Furthest(Replay(r, among, after)) \in Nat
<1> DEFINE page == Replay(r, among, after)
<1> DEFINE S == {e[2] : e \in page}
<1>1. page \subseteq Threads \X Nat /\ \A e \in page : RunOf[e[1]] = r /\ e[2] < stored[e[1]]
  BY DEF Replay, Seqs
<1> HIDE DEF page
<1>2. PICK m \in Nat : \A t \in Threads : Events[t] <= m
  BY SomeBound
<1>3. S \in SUBSET Nat /\ \A d \in S : d < m + 1
  <2>1. ASSUME NEW e \in page PROVE e[2] \in Nat /\ e[2] < m + 1
    <3>1. e[1] \in Threads /\ e[2] \in Nat /\ e[2] < stored[e[1]]
      BY <1>1
    <3>2. stored[e[1]] \in Nat /\ stored[e[1]] <= Events[e[1]] /\ Events[e[1]] \in Nat /\ Events[e[1]] <= m
      BY <1>2, <3>1, ConsoleAssumption DEF TypeOK
    <3> QED
      BY <3>1, <3>2
  <2> QED
    BY <2>1
<1>4. ASSUME page # {} PROVE Furthest(page) \in Nat
  <2>1. S # {} /\ m + 1 \in Nat
    BY <1>4
  <2>2. Max(S) \in S /\ \A d \in S : d <= Max(S)
    BY <1>3, <2>1, Highest
  <2>3. \E n \in S : \A e \in page : e[2] <= n
    BY <2>2
  <2> HIDE DEF S
  <2>4. (CHOOSE n \in S : \A e \in page : e[2] <= n) \in S
    BY <2>3
  <2> QED
    BY <1>3, <2>4 DEF S, Furthest
<1> QED
  BY <1>1, <1>4 DEF page

LEMMA RowRead ==
  ASSUME NEW q \in Question, NEW v \in Stages, NEW p, p = [q EXCEPT !.row = v]
  PROVE  /\ p \in Question /\ p.kind = q.kind /\ p.gen = q.gen /\ p.run = q.run
         /\ p.thread = q.thread /\ p.rows = q.rows /\ p.row = v
  BY DEF Question

Paged(q, R, w, a) == [q EXCEPT !.rows = R, !.whole = w, !.after = a]

LEMMA PageRead ==
  ASSUME NEW q \in Question, NEW R \in SUBSET (Threads \X Nat), NEW w \in BOOLEAN,
         NEW a \in Nat \cup {-1}
  PROVE  /\ Paged(q, R, w, a) \in Question /\ Paged(q, R, w, a).kind = q.kind
         /\ Paged(q, R, w, a).gen = q.gen /\ Paged(q, R, w, a).run = q.run
         /\ Paged(q, R, w, a).thread = q.thread /\ Paged(q, R, w, a).rows = R
         /\ Paged(q, R, w, a).row = q.row
  BY DEF Question, Paged

\* A question on its way that has read something true.
LEMMA RewrittenTrue ==
  ASSUME Faithful, NEW q \in asked, NEW p \in Question, asked' = (asked \ {q}) \cup {p},
         p.kind = q.kind, p.gen = q.gen, p.run = q.run, p.thread = q.thread,
         \A e \in p.rows : RunOf[e[1]] = p.run /\ e[2] < stored[e[1]],
         p.row = "ended" => runStage[p.run] # "working",
         UNCHANGED <<server, sub, queue, sock, gen, shown, pending, blind, spent>>
  PROVE  Faithful'
<1>1. TypeOK /\ Grows
  BY GrowsNot DEF Faithful, server
<1>2. TypeOK'
  BY <1>1 DEF TypeOK, server
<1>3. \A o \in asked' : o = p \/ (o \in asked /\ o # q)
  BY Zenon
<1>4. Anchored'
  <2>1. ASSUME NEW o \in asked'
        PROVE  /\ o.gen <= gen /\ (o.kind = "catchup" => o.thread \in Threads)
               /\ o.gen = gen /\ o.kind \in {"resync", "catchup", "lanes"} => o.run = shown.run
    BY <1>3 DEF Faithful, Anchored
  <2>2. ASSUME NEW o \in asked', NEW d \in asked', o.kind = "open", o.gen = gen, d.gen = gen
        PROVE  sock = "none" /\ (d.kind \in {"poll", "intent"} \/ d = o)
    BY <1>3, <2>2 DEF Faithful, Anchored
  <2> QED
    BY <2>1, <2>2 DEF Faithful, Anchored
<1>5. Fetched'
  BY <1>3 DEF Faithful, Fetched, server
<1> QED
  BY <1>1, <1>2, <1>4, <1>5, RelayedStays, ShowsStays DEF Faithful

LEMMA ReadRowTrue == ASSUME Faithful, NEW q \in asked, ReadRow(q) PROVE Faithful'
<1> DEFINE p == [q EXCEPT !.row = Row(q.run)]
<1>1. q \in Question /\ Row(q.run) \in Stages
  BY DEF Faithful, TypeOK, Row, Stages
<1>2. /\ p \in Question /\ p.kind = q.kind /\ p.gen = q.gen /\ p.run = q.run
      /\ p.thread = q.thread /\ p.rows = q.rows /\ p.row = Row(q.run)
  BY <1>1, RowRead
<1>3. asked' = (asked \ {q}) \cup {p}
  BY DEF ReadRow
<1> HIDE DEF p
<1>4. p.row = "ended" => runStage[p.run] # "working"
  BY <1>2 DEF Row
<1>5. \A e \in p.rows : RunOf[e[1]] = p.run /\ e[2] < stored[e[1]]
  BY <1>2 DEF Faithful, Fetched
<1> QED
  BY <1>2, <1>3, <1>4, <1>5, RewrittenTrue DEF ReadRow

LEMMA ReadPageTrue == ASSUME Faithful, NEW q \in asked, ReadPage(q) PROVE Faithful'
<1> DEFINE page == Replay(q.run, IF q.kind = "catchup" THEN {q.thread} ELSE Threads, q.after)
           w == q.kind = "catchup" \/ Cardinality(page) < Page
           a == IF page = {} THEN q.after
                ELSE CHOOSE n \in {e[2] : e \in page} : \A e \in page : e[2] <= n
           p == [q EXCEPT !.rows = q.rows \cup page, !.whole = w, !.after = a]
<1>0. page = Replay(q.run, IF q.kind = "catchup" THEN {q.thread} ELSE Threads, q.after)
  OBVIOUS
<1>1. q \in Question /\ TypeOK
  BY DEF Faithful, TypeOK
<1>2. q.rows \subseteq Threads \X Nat /\ q.after \in Nat \cup {-1}
  BY <1>1 DEF Question
<1>3. /\ page \subseteq Threads \X Nat
      /\ \A e \in page : RunOf[e[1]] = q.run /\ e[2] < stored[e[1]]
      /\ a \in Nat \cup {-1}
  <2>1. (IF q.kind = "catchup" THEN {q.thread} ELSE Threads) \in SUBSET Threads
    BY DEF Faithful, Anchored
  <2>2. /\ page \subseteq Threads \X Nat
        /\ \A e \in page : RunOf[e[1]] = q.run /\ e[2] < stored[e[1]]
        /\ page # {} => Furthest(page) \in Nat
    <3> DEFINE among == IF q.kind = "catchup" THEN {q.thread} ELSE Threads
    <3>1. page = Replay(q.run, among, q.after) /\ among \in SUBSET Threads
      BY <1>0, <2>1
    <3> HIDE DEF page, among
    <3> QED
      BY <1>1, <3>1, Replayed, Zenon
  <2> HIDE DEF page
  <2> QED
    BY <1>2, <2>2 DEF Furthest
<1>4. asked' = (asked \ {q}) \cup {p} /\ w \in BOOLEAN
  BY DEF ReadPage
<1> HIDE DEF page, w, a
<1>5. /\ p \in Question /\ p.kind = q.kind /\ p.gen = q.gen /\ p.run = q.run
      /\ p.thread = q.thread /\ p.rows = q.rows \cup page /\ p.row = q.row
  <2>1. q.rows \cup page \in SUBSET (Threads \X Nat)
    BY <1>2, <1>3
  <2>2. w \in BOOLEAN /\ a \in Nat \cup {-1}
    BY <1>3, <1>4
  <2>3. p = Paged(q, q.rows \cup page, w, a)
    BY Zenon DEF Paged
  <2> HIDE DEF p
  <2> QED
    BY <1>1, <2>1, <2>2, <2>3, PageRead
<1> HIDE DEF p
<1>6. \A e \in p.rows : RunOf[e[1]] = p.run /\ e[2] < stored[e[1]]
  BY <1>3, <1>5 DEF Faithful, Fetched
<1>7. p.row = "ended" => runStage[p.run] # "working"
  BY <1>5 DEF Faithful, Fetched
<1> QED
  BY <1>4, <1>5, <1>6, <1>7, RewrittenTrue DEF ReadPage

\* An answer is folded into the histories of its run.
LEMMA FoldedTrue ==
  ASSUME Faithful, NEW q \in asked, NEW view \in [Threads -> Seq(Nat)], NEW t \in Threads,
         Rising(view[t]), HistoryOf(q.run, t, view[t])
  PROVE  Folded(view, q.rows)[t] \in Seq(Nat) /\ HistoryOf(q.run, t, Folded(view, q.rows)[t])
<1>1. q.rows \subseteq Threads \X Nat /\ \A e \in q.rows : RunOf[e[1]] = q.run /\ e[2] < stored[e[1]]
  BY DEF Faithful, TypeOK, Question, Fetched
<1>2. stored[t] \in Nat /\ view[t] \in Seq(Nat)
  BY DEF Faithful, TypeOK
<1> DEFINE D == Of(q.rows, t)
<1>3. D \in SUBSET Nat /\ \A d \in D : RunOf[t] = q.run /\ d < stored[t]
  BY <1>1 DEF Of
<1>4. Folded(view, q.rows)[t] = Upserts(view[t], D)
  BY DEF Folded
<1> HIDE DEF D
<1>5. Holds(Upserts(view[t], D), view[t], D)
  BY <1>2, <1>3, UpsertsHolds
<1>6. HistoryOf(q.run, t, Upserts(view[t], D))
  BY <1>2, <1>3, <1>5, HistoryTakes
<1> QED
  BY <1>4, <1>5, <1>6 DEF Holds

\* An answer has come: what is on the screen is, with it, as true as before.
LEMMA AnsweredTrue ==
  ASSUME Faithful, NEW q \in asked, asked' = asked \ {q}, UNCHANGED <<server, sub, queue, sock, gen>>,
         pending' \subseteq pending, spent' \in 0..MaxSpent, blind' \in BOOLEAN,
         shown' \in Screens, shown'.run = shown.run, ShowsTheRun'
  PROVE  Faithful'
<1>1. TypeOK /\ Grows
  BY GrowsNot DEF Faithful, server
<1>2. TypeOK'
  <2>1. shown' \in Screens
    OBVIOUS
  <2> QED
    BY <1>1, <2>1 DEF TypeOK, server, Screens
<1>3. Anchored' /\ Fetched' /\ Relayed'
  BY <1>1, <1>2, AnchoredStays, FetchedStays, RelayedStays DEF Faithful, server
<1> QED
  BY <1>2, <1>3 DEF Faithful

LEMMA FailsTrue == ASSUME Faithful, NEW q \in asked, Fails(q) PROVE Faithful'
<1>1. TypeOK /\ Grows
  BY GrowsNot DEF Faithful, server, Fails
<1>2. /\ asked' = asked \ {q} /\ UNCHANGED <<server, sub, queue, sock, gen, shown>>
      /\ pending' \subseteq pending /\ spent' \in 0..MaxSpent /\ blind' \in BOOLEAN
  BY <1>1, ConsoleAssumption DEF Fails, TypeOK
<1>3. TypeOK'
  BY <1>1, <1>2 DEF TypeOK, server
<1> QED
  BY <1>1, <1>2, <1>3, AnchoredStays, FetchedStays, RelayedStays, ShowsStays DEF Faithful, server

\* A screen whose histories have taken an answer of its run.
LEMMA ScreenTakes ==
  ASSUME Faithful, NEW q \in asked, q.run = shown.run, UNCHANGED server,
         shown'.run = shown.run, shown'.lanes = shown.run, shown'.bubbles \subseteq shown.bubbles,
         shown'.view = Folded(shown.view, q.rows),
         shown'.stage = "ended" => shown.run # NoRun /\ runStage[shown.run] # "working"
  PROVE  ShowsTheRun'
<1>1. \A t \in Threads : HistoryOf(shown.run, t, shown'.view[t])
  <2>1. shown.view \in [Threads -> Seq(Nat)]
    BY DEF Faithful, TypeOK
  <2>2. ASSUME NEW t \in Threads PROVE Rising(shown.view[t]) /\ HistoryOf(q.run, t, shown.view[t])
    BY ViewRising
  <2> QED
    BY <2>1, <2>2, FoldedTrue
<1>2. stored' = stored /\ runStage' = runStage
  BY DEF server
<1> QED
  BY <1>1, <1>2 DEF Faithful, ShowsTheRun, HistoryOf

LEMMA FoldedTyped ==
  ASSUME Faithful, NEW q \in asked, q.run = shown.run
  PROVE  Folded(shown.view, q.rows) \in [Threads -> Seq(Nat)]
<1>1. shown.view \in [Threads -> Seq(Nat)]
  BY DEF Faithful, TypeOK
<1>2. ASSUME NEW t \in Threads PROVE Folded(shown.view, q.rows)[t] \in Seq(Nat)
  <2>1. Rising(shown.view[t]) /\ HistoryOf(q.run, t, shown.view[t])
    BY ViewRising
  <2> QED
    BY <1>1, <2>1, FoldedTrue
<1> QED
  BY <1>2 DEF Folded

LEMMA ResyncsTrue == ASSUME Faithful, NEW q \in asked, Resyncs(q) PROVE Faithful'
<1>1. TypeOK /\ q \in Question
  BY DEF Faithful, TypeOK
<1>2. /\ asked' = asked \ {q} /\ UNCHANGED <<server, sub, queue, sock, gen, pending, blind, spent>>
      /\ q.kind = "resync" /\ q.row # "unread"
  BY DEF Resyncs, Answered
<1>3. blind' \in BOOLEAN /\ spent' \in 0..MaxSpent /\ pending' \subseteq pending
  BY <1>1, <1>2 DEF TypeOK
<1>4. CASE ~Current(q)
  <2>1. shown' = shown
    BY <1>4 DEF Resyncs
  <2>2. shown' \in Screens
    BY <1>1, <2>1 DEF TypeOK, Screens
  <2>3. ShowsTheRun'
    BY <1>2, <2>1 DEF Faithful, ShowsTheRun, server
  <2> QED
    BY <1>2, <1>3, <2>1, <2>2, <2>3, AnsweredTrue
<1>5. CASE Current(q)
  <2>1. q.run = shown.run /\ shown.run \in Runs /\ shown.run # NoRun
    BY <1>1, <1>2, <1>5, ConsoleAssumption DEF Faithful, Anchored, Current, Question
  <2> DEFINE v == Folded(shown.view, q.rows)
  <2>2. v \in [Threads -> Seq(Nat)]
    BY <2>1, FoldedTyped
  <2>3. shown' = [shown EXCEPT !.stage = q.row, !.lanes = q.run, !.view = v,
                               !.bubbles = IF q.row = "ended" THEN {} ELSE @]
    BY <1>5 DEF Resyncs
  <2>4. v = Folded(shown.view, q.rows)
    OBVIOUS
  <2> HIDE DEF v
  <2>5. q.row \in Stages
    BY <1>1, <1>2 DEF Question
  <2>6. /\ shown' \in Screens /\ shown'.run = shown.run /\ shown'.lanes = shown.run
        /\ shown'.bubbles \subseteq shown.bubbles /\ shown'.view = v /\ shown'.stage = q.row
    BY <1>1, <2>1, <2>2, <2>3, <2>5 DEF TypeOK, Screens
  <2>7. q.row = "ended" => runStage[q.run] # "working"
    BY DEF Faithful, Fetched
  <2>8. ShowsTheRun'
    BY <1>2, <2>1, <2>4, <2>6, <2>7, ScreenTakes
  <2> QED
    BY <1>2, <1>3, <2>6, <2>8, AnsweredTrue
<1> QED
  BY <1>4, <1>5

LEMMA CatchesUpTrue == ASSUME Faithful, NEW q \in asked, CatchesUp(q) PROVE Faithful'
<1>1. TypeOK /\ q \in Question
  BY DEF Faithful, TypeOK
<1>2. /\ asked' = asked \ {q} /\ UNCHANGED <<server, sub, queue, sock, gen, blind, spent>>
      /\ q.kind = "catchup" /\ pending' \subseteq pending
  BY DEF CatchesUp, Answered
<1>3. blind' \in BOOLEAN /\ spent' \in 0..MaxSpent
  BY <1>1, <1>2 DEF TypeOK
<1>4. CASE ~Current(q)
  <2>1. shown' = shown
    BY <1>4 DEF CatchesUp
  <2>2. shown' \in Screens
    BY <1>1, <2>1 DEF TypeOK, Screens
  <2>3. ShowsTheRun'
    BY <1>2, <2>1 DEF Faithful, ShowsTheRun, server
  <2> QED
    BY <1>2, <1>3, <2>1, <2>2, <2>3, AnsweredTrue
<1>5. CASE Current(q)
  <2>1. q.run = shown.run
    BY <1>2, <1>5 DEF Faithful, Anchored, Current
  <2> DEFINE v == Folded(shown.view, q.rows)
  <2>2. v \in [Threads -> Seq(Nat)]
    BY <2>1, FoldedTyped
  <2>3. shown' = [shown EXCEPT !.view = v]
    BY <1>5 DEF CatchesUp
  <2>4. v = Folded(shown.view, q.rows)
    OBVIOUS
  <2> HIDE DEF v
  <2>5. /\ shown' \in Screens /\ shown'.run = shown.run /\ shown'.lanes = shown.lanes
        /\ shown'.bubbles = shown.bubbles /\ shown'.view = v /\ shown'.stage = shown.stage
    BY <1>1, <2>2, <2>3 DEF TypeOK, Screens
  <2>6. shown.lanes = shown.run
        /\ (shown.stage = "ended" => shown.run # NoRun /\ runStage[shown.run] # "working")
    BY DEF Faithful, ShowsTheRun
  <2>7. ShowsTheRun'
    BY <1>2, <2>1, <2>4, <2>5, <2>6, ScreenTakes
  <2> QED
    BY <1>2, <1>3, <2>5, <2>7, AnsweredTrue
<1> QED
  BY <1>4, <1>5

LEMMA RefreshesTrue == ASSUME Faithful, NEW q \in asked, Refreshes(q) PROVE Faithful'
<1>1. TypeOK /\ q \in Question
  BY DEF Faithful, TypeOK
<1>2. /\ asked' = asked \ {q} /\ UNCHANGED <<server, sub, queue, sock, gen, pending, blind, spent>>
      /\ (q.kind = "intent" => q.row # "unread")
  BY DEF Refreshes, Answered
<1>3. blind' \in BOOLEAN /\ spent' \in 0..MaxSpent /\ pending' \subseteq pending
  BY <1>1, <1>2 DEF TypeOK
<1>4. q.kind = "lanes" /\ Current(q) => q.run = shown.run
  BY DEF Faithful, Anchored, Current
<1>5. \/ shown' = shown
      \/ q.run = shown.run /\ shown' = [shown EXCEPT !.lanes = q.run]
      \/ q.kind = "intent" /\ q.run = shown.run /\ shown' = [shown EXCEPT !.stage = q.row]
  BY <1>4 DEF Refreshes
<1>6. /\ shown' \in Screens /\ shown'.run = shown.run /\ shown'.view = shown.view
      /\ shown'.bubbles = shown.bubbles
      /\ shown'.lanes = shown.lanes \/ (q.run = shown.run /\ shown'.lanes = q.run)
      /\ shown'.stage = shown.stage \/ (q.run = shown.run /\ shown'.stage = q.row)
  <2>1. CASE shown' = shown
    BY <1>1, <2>1 DEF TypeOK, Screens
  <2>2. CASE q.run = shown.run /\ shown' = [shown EXCEPT !.lanes = q.run]
    BY <1>1, <2>2 DEF TypeOK, Screens
  <2>3. CASE q.kind = "intent" /\ q.run = shown.run /\ shown' = [shown EXCEPT !.stage = q.row]
    <3>1. q.row \in Stages
      BY <1>1, <1>2, <2>3 DEF Question
    <3> QED
      BY <1>1, <2>3, <3>1 DEF TypeOK, Screens
  <2> QED
    BY <1>5, <2>1, <2>2, <2>3
<1>7. ShowsTheRun'
  <2>1. stored' = stored /\ runStage' = runStage
    BY <1>2 DEF server
  <2>2. q.run \in Runs /\ (q.row = "ended" => runStage[q.run] # "working")
    BY <1>1 DEF Faithful, Fetched, Question
  <2>3. shown'.stage = "ended" => shown.run # NoRun /\ runStage[shown.run] # "working"
    BY <1>6, <2>2, ConsoleAssumption DEF Faithful, ShowsTheRun
  <2> QED
    BY <1>6, <2>1, <2>3 DEF Faithful, ShowsTheRun
<1> QED
  BY <1>2, <1>3, <1>6, <1>7, AnsweredTrue

LEMMA OpensTrue == ASSUME Faithful, NEW q \in asked, Opens(q) PROVE Faithful'
<1>1. TypeOK /\ Grows /\ q \in Question
  BY GrowsNot DEF Faithful, TypeOK, Opens, server
<1>2. /\ asked' = asked \ {q} /\ UNCHANGED <<server, gen, pending, blind, spent>>
      /\ q.kind = "open" /\ q.row # "unread"
  BY DEF Opens, Answered
<1>3. CASE ~Current(q)
  <2>1. UNCHANGED <<shown, sock, sub, queue>>
    BY <1>3 DEF Opens
  <2>2. shown' \in Screens /\ blind' \in BOOLEAN /\ spent' \in 0..MaxSpent
    BY <1>1, <1>2, <2>1 DEF TypeOK, Screens
  <2>3. ShowsTheRun'
    BY <1>2, <2>1 DEF Faithful, ShowsTheRun, server
  <2> QED
    BY <1>2, <2>1, <2>2, <2>3, AnsweredTrue
<1>4. CASE Current(q)
  <2> DEFINE v == Folded(Blank.view, q.rows)
  <2>1. \A t \in Threads : v[t] \in Seq(Nat) /\ HistoryOf(q.run, t, v[t])
    <3>1. Blank.view \in [Threads -> Seq(Nat)]
      BY BlankScreen DEF Screens
    <3>2. ASSUME NEW t \in Threads PROVE Rising(Blank.view[t]) /\ HistoryOf(q.run, t, Blank.view[t])
      <4>1. Blank.view[t] = <<>>
        BY BlankScreen
      <4> QED
        BY <4>1 DEF Rising, HistoryOf
    <3> QED
      BY <3>1, <3>2, FoldedTrue
  <2>2. v \in [Threads -> Seq(Nat)]
    BY <2>1 DEF Folded
  <2>3. /\ shown' = [run |-> q.run, stage |-> q.row, lanes |-> q.run, view |-> v, bubbles |-> {}]
        /\ sock' = "connecting" /\ sub' = "none" /\ queue' = <<>>
    BY <1>4 DEF Opens
  <2> HIDE DEF v
  <2>4. q.row \in Stages /\ q.run \in Runs /\ q.run # NoRun
    BY <1>1, <1>2, ConsoleAssumption DEF Question
  <2>5. /\ shown' \in Screens /\ shown'.run = q.run /\ shown'.stage = q.row
        /\ shown'.lanes = q.run /\ shown'.view = v /\ shown'.bubbles = {}
    BY <2>2, <2>3, <2>4 DEF Screens
  <2>6. TypeOK'
    <3>1. <<>> \in Seq(Frame) /\ Len(<<>>) <= QueueSize /\ shown' \in Screens
      BY <2>5, ConsoleAssumption
    <3> QED
      BY <1>1, <1>2, <2>3, <3>1 DEF TypeOK, server, Screens
  <2>7. ShowsTheRun'
    <3>1. stored' = stored /\ runStage' = runStage
      BY <1>2 DEF server
    <3>2. q.row = "ended" => runStage[q.run] # "working"
      BY DEF Faithful, Fetched
    <3> QED
      BY <2>1, <2>4, <2>5, <3>1, <3>2 DEF ShowsTheRun, HistoryOf
  <2>8. Anchored'
    <3>1. q.gen = gen
      BY <1>4 DEF Current
    <3>2. ASSUME NEW o \in asked'
          PROVE  /\ o.gen <= gen /\ (o.kind = "catchup" => o.thread \in Threads)
                 /\ o.gen = gen => o.kind \in {"poll", "intent"}
      BY <1>2, <3>1 DEF Faithful, Anchored
    <3> QED
      BY <1>2, <2>4, <2>5, <3>2 DEF Anchored
  <2>9. Fetched' /\ Relayed'
    BY <1>1, <1>2, <2>3, <2>6, FetchedStays, RelayedEmpty DEF Faithful, server
  <2> QED
    BY <2>6, <2>7, <2>8, <2>9 DEF Faithful
<1> QED
  BY <1>3, <1>4

-----------------------------------------------------------------------------
LEMMA InitTrue == Init => Faithful
<1> SUFFICES ASSUME Init PROVE Faithful
  OBVIOUS
<1>1. MaxSpent \in Nat /\ MaxOpens \in Nat /\ QueueSize \in Nat /\ \A t \in Threads : Events[t] \in Nat
  BY ConsoleAssumption
<1>2. shown \in Screens /\ shown.bubbles = {} /\ shown.stage = "working"
      /\ shown.lanes = shown.run /\ \A t \in Threads : Len(shown.view[t]) = 0
  BY BlankScreen DEF Init
<1>3. TypeOK
  <2>1. queue \in Seq(Frame) /\ Len(queue) <= QueueSize
    BY <1>1 DEF Init
  <2>2. shown \in Screens
    BY <1>2
  <2>3. stored \in [Threads -> Nat] /\ \A t \in Threads : stored[t] <= Events[t]
    BY <1>1 DEF Init
  <2>4. gen \in 0..MaxOpens /\ spent \in 0..MaxSpent /\ runStage \in [Runs -> Stages \cup {"told"}]
    BY <1>1 DEF Init, Stages
  <2>5. /\ unsent \subseteq Threads \X Seqs /\ asked \subseteq Question /\ pending \subseteq Threads
        /\ blind \in BOOLEAN
        /\ sub = "none" /\ sock = "none"
    BY DEF Init
  <2> QED
    BY <2>1, <2>2, <2>3, <2>4, <2>5 DEF TypeOK, Screens
<1>4. ShowsTheRun
  <2>1. ASSUME NEW t \in Threads, NEW i \in 1..Len(shown.view[t]) PROVE FALSE
    BY <1>2
  <2> QED
    BY <1>2, <2>1 DEF ShowsTheRun
<1>5. Anchored /\ Fetched
  BY DEF Init, Anchored, Fetched
<1>6. Relayed
  BY DEF Init, Relayed
<1> QED
  BY <1>3, <1>4, <1>5, <1>6 DEF Faithful

LEMMA NextTrue == Faithful /\ [Next]_vars => Faithful'
<1> SUFFICES ASSUME Faithful, [Next]_vars PROVE Faithful'
  OBVIOUS
<1>1. CASE \E t \in Threads : Store(t) \/ Delta(t)
  BY <1>1, StoreTrue, DeltaTrue
<1>2. CASE \E t \in Threads : \E n \in Seqs : PublishStep(t, n) \/ RelayAgain(t, n)
  BY <1>2, PublishStepTrue, RelayAgainTrue
<1>3. CASE \E r \in Runs : RunEnds(r) \/ PublishStage(r) \/ OpenRun(r)
  BY <1>3, RunEndsTrue, PublishStageTrue, OpenRunTrue
<1>4. CASE Accept \/ Subscribe \/ OnOpen \/ Cut \/ Refused \/ Reconnect
  BY <1>4, SocketTrue, SubscribeTrue, OnOpenTrue, CutTrue
<1>5. CASE ReceiveStep \/ ReceiveDelta \/ ReceiveStage \/ ReceiveDrop
  BY <1>5, ReceiveStepTrue, ReceiveDeltaTrue, ReceiveStageTrue, CutTrue
<1>6. CASE CloseRun \/ \E kind \in {"poll", "intent"} : Poll(kind)
  BY <1>6, CloseRunTrue, PollTrue
<1>7. CASE \E q \in asked : ReadRow(q) \/ ReadPage(q) \/ Opens(q) \/ Resyncs(q)
                              \/ CatchesUp(q) \/ Refreshes(q) \/ Fails(q)
  BY <1>7, ReadRowTrue, ReadPageTrue, OpensTrue, ResyncsTrue, CatchesUpTrue, RefreshesTrue, FailsTrue
<1>8. CASE UNCHANGED vars
  <2>1. TypeOK /\ Grows
    BY <1>8, GrowsNot DEF Faithful, vars
  <2>2. TypeOK'
    BY <1>8, <2>1 DEF TypeOK, vars
  <2> QED
    BY <1>8, <2>1, <2>2, AnchoredStays, FetchedStays, RelayedStays, ShowsStays DEF Faithful, vars
<1> QED
  BY <1>1, <1>2, <1>3, <1>4, <1>5, <1>6, <1>7, <1>8 DEF Next

LEMMA ScreenInvariant == Spec => []Faithful
  BY InitTrue, NextTrue, PTL DEF Spec

\* The console's state has its types: in particular the queue of the relay keeps to its
\* size, an eviction included (relay.py:80-102), and no cursor is asked for that is none.
THEOREM ScreenTypeCorrect == Spec => []TypeOK
<1>1. Faithful => TypeOK
  BY DEF Faithful
<1> QED
  BY <1>1, ScreenInvariant, PTL

\* What is on the screen belongs to the run that is shown, is durable and in order, however
\* frames, answers, cuts and the user's clicks interleave (stores/run.ts:127-283).
THEOREM ScreenTrue == Spec => []ShowsTheRun
<1>1. Faithful => ShowsTheRun
  BY DEF Faithful
<1> QED
  BY <1>1, ScreenInvariant, PTL
=============================================================================
