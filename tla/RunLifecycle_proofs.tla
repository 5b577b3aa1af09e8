------------------------ MODULE RunLifecycle_proofs ------------------------
(***************************************************************************)
(* Proofs about RunLifecycle, for every set of blueprints and every bound: *)
(* type correctness, the cause of every container without a named row, and *)
(* the action properties of stop, completion, beats and the boot sweep.    *)
(***************************************************************************)
EXTENDS RunLifecycle, SequenceTheorems, TLAPS

USE DEF Threads, Tasks, Modes, Nodes

TaskRec == [pc : TaskPcs, bp : Modes, node : Nat \ {0}, lane : 0..MaxThreads,
            from : 0..MaxThreads, todo : SUBSET Threads]
NodeRec == [stage : Stages \cup {"same"}, body : Bodies, resumes : BOOLEAN]

(***************************************************************************)
(* The inductive invariant.  Each part says what a step relies on: a spawn *)
(* in progress has its lane, a task or lane not yet created looks like it, *)
(* and a container without a named row belongs to a spawn.                 *)
(***************************************************************************)
LanesGiven ==
  \A k \in Tasks : /\ task[k].pc \in {"mint", "start"} => task[k].lane \in Created
                   /\ task[k].todo \subseteq Created
TasksInOrder == \A k \in Tasks : k > made => task[k].pc = "free"
RowsInOrder  == \A t \in Threads : t > count => row[t] = "absent"
BoxesSpawned ==
  \A t \in Threads :
    box[t] \in {"starting", "up"} /\ t \notin known
      => \E k \in Tasks : task[k].lane = t /\ task[k].pc \in {"start", "cancelled"}

Inv == TypeOK /\ LanesGiven /\ TasksInOrder /\ RowsInOrder /\ BoxesSpawned

-----------------------------------------------------------------------------
(* What the helpers return.                                                *)

\* A node of a blueprint is a node record and never stores one of the stages
\* that other parts of the code own.
LEMMA NodeType ==
  ASSUME NEW m \in Modes, NEW n \in 1..Len(Blueprints[m])
  PROVE  /\ Blueprints[m][n] \in NodeRec
         /\ Blueprints[m][n].stage \notin {"interrupted", "completed", "abandoned"}
<1>1. Blueprints[m] \in Seq(NodeRec)
  BY BlueprintsAssumption, Zenon DEF NodeRec
<1>2. Blueprints[m][n] \in NodeRec
  BY <1>1
<1>3. Blueprints[m][n].stage \notin {"interrupted", "completed", "abandoned"}
  BY BlueprintsAssumption
<1> QED
  BY <1>2, <1>3

\* A blueprint has at least one node.
LEMMA NodesExist ==
  ASSUME NEW m \in Modes
  PROVE  Len(Blueprints[m]) \in Nat \ {0}
  BY BlueprintsAssumption

\* A forced stop leaves a container that is not up as it is.
LEMMA KillType ==
  ASSUME TypeOK, NEW t \in Threads, NEW ids, NEW b \in KillOutcomes(t, ids)
  PROVE  /\ b \in BoxStates
         /\ b \in {"up", "starting"} => b = box[t]
  BY DEF TypeOK, KillOutcomes, BoxStates

\* Marking lanes yields rows again.
LEMMA MarkedType ==
  ASSUME TypeOK, NEW ts, NEW status \in RowStatuses
  PROVE  Marked(ts, status) \in [Threads -> RowStatuses]
  BY DEF TypeOK, Marked

\* Marking every live lane with a closed status leaves none live.
LEMMA MarkedLive ==
  ASSUME TypeOK, NEW status \in ClosedRows, row' = Marked(Live, status), count' = count
  PROVE  Live' = {}
  BY BoundsAssumption DEF TypeOK, Live, Created, Marked, ClosedRows, LiveRows

\* Cancelling a task changes its pc only.
LEMMA CancelledType ==
  ASSUME TypeOK, NEW h
  PROVE  /\ Cancelled(h) \in [Tasks -> TaskRec]
         /\ \A k \in Tasks : /\ Cancelled(h)[k].bp = task[k].bp
                             /\ Cancelled(h)[k].node = task[k].node
                             /\ Cancelled(h)[k].lane = task[k].lane
                             /\ Cancelled(h)[k].todo = task[k].todo
                             /\ Cancelled(h)[k].pc \in {task[k].pc, "cancelled"}
                             /\ task[k].pc = "free" => Cancelled(h)[k].pc = "free"
<1>1. task \in [Tasks -> TaskRec]
  BY DEF TypeOK, TaskRec
<1>2. CASE ~(h # 0 /\ Active(h))
  BY <1>1, <1>2 DEF Cancelled
<1>3. CASE h # 0 /\ Active(h)
  <2>1. Cancelled(h) = [task EXCEPT ![h].pc = "cancelled"]
    BY <1>3 DEF Cancelled
  <2>2. h \in Tasks => task[h].pc # "free"
    BY <1>3 DEF Active
  <2>4. \A k \in Tasks : Cancelled(h)[k] = IF k = h THEN [task[k] EXCEPT !.pc = "cancelled"]
                                                    ELSE task[k]
    BY <1>1, <2>1
  <2>5. \A k \in Tasks : [task[k] EXCEPT !.pc = "cancelled"] \in TaskRec
    BY <1>1 DEF TaskRec, TaskPcs
  <2>6. Cancelled(h) = [k \in Tasks |-> Cancelled(h)[k]]
    BY <1>1, <2>1
  <2>3. Cancelled(h) \in [Tasks -> TaskRec]
    <3> DEFINE c == Cancelled(h)
    <3>1. \A k \in Tasks : c[k] \in TaskRec
      BY <1>1, <2>4, <2>5
    <3> HIDE DEF c
    <3> QED
      BY <2>6, <3>1 DEF c
  <2> QED
    BY <1>1, <2>2, <2>3, <2>4 DEF TaskRec
<1> QED
  BY <1>2, <1>3

\* A launch creates a well-typed task and touches no other.
LEMMA LaunchType ==
  ASSUME TypeOK, NEW from \in 0..MaxThreads, Launch(from)
  PROVE  /\ made + 1 \in Tasks
         /\ made' = made + 1 /\ handle' = made + 1
         /\ task' \in [Tasks -> TaskRec]
         /\ \A k \in Tasks : task'[k].node <= Len(Blueprints[task'[k].bp])
         /\ \A k \in Tasks : k # made + 1 => task'[k] = task[k]
         /\ task'[made + 1].pc = "enter"
<1>1. made + 1 \in Tasks
  <2>1. made \in Tasks /\ made <= MaxOps
    BY DEF TypeOK, Launch
  <2> QED
    BY <2>1, BoundsAssumption
<1>2. FreshTask("enter", from) \in TaskRec
  BY BoundsAssumption DEF FreshTask, TaskRec, TaskPcs, TypeOK
<1>3. 1 <= Len(Blueprints[mode])
  BY NodesExist DEF TypeOK
<1>4. \A k \in Tasks : task'[k] = IF k = made + 1 THEN FreshTask("enter", from) ELSE task[k]
  BY DEF TypeOK, Launch
<1> QED
  BY <1>1, <1>2, <1>3, <1>4 DEF TypeOK, Launch, FreshTask, TaskRec

\* Replacing one task by a well-typed one keeps the tasks well typed.
LEMMA UpdateType ==
  ASSUME TypeOK, NEW k \in Tasks, NEW r \in TaskRec, r.node <= Len(Blueprints[r.bp]),
         task' = [task EXCEPT ![k] = r]
  PROVE  /\ task' \in [Tasks -> TaskRec]
         /\ \A j \in Tasks : task'[j].node <= Len(Blueprints[task'[j].bp])
<1>1. task \in [Tasks -> TaskRec]
  BY DEF TypeOK, TaskRec
<1>2. \A j \in Tasks : task[j].node <= Len(Blueprints[task[j].bp])
  BY DEF TypeOK
<1>3. \A j \in Tasks : task'[j] = IF j = k THEN r ELSE task[j]
  BY <1>1
<1>4. task' \in [Tasks -> TaskRec]
  BY <1>1
<1> QED
  BY <1>2, <1>3, <1>4

\* In particular, one with another pc.
LEMMA GotoType ==
  ASSUME TypeOK, NEW k \in Tasks, NEW pc \in TaskPcs, Goto(k, pc)
  PROVE  /\ task' \in [Tasks -> TaskRec]
         /\ \A j \in Tasks : task'[j].node <= Len(Blueprints[task'[j].bp])
<1> DEFINE r == [task[k] EXCEPT !.pc = pc]
<1>1. r \in TaskRec /\ r.node = task[k].node /\ r.bp = task[k].bp
  BY DEF TypeOK, TaskRec
<1>2. task' = [task EXCEPT ![k] = r]
  BY DEF Goto
<1> HIDE DEF r
<1> QED
  BY <1>1, <1>2, UpdateType DEF TypeOK

\* The failure path keeps every variable well typed.
LEMMA RaiseType ==
  ASSUME TypeOK, NEW k \in Tasks, NEW stg \in Stages,
         NEW newRow \in [Threads -> RowStatuses], Raise(k, stg, newRow)
  PROVE  TypeOK'
<1>1. stage' \in Stages
  BY DEF Raise, Stages, TerminalStages
<1>2. {t \in Created : newRow[t] \in LiveRows} \subseteq Threads
  BY BoundsAssumption DEF TypeOK, Created
<1> DEFINE live == {t \in Created : newRow[t] \in LiveRows}
           r == [task[k] EXCEPT !.pc = IF live = {} THEN "done" ELSE "reap", !.todo = live]
<1>3. r \in TaskRec /\ r.node = task[k].node /\ r.bp = task[k].bp
  <2>1. task[k] \in TaskRec
    BY DEF TypeOK, TaskRec
  <2>2. (IF live = {} THEN "done" ELSE "reap") \in TaskPcs
    BY DEF TaskPcs
  <2> QED
    BY <1>2, <2>1, <2>2 DEF TaskRec
<1>4. task' = [task EXCEPT ![k] = r]
  BY DEF Raise
<1>5. /\ task' \in [Tasks -> TaskRec]
      /\ \A j \in Tasks : task'[j].node <= Len(Blueprints[task'[j].bp])
  <2> HIDE DEF r
  <2> QED BY <1>3, <1>4, UpdateType DEF TypeOK
<1> QED
  BY <1>1, <1>5 DEF TypeOK, Raise, TaskRec, envVars

\* So does entering a node.
LEMMA EnterType ==
  ASSUME TypeOK, NEW k \in Tasks, NEW n \in Nat \ {0}, EnterNode(k, n)
  PROVE  TypeOK'
<1>1. task[k].bp \in Modes
  BY DEF TypeOK
<1>2. PICK m \in Landing(k, n) :
        IF m > Len(NodesOf(k))
        THEN /\ task' = [task EXCEPT ![k].pc = "done"]
             /\ UNCHANGED <<stage, laneVars, made, handle, req, envVars>>
        ELSE LET node == NodesOf(k)[m] IN
             \/ /\ stage' = EnteredStage(node)
                /\ task' = [task EXCEPT ![k].pc = BodyPc(k, node.body), ![k].node = m]
                /\ UNCHANGED <<laneVars, made, handle, req, envVars>>
             \/ /\ node.body = "sync"
                /\ Raise(k, EnteredStage(node), row)
  BY DEF EnterNode
<1>3. m \in Nat \ {0}
  BY <1>2 DEF Landing
<1>4. Len(NodesOf(k)) \in Nat
  BY <1>1, NodesExist DEF NodesOf
<1>5. CASE m > Len(NodesOf(k))
  <2>1. Goto(k, "done") /\ UNCHANGED <<stage, laneVars, made, handle, req, envVars>>
    BY <1>2, <1>5 DEF Goto
  <2>2. /\ task' \in [Tasks -> TaskRec]
        /\ \A j \in Tasks : task'[j].node <= Len(Blueprints[task'[j].bp])
    BY <2>1, GotoType DEF TaskPcs
  <2> QED
    BY <2>1, <2>2 DEF TypeOK, TaskRec, laneVars, envVars
<1>6. CASE m <= Len(NodesOf(k))
  <2> DEFINE node == NodesOf(k)[m]
  <2>1. m \in 1..Len(NodesOf(k))
    BY <1>3, <1>4, <1>6
  <2>2. node \in NodeRec
    BY <2>1, <1>1, NodeType DEF NodesOf
  <2>3. EnteredStage(node) \in Stages
    BY <2>2 DEF EnteredStage, NodeRec, TypeOK
  <2>4. BodyPc(k, node.body) \in TaskPcs
    BY <2>2 DEF BodyPc, NodeRec, Bodies, TaskPcs
  <2>5. \/ /\ stage' = EnteredStage(node)
           /\ task' = [task EXCEPT ![k].pc = BodyPc(k, node.body), ![k].node = m]
           /\ UNCHANGED <<laneVars, made, handle, req, envVars>>
        \/ Raise(k, EnteredStage(node), row)
    BY <1>2, <1>3, <1>4, <1>6
  <2>6. m <= Len(Blueprints[task[k].bp])
    BY <1>6 DEF NodesOf
  <2> HIDE DEF node
  <2>7. CASE /\ stage' = EnteredStage(node)
             /\ task' = [task EXCEPT ![k].pc = BodyPc(k, node.body), ![k].node = m]
             /\ UNCHANGED <<laneVars, made, handle, req, envVars>>
    <3> DEFINE r == [task[k] EXCEPT !.pc = BodyPc(k, node.body), !.node = m]
    <3>1. r \in TaskRec /\ r.node = m /\ r.bp = task[k].bp
      BY <2>4, <1>3 DEF TypeOK, TaskRec
    <3>2. task' = [task EXCEPT ![k] = r]
      BY <2>7
    <3>3. /\ task' \in [Tasks -> TaskRec]
          /\ \A j \in Tasks : task'[j].node <= Len(Blueprints[task'[j].bp])
      <4> HIDE DEF r
      <4> QED BY <3>1, <3>2, <2>6, UpdateType
    <3> QED
      BY <2>7, <2>3, <3>3 DEF TypeOK, TaskRec, laneVars, envVars
  <2>8. CASE Raise(k, EnteredStage(node), row)
    BY <2>8, <2>3, RaiseType DEF TypeOK
  <2> QED
    BY <2>5, <2>7, <2>8
<1> QED
  BY <1>3, <1>4, <1>5, <1>6

-----------------------------------------------------------------------------
(* Type correctness.                                                       *)

\* The steps of a blueprint task.
LEMMA TaskStepType ==
  ASSUME TypeOK, LanesGiven, NEW k \in Tasks, TaskStep(k)
  PROVE  TypeOK'
<1>1. task[k] \in TaskRec /\ task[k].node + 1 \in Nat \ {0} /\ stage \in Stages
  BY DEF TypeOK, TaskRec
<1>2. \A ts : Marked(ts, "failed") \in [Threads -> RowStatuses]
  BY MarkedType DEF RowStatuses, ClosedRows
<1>3. row \in [Threads -> RowStatuses] /\ "provisioning" \in Stages
  BY DEF TypeOK, Stages, WorkingStages
<1>4. CASE StartBlueprint(k)
  BY <1>3, <1>4, EnterType, RaiseType DEF StartBlueprint
<1>5. CASE BodyReturns(k)
  BY <1>1, <1>5, EnterType DEF BodyReturns
<1>6. CASE BodyRaises(k)
  BY <1>1, <1>3, <1>6, RaiseType DEF BodyRaises
<1>7. CASE SpawnRow(k)
  <2> DEFINE r == [task[k] EXCEPT !.pc = "mint", !.lane = count + 1]
  <2>1. count + 1 \in Threads /\ count + 1 \in 0..MaxThreads /\ 0 \in 0..MaxThreads
    <3>1. count \in 0..MaxThreads /\ count < MaxThreads
      BY <1>7 DEF SpawnRow, TypeOK
    <3> QED
      BY <3>1, BoundsAssumption
  <2>2. r \in TaskRec /\ r.node = task[k].node /\ r.bp = task[k].bp
    BY <1>1, <2>1 DEF TaskRec, TaskPcs
  <2>3. task' = [task EXCEPT ![k] = r]
    BY <1>7 DEF SpawnRow
  <2>4. /\ task' \in [Tasks -> TaskRec]
        /\ \A j \in Tasks : task'[j].node <= Len(Blueprints[task'[j].bp])
    <3> HIDE DEF r
    <3> QED BY <2>2, <2>3, UpdateType DEF TypeOK
  <2>5. row' \in [Threads -> RowStatuses] /\ count' \in 0..MaxThreads
    BY <1>7, <2>1 DEF SpawnRow, TypeOK, RowStatuses, LiveRows
  <2>6. prior' \in [Threads -> 0..MaxThreads]
    BY <1>1, <1>7, <2>1 DEF SpawnRow, TypeOK, TaskRec
  <2> QED
    BY <1>7, <2>4, <2>5, <2>6 DEF SpawnRow, TypeOK, TaskRec, envVars
<1>8. CASE SpawnRefused(k)
  BY <1>1, <1>3, <1>8, RaiseType DEF SpawnRefused
<1>9. CASE MintKey(k)
  <2>1. Goto(k, "start")
    BY <1>9 DEF MintKey
  <2>2. box' \in [Threads -> BoxStates]
    BY <1>9 DEF MintKey, TypeOK, BoxStates
  <2> QED
    BY <1>9, <2>1, <2>2, GotoType DEF MintKey, TypeOK, TaskRec, TaskPcs, envVars
<1>10. CASE MintFails(k)
  BY <1>1, <1>2, <1>10, RaiseType DEF MintFails
<1>11. CASE SpawnStamp(k)
  <2>1. Goto(k, "await")
    BY <1>11 DEF SpawnStamp
  <2>2. row' \in [Threads -> RowStatuses]
    BY <1>11 DEF SpawnStamp, TypeOK, RowStatuses, LiveRows
  <2>3. task[k].lane \in Threads
    BY <1>11, BoundsAssumption DEF SpawnStamp, LanesGiven, Created, TypeOK
  <2> QED
    BY <1>11, <2>1, <2>2, <2>3, GotoType DEF SpawnStamp, TypeOK, TaskRec, TaskPcs, envVars
<1>12. CASE StartFails(k)
  <2>1. Goto(k, "unwind")
    BY <1>12 DEF StartFails
  <2>2. row' \in [Threads -> RowStatuses]
    BY <1>12 DEF StartFails, TypeOK, RowStatuses, ClosedRows
  <2> QED
    BY <1>12, <2>1, <2>2, GotoType DEF StartFails, TypeOK, TaskRec, TaskPcs, envVars
<1>13. CASE Unwind(k)
  BY <1>1, <1>3, <1>13, RaiseType DEF Unwind
<1>14. CASE AwaitReturns(k)
  BY <1>1, <1>14, EnterType DEF AwaitReturns
<1>15. CASE ReapLane(k)
  <2>1. PICK t \in task[k].todo :
          /\ \E b \in KillOutcomes(t, known) : box' = [box EXCEPT ![t] = b]
          /\ row' = [row EXCEPT ![t] = "failed"]
          /\ task' = [task EXCEPT ![k].todo = @ \ {t},
                                  ![k].pc = IF task[k].todo = {t} THEN "done" ELSE "reap"]
    BY <1>15 DEF ReapLane
  <2>2. t \in Threads
    BY <1>1 DEF TaskRec
  <2>3. box' \in [Threads -> BoxStates] /\ row' \in [Threads -> RowStatuses]
    BY <2>1, <2>2, KillType, SMTT(60) DEF TypeOK, RowStatuses, ClosedRows
  <2> DEFINE r == [task[k] EXCEPT !.todo = @ \ {t},
                                  !.pc = IF task[k].todo = {t} THEN "done" ELSE "reap"]
  <2>4. r \in TaskRec /\ r.node = task[k].node /\ r.bp = task[k].bp
    BY <1>1 DEF TaskRec, TaskPcs
  <2>5. task' = [task EXCEPT ![k] = r]
    BY <2>1
  <2>6. /\ task' \in [Tasks -> TaskRec]
        /\ \A j \in Tasks : task'[j].node <= Len(Blueprints[task'[j].bp])
    <3> HIDE DEF r
    <3> QED BY <2>4, <2>5, UpdateType DEF TypeOK
  <2> QED
    BY <1>15, <2>3, <2>6 DEF ReapLane, TypeOK, TaskRec, envVars
<1> QED
  BY <1>4, <1>5, <1>6, <1>7, <1>8, <1>9, <1>10, <1>11, <1>12, <1>13, <1>14, <1>15
  DEF TaskStep

\* A request record built from subsets of the lanes is well typed.
LEMMA ReqType ==
  ASSUME TypeOK, NEW s \in Slots,
         NEW r \in [pc : ReqPcs, todo : SUBSET Threads, held : SUBSET Threads]
  PROVE  [req EXCEPT ![s] = r] \in
           [Slots -> [pc : ReqPcs, todo : SUBSET Threads, held : SUBSET Threads]]
  BY DEF TypeOK

\* The owner's requests.
LEMMA RequestType ==
  ASSUME TypeOK, NEW s \in Slots, Request(s)
  PROVE  TypeOK'
<1> DEFINE Req == [pc : ReqPcs, todo : SUBSET Threads, held : SUBSET Threads]
<1>1. Created \subseteq Threads /\ Live \subseteq Threads /\ known \subseteq Threads
  BY BoundsAssumption DEF TypeOK, Created, Live
<1>2. \A ts \in SUBSET Threads, us \in SUBSET Threads, pc \in ReqPcs :
        [pc |-> pc, todo |-> ts, held |-> us] \in Req
  OBVIOUS
<1>3. NewRequest(s) => ops' \in 0..MaxOps
  BY BoundsAssumption DEF NewRequest, TypeOK
<1>4. \A status \in {"stopped", "failed"} :
        \A ts : Marked(ts, status) \in [Threads -> RowStatuses]
  BY MarkedType DEF RowStatuses, ClosedRows
<1>5. /\ Cancelled(handle) \in [Tasks -> TaskRec]
      /\ \A k \in Tasks : Cancelled(handle)[k].node <= Len(Blueprints[Cancelled(handle)[k].bp])
  BY CancelledType DEF TypeOK
<1>6. \A from \in 0..MaxThreads : Launch(from) =>
        /\ made' \in Tasks /\ handle' \in 0..(MaxOps + 1)
        /\ task' \in [Tasks -> TaskRec]
        /\ \A k \in Tasks : task'[k].node <= Len(Blueprints[task'[k].bp])
  <2> SUFFICES ASSUME NEW from \in 0..MaxThreads, Launch(from)
               PROVE  /\ made' \in Tasks /\ handle' \in 0..(MaxOps + 1)
                      /\ task' \in [Tasks -> TaskRec]
                      /\ \A k \in Tasks : task'[k].node <= Len(Blueprints[task'[k].bp])
    OBVIOUS
  <2> QED
    BY LaunchType, BoundsAssumption
<1>7. CASE Stop(s)
  <2>1. NewRequest(s) /\ UNCHANGED <<mode, laneVars, made, handle, up, crashes>>
    BY <1>7 DEF Stop
  <2>2. CASE Live = {}
    BY <1>3, <1>5, <1>7, <2>1, <2>2
    DEF Stop, TypeOK, TaskRec, laneVars, Stages, ParkedStages
  <2>3. CASE Live # {}
    <3> DEFINE r == [NoReq EXCEPT !.pc = "stop_kill", !.todo = Live]
    <3>1. r \in Req
      BY <1>1 DEF NoReq, ReqPcs
    <3>2. req' = [req EXCEPT ![s] = r] /\ UNCHANGED <<stage, task>>
      BY <1>7, <2>3 DEF Stop
    <3>3. req' \in [Slots -> Req]
      <4> HIDE DEF r
      <4> QED BY <3>1, <3>2, ReqType
    <3> QED
      BY <1>3, <2>1, <3>2, <3>3 DEF TypeOK, laneVars
  <2> QED
    BY <2>2, <2>3
<1>8. CASE Abandon(s)
  <2>1. /\ NewRequest(s) /\ UNCHANGED <<mode, laneVars, made, handle, up, crashes>>
        /\ stage' \in Stages
    BY <1>8 DEF Abandon, Stages, TerminalStages
  <2>2. CASE count = 0
    BY <1>3, <1>5, <1>8, <2>1, <2>2 DEF Abandon, TypeOK, TaskRec, laneVars
  <2>3. CASE count # 0
    <3>1. [pc |-> "drop_kill", todo |-> Created, held |-> known] \in Req
      BY <1>1, <1>2 DEF ReqPcs
    <3>2. req' \in [Slots -> Req] /\ UNCHANGED task
      BY <1>8, <2>3, <3>1, ReqType DEF Abandon
    <3> QED
      BY <1>3, <2>1, <3>2 DEF TypeOK, laneVars
  <2> QED
    BY <2>2, <2>3
<1>9. CASE Resume(s)
  <2>1. /\ NewRequest(s)
        /\ UNCHANGED <<mode, prior, known, box, count, up, crashes>>
        /\ stage' \in Stages /\ count \in 0..MaxThreads
    BY <1>9 DEF Resume, Stages, WorkingStages, TypeOK
  <2>2. CASE count \in Live
    <3> DEFINE r == [pc |-> "resume_kill", todo |-> {count}, held |-> known \cap {count}]
    <3>1. r \in Req
      BY <1>1, <1>2, <2>2 DEF ReqPcs
    <3>2. req' \in [Slots -> Req]
      <4>1. req' = [req EXCEPT ![s] = r]
        BY <1>9, <2>2 DEF Resume
      <4> HIDE DEF r
      <4> QED BY <3>1, <4>1, ReqType
    <3>3. row' \in [Threads -> RowStatuses] /\ UNCHANGED taskVars
      BY <1>4, <1>9, <2>2 DEF Resume
    <3> QED
      BY <1>3, <2>1, <3>2, <3>3 DEF TypeOK, taskVars
  <2>3. CASE count \notin Live
    <3>1. Launch(count) /\ UNCHANGED <<row, req>>
      BY <1>9, <2>3 DEF Resume
    <3> QED
      BY <1>3, <1>6, <2>1, <3>1 DEF TypeOK, TaskRec
  <2> QED
    BY <2>2, <2>3
<1>10. CASE Message(s)
  <2>1. PICK t \in Created : Launch(t)
    BY <1>10 DEF Message
  <2>2. t \in 0..MaxThreads
    BY <1>1, <2>1, BoundsAssumption
  <2> QED
    BY <1>3, <1>6, <1>10, <2>1, <2>2 DEF Message, TypeOK, TaskRec, laneVars
<1>11. CASE SwitchMode(s)
  BY <1>3, <1>11 DEF SwitchMode, TypeOK, laneVars, taskVars
<1> QED
  BY <1>7, <1>8, <1>9, <1>10, <1>11 DEF Request

\* Their later steps.
LEMMA RequestStepType ==
  ASSUME TypeOK, NEW s \in Slots, RequestStep(s)
  PROVE  TypeOK'
<1> DEFINE Req == [pc : ReqPcs, todo : SUBSET Threads, held : SUBSET Threads]
<1>1. /\ req[s] \in Req /\ NoReq \in Req
      /\ req \in [Slots -> Req]
  BY DEF TypeOK, NoReq, ReqPcs
<1>2. \A ts : Marked(ts, "stopped") \in [Threads -> RowStatuses]
  BY MarkedType DEF RowStatuses, ClosedRows
<1>3. /\ Cancelled(handle) \in [Tasks -> TaskRec]
      /\ \A k \in Tasks : Cancelled(handle)[k].node <= Len(Blueprints[Cancelled(handle)[k].bp])
  BY CancelledType DEF TypeOK
<1>4. "interrupted" \in Stages
  BY DEF Stages, ParkedStages
<1>5. CASE StopKill(s)
  <2>1. PICK t \in req[s].todo :
          /\ \E b \in KillOutcomes(t, known) : box' = [box EXCEPT ![t] = b]
          /\ req' = [req EXCEPT ![s].todo = @ \ {t}]
    BY <1>5 DEF StopKill
  <2>2. box' \in [Threads -> BoxStates]
    BY <1>1, <2>1, KillType DEF TypeOK
  <2>3. req' \in [Slots -> Req]
    BY <1>1, <2>1
  <2> QED
    BY <1>5, <2>2, <2>3 DEF StopKill, TypeOK, taskVars, envVars
<1>6. CASE StopStamp(s)
  <2>1. req' \in [Slots -> Req]
    BY <1>1, <1>6 DEF StopStamp, ReqPcs
  <2>2. row' \in [Threads -> RowStatuses] /\ stage' \in Stages
    BY <1>2, <1>4, <1>6 DEF StopStamp, TypeOK
  <2> QED
    BY <1>6, <2>1, <2>2 DEF StopStamp, TypeOK, taskVars, envVars
<1>7. CASE StopFinish(s)
  BY <1>1, <1>3, <1>7 DEF StopFinish, TypeOK, TaskRec, laneVars, envVars
<1>8. CASE AbandonKill(s)
  <2>1. PICK t \in req[s].todo :
          /\ \E b \in KillOutcomes(t, req[s].held) : box' = [box EXCEPT ![t] = b]
          /\ req' = [req EXCEPT ![s].todo = @ \ {t}]
    BY <1>8 DEF AbandonKill
  <2>2. box' \in [Threads -> BoxStates]
    BY <1>1, <2>1, KillType DEF TypeOK
  <2>3. req' \in [Slots -> Req]
    BY <1>1, <2>1
  <2> QED
    BY <1>8, <2>2, <2>3 DEF AbandonKill, TypeOK, taskVars, envVars
<1>9. CASE AbandonStamp(s)
  <2>1. req' \in [Slots -> Req]
    BY <1>1, <1>9 DEF AbandonStamp, ReqPcs
  <2> QED
    BY <1>2, <1>9, <2>1 DEF AbandonStamp, TypeOK, taskVars, envVars
<1>10. CASE AbandonFinish(s)
  <2>1. UNCHANGED <<stage, laneVars, made, handle, envVars>>
    BY <1>10 DEF AbandonFinish
  <2>2. req' \in [Slots -> Req]
    BY <1>1, <1>10 DEF AbandonFinish
  <2>3. task' = Cancelled(handle)
    BY <1>10 DEF AbandonFinish
  <2> QED
    BY <1>1, <1>3, <2>1, <2>2, <2>3 DEF TypeOK, TaskRec, laneVars, envVars
<1>11. CASE ResumeKill(s)
  <2>1. PICK t \in req[s].todo, b \in BoxStates :
          /\ b \in KillOutcomes(t, req[s].held)
          /\ box' = [box EXCEPT ![t] = b]
          /\ req' = [req EXCEPT ![s] = IF b = "up" /\ t \in req[s].held THEN NoReq
                                       ELSE [@ EXCEPT !.pc = "resume_cleanup"]]
    BY <1>11 DEF ResumeKill
  <2>2. box' \in [Threads -> BoxStates] /\ req' \in [Slots -> Req]
    BY <1>1, <2>1 DEF TypeOK, ReqPcs
  <2> QED
    BY <1>11, <2>2 DEF ResumeKill, TypeOK, taskVars, envVars
<1>12. CASE ResumeLaunch(s)
  <2>1. PICK t \in req[s].todo : Launch(t)
    BY <1>12 DEF ResumeLaunch
  <2>2. t \in 0..MaxThreads
    BY <1>1, <2>1, BoundsAssumption
  <2>3. /\ made' \in Tasks /\ handle' \in 0..(MaxOps + 1)
        /\ task' \in [Tasks -> TaskRec]
        /\ \A k \in Tasks : task'[k].node <= Len(Blueprints[task'[k].bp])
    BY <2>1, <2>2, LaunchType, BoundsAssumption
  <2> QED
    BY <1>1, <1>12, <2>3 DEF ResumeLaunch, TypeOK, TaskRec, laneVars, envVars
<1> QED
  BY <1>5, <1>6, <1>7, <1>8, <1>9, <1>10, <1>11, <1>12 DEF RequestStep

\* Containers, workers, the reaper, crashes and boots.
LEMMA WorkerStepType ==
  ASSUME TypeOK, NEW t \in Threads,
         \/ BoxStarts(t) \/ WorkerRuns(t) \/ WorkerParks(t) \/ TurnEnds(t)
         \/ \E status \in {"completed", "failed", "stopped"} : WorkerEnds(t, status)
         \/ WorkerVanishes(t) \/ Reap(t)
         \/ \E s \in Slots : Nudge(s, t)
  PROVE  TypeOK'
<1>1. CASE BoxStarts(t)
  BY <1>1 DEF BoxStarts, TypeOK, BoxStates, taskVars, envVars
<1>2. CASE \E from, to : Beat(t, from, to) /\ to \in LiveRows
  BY <1>2 DEF Beat, TypeOK, RowStatuses, taskVars, envVars
<1>3. ASSUME NEW status \in {"completed", "failed", "stopped"}, WorkerEnds(t, status)
      PROVE  TypeOK'
  <2>1. row' \in [Threads -> RowStatuses] /\ box' \in [Threads -> BoxStates]
    BY <1>3 DEF WorkerEnds, TypeOK, RowStatuses, ClosedRows, BoxStates
  <2>2. stage' \in Stages
    BY <1>3 DEF WorkerEnds, TypeOK, Stages, TerminalStages
  <2> QED
    BY <1>3, <2>1, <2>2 DEF WorkerEnds, TypeOK, taskVars, envVars
<1>4. CASE WorkerVanishes(t)
  BY <1>4 DEF WorkerVanishes, TypeOK, BoxStates, taskVars, envVars
<1>5. CASE Reap(t)
  <2>1. row' \in [Threads -> RowStatuses] /\ stage' \in Stages
    BY <1>5 DEF Reap, TypeOK, RowStatuses, ClosedRows, Stages, ParkedStages
  <2> QED
    BY <1>5, <2>1 DEF Reap, TypeOK, taskVars, envVars
<1>6. ASSUME NEW s \in Slots, Nudge(s, t)
      PROVE  TypeOK'
  <2>1. ops' \in 0..MaxOps
    BY <1>6, BoundsAssumption DEF Nudge, NewRequest, TypeOK
  <2> QED
    BY <1>6, <2>1 DEF Nudge, TypeOK, RowStatuses, LiveRows, taskVars
<1> QED
  BY <1>1, <1>2, <1>3, <1>4, <1>5, <1>6 DEF WorkerRuns, WorkerParks, TurnEnds, LiveRows

\* A crash of the backend and its next boot.
LEMMA CrashBootType ==
  ASSUME TypeOK, Crash \/ Boot
  PROVE  TypeOK'
<1>1. CASE Crash
  <2>1. crashes' \in 0..MaxCrashes /\ handle' \in 0..(MaxOps + 1)
    BY <1>1, BoundsAssumption DEF Crash, TypeOK
  <2>2. req' \in [Slots -> [pc : ReqPcs, todo : SUBSET Threads, held : SUBSET Threads]]
    BY <1>1 DEF Crash, NoReq, ReqPcs
  <2>3. \A k \in Tasks : /\ task'[k] \in TaskRec
                         /\ task'[k].node = task[k].node /\ task'[k].bp = task[k].bp
    <3>1. \A k \in Tasks : task[k] \in TaskRec
      BY DEF TypeOK, TaskRec
    <3>2. \A k \in Tasks : task'[k] \in {task[k], [task[k] EXCEPT !.pc = "cancelled"]}
      BY <1>1 DEF Crash
    <3>3. \A k \in Tasks : /\ [task[k] EXCEPT !.pc = "cancelled"] \in TaskRec
                           /\ [task[k] EXCEPT !.pc = "cancelled"].node = task[k].node
                           /\ [task[k] EXCEPT !.pc = "cancelled"].bp = task[k].bp
      BY <3>1 DEF TaskRec, TaskPcs
    <3> QED
      BY <3>1, <3>2, <3>3
  <2>4. task' \in [Tasks -> TaskRec]
    <3>1. task' = [k \in Tasks |-> task'[k]]
      BY <1>1 DEF Crash
    <3> QED BY <2>3, <3>1
  <2> QED
    BY <1>1, <2>1, <2>2, <2>3, <2>4 DEF Crash, TypeOK, TaskRec, laneVars
<1>2. CASE Boot
  <2>1. Marked(Live, "stopped") \in [Threads -> RowStatuses]
    BY MarkedType DEF RowStatuses, ClosedRows
  <2>2. row' \in [Threads -> RowStatuses] /\ stage' \in Stages
    BY <1>2, <2>1 DEF Boot, TypeOK, Stages, ParkedStages
  <2> QED
    BY <1>2, <2>2 DEF Boot, TypeOK, taskVars
<1> QED
  BY <1>1, <1>2

\* Every step of the system is one of these.
LEMMA NextType ==
  ASSUME TypeOK, LanesGiven, Next
  PROVE  TypeOK'
  BY TaskStepType, RequestType, RequestStepType, WorkerStepType, CrashBootType DEF Next

-----------------------------------------------------------------------------
(* The other parts of the invariant.                                       *)

\* What almost every step has in common: it creates no lane and no task, forgets
\* no container id, brings no container up that was not on its way, and takes a
\* task out of a start only when the lane has its id or has no container.
FrameRows == \A t \in Threads : t > count => row'[t] = "absent"
FrameBoxes ==
  /\ known \subseteq known'
  /\ \A t \in Threads : box'[t] \in {"starting", "up"} => box[t] \in {"starting", "up"}
FrameTask(k) ==
  /\ task'[k].lane = task[k].lane
  /\ task'[k].todo \subseteq Created
  /\ task[k].pc = "free" => task'[k].pc = "free"
  /\ \/ task'[k].pc \in {task[k].pc, "cancelled"}
     \/ /\ task'[k].pc \notin {"mint", "start"} /\ task[k].pc # "cancelled"
        /\ task[k].pc = "start" => \/ task[k].lane \in known'
                                   \/ box'[task[k].lane] \notin {"starting", "up"}
FrameStep ==
  /\ count' = count /\ made' = made
  /\ FrameRows /\ FrameBoxes /\ \A k \in Tasks : FrameTask(k)

\* Such a step keeps the invariant.
LEMMA Frame ==
  ASSUME Inv, TypeOK', FrameStep
  PROVE  Inv'
<1>1. Created' = Created /\ made' = made
  BY DEF FrameStep, Created
<1>2. \A k \in Tasks : FrameTask(k)
  BY DEF FrameStep
<1>3. LanesGiven'
  <2> SUFFICES ASSUME NEW k \in Tasks
               PROVE  /\ task'[k].pc \in {"mint", "start"} => task'[k].lane \in Created
                      /\ task'[k].todo \subseteq Created
    BY <1>1 DEF LanesGiven
  <2> QED
    BY <1>2 DEF FrameTask, Inv, LanesGiven
<1>4. TasksInOrder'
  BY <1>1, <1>2 DEF Inv, TasksInOrder, FrameTask
<1>5. RowsInOrder'
  BY DEF FrameStep, FrameRows, RowsInOrder
<1>6. BoxesSpawned'
  <2> SUFFICES ASSUME NEW t \in Threads, box'[t] \in {"starting", "up"}, t \notin known'
               PROVE  \E k \in Tasks : task'[k].lane = t /\ task'[k].pc \in {"start", "cancelled"}
    BY DEF BoxesSpawned
  <2>1. box[t] \in {"starting", "up"} /\ t \notin known
    BY DEF FrameStep, FrameBoxes
  <2>2. PICK k \in Tasks : task[k].lane = t /\ task[k].pc \in {"start", "cancelled"}
    BY <2>1 DEF Inv, BoxesSpawned
  <2>3. task'[k].lane = t /\ task'[k].pc \in {"start", "cancelled"}
    BY <1>2, <2>2 DEF FrameTask
  <2> QED
    BY <2>3
<1> QED
  BY <1>3, <1>4, <1>5, <1>6 DEF Inv

\* A step that changes the pc of one task, and perhaps its node and its todo.
LEMMA FrameGoto ==
  ASSUME Inv, TypeOK', NEW k \in Tasks, FrameRows, FrameBoxes, count' = count, made' = made,
         task' \in [Tasks -> TaskRec],
         \A j \in Tasks : j # k => task'[j] = task[j],
         task'[k].lane = task[k].lane, task'[k].todo \subseteq Created,
         task'[k].pc \notin {"mint", "start"},
         task[k].pc \notin {"free", "cancelled"},
         task[k].pc = "start" => \/ task[k].lane \in known'
                                 \/ box'[task[k].lane] \notin {"starting", "up"}
  PROVE  Inv'
<1>1. \A j \in Tasks : FrameTask(j)
  BY DEF FrameTask, Inv, LanesGiven
<1> QED
  BY <1>1, Frame DEF FrameStep

\* A step that does not touch the lanes or the tasks.
LEMMA FrameIdle ==
  ASSUME Inv, TypeOK', UNCHANGED <<row, known, box, count, task, made>>
  PROVE  Inv'
  BY DEF Inv, LanesGiven, TasksInOrder, RowsInOrder, BoxesSpawned, Created

\* A failure of a task that is not at its container's start.
LEMMA RaiseInv ==
  ASSUME Inv, TypeOK', NEW k \in Tasks, NEW stg, NEW newRow,
         task[k].pc \notin {"free", "start", "cancelled"},
         \A t \in Threads : t > count => newRow[t] = "absent",
         Raise(k, stg, newRow)
  PROVE  Inv'
<1> DEFINE live == {t \in Created : newRow[t] \in LiveRows}
<1>1. /\ row' = newRow /\ UNCHANGED <<known, box, count, made>>
      /\ task' = [task EXCEPT ![k].pc = IF live = {} THEN "done" ELSE "reap", ![k].todo = live]
  BY DEF Raise
<1>2. live \subseteq Created
  OBVIOUS
<1> HIDE DEF live
<1>3. /\ \A j \in Tasks : j # k => task'[j] = task[j]
      /\ task'[k].lane = task[k].lane /\ task'[k].todo = live /\ task'[k].pc \in {"done", "reap"}
  BY <1>1 DEF Inv, TypeOK
<1>4. FrameRows /\ FrameBoxes /\ task' \in [Tasks -> TaskRec]
  BY <1>1 DEF FrameRows, FrameBoxes, Inv, TypeOK, TaskRec
<1>5. count' = count /\ made' = made
  BY <1>1
<1> QED
  BY <1>2, <1>3, <1>4, <1>5, FrameGoto

\* Entering a node.
LEMMA EnterInv ==
  ASSUME Inv, TypeOK', NEW k \in Tasks, NEW n \in Nat \ {0}, EnterNode(k, n),
         task[k].pc \notin {"free", "start", "cancelled"}
  PROVE  Inv'
<1>1. ASSUME NEW stg, Raise(k, stg, row)
      PROVE  Inv'
  BY <1>1, RaiseInv DEF Inv, RowsInOrder
<1>2. ASSUME NEW r, task' = [task EXCEPT ![k] = r], UNCHANGED <<laneVars, made>>,
             r.pc \in {"lane", "work", "done"}, r.lane = task[k].lane, r.todo = task[k].todo
      PROVE  Inv'
  <2>1. /\ \A j \in Tasks : j # k => task'[j] = task[j]
        /\ task'[k] = r
    BY <1>2 DEF Inv, TypeOK
  <2>2. FrameRows /\ FrameBoxes /\ count' = count /\ made' = made
    BY <1>2 DEF laneVars, FrameRows, FrameBoxes, Inv, RowsInOrder
  <2>3. task' \in [Tasks -> TaskRec] /\ task[k].todo \subseteq Created
    BY DEF TypeOK, TaskRec, Inv, LanesGiven
  <2> QED
    BY <1>2, <2>1, <2>2, <2>3, FrameGoto
<1>3. PICK m \in Landing(k, n) :
        IF m > Len(NodesOf(k))
        THEN /\ task' = [task EXCEPT ![k].pc = "done"]
             /\ UNCHANGED <<stage, laneVars, made, handle, req, envVars>>
        ELSE LET node == NodesOf(k)[m] IN
             \/ /\ stage' = EnteredStage(node)
                /\ task' = [task EXCEPT ![k].pc = BodyPc(k, node.body), ![k].node = m]
                /\ UNCHANGED <<laneVars, made, handle, req, envVars>>
             \/ /\ node.body = "sync"
                /\ Raise(k, EnteredStage(node), row)
  BY DEF EnterNode
<1>4. task[k] \in TaskRec
  BY DEF Inv, TypeOK, TaskRec
<1>5. m \in Nat /\ Len(NodesOf(k)) \in Nat /\ task[k].bp \in Modes
  <2>1. m \in Nat
    BY <1>3 DEF Landing
  <2> QED
    BY <2>1, <1>4, NodesExist DEF NodesOf, TaskRec
<1>6. CASE m > Len(NodesOf(k))
  <2> DEFINE r == [task[k] EXCEPT !.pc = "done"]
  <2>1. r.pc = "done" /\ r.lane = task[k].lane /\ r.todo = task[k].todo
    BY <1>4 DEF TaskRec
  <2>2. task' = [task EXCEPT ![k] = r] /\ UNCHANGED <<laneVars, made>>
    BY <1>3, <1>6
  <2> HIDE DEF r
  <2> QED
    BY <1>2, <2>1, <2>2
<1>7. CASE ~(m > Len(NodesOf(k)))
  <2> DEFINE node == NodesOf(k)[m]
             r == [task[k] EXCEPT !.pc = BodyPc(k, node.body), !.node = m]
  <2>1. BodyPc(k, node.body) \in {"lane", "work", "done"}
    <3>1. m # 0
      BY <1>3 DEF Landing
    <3>2. node \in NodeRec
      BY <1>5, <1>7, <3>1, NodeType DEF NodesOf
    <3> QED
      BY <3>2 DEF NodeRec, Bodies, BodyPc
  <2>2. r.pc = BodyPc(k, node.body) /\ r.lane = task[k].lane /\ r.todo = task[k].todo
    BY <1>4 DEF TaskRec
  <2>3. \/ task' = [task EXCEPT ![k] = r] /\ UNCHANGED <<laneVars, made>>
        \/ Raise(k, EnteredStage(node), row)
    BY <1>3, <1>7
  <2> HIDE DEF r, node
  <2> QED
    BY <1>1, <1>2, <2>1, <2>2, <2>3
<1> QED
  BY <1>6, <1>7

\* Creating a lane.
LEMMA SpawnRowInv ==
  ASSUME Inv, TypeOK', NEW k \in Tasks, SpawnRow(k)
  PROVE  Inv'
<1> DEFINE r == [task[k] EXCEPT !.pc = "mint", !.lane = count + 1]
<1>1. count' = count + 1 /\ UNCHANGED <<known, box, made>>
  BY DEF SpawnRow
<1>2. task[k].pc = "lane" /\ task[k] \in TaskRec /\ count \in Nat
  BY DEF SpawnRow, Inv, TypeOK, TaskRec
<1>3. r.pc = "mint" /\ r.lane = count + 1 /\ r.todo = task[k].todo
  BY <1>2 DEF TaskRec
<1>4. task' = [task EXCEPT ![k] = r]
  BY DEF SpawnRow
<1> HIDE DEF r
<1>5. task'[k] = r /\ \A j \in Tasks : j # k => task'[j] = task[j]
  BY <1>4 DEF Inv, TypeOK
<1>6. LanesGiven'
  <2>1. Created \subseteq Created' /\ count + 1 \in Created'
    BY <1>1, <1>2 DEF Created
  <2> QED
    BY <1>3, <1>5, <2>1 DEF Inv, LanesGiven
<1>7. TasksInOrder'
  BY <1>1, <1>2, <1>5 DEF Inv, TasksInOrder
<1>8. RowsInOrder'
  <2> SUFFICES ASSUME NEW t \in Threads, t > count + 1
               PROVE  row'[t] = "absent"
    BY <1>1 DEF RowsInOrder
  <2>1. t > count /\ t # count + 1
    BY <1>2, BoundsAssumption
  <2>2. row'[t] = row[t]
    BY <2>1 DEF SpawnRow, Inv, TypeOK
  <2> QED
    BY <2>1, <2>2 DEF Inv, RowsInOrder
<1>9. BoxesSpawned'
  BY <1>1, <1>2, <1>5 DEF Inv, BoxesSpawned
<1> QED
  BY <1>6, <1>7, <1>8, <1>9 DEF Inv

\* Handing its container to Docker.
LEMMA MintKeyInv ==
  ASSUME Inv, TypeOK', NEW k \in Tasks, MintKey(k)
  PROVE  Inv'
<1> DEFINE l == task[k].lane
<1>1. /\ task[k].pc = "mint" /\ UNCHANGED <<known, row, count, made>>
      /\ box' = [box EXCEPT ![l] = "starting"] /\ Goto(k, "start")
  BY DEF MintKey
<1>2. /\ task'[k].pc = "start" /\ task'[k].lane = l /\ task'[k].todo = task[k].todo
      /\ \A j \in Tasks : j # k => task'[j] = task[j]
  BY <1>1 DEF Goto, Inv, TypeOK
<1>3. LanesGiven' /\ TasksInOrder' /\ RowsInOrder'
  BY <1>1, <1>2 DEF Inv, LanesGiven, TasksInOrder, RowsInOrder, Created
<1>4. BoxesSpawned'
  <2> SUFFICES ASSUME NEW t \in Threads, box'[t] \in {"starting", "up"}, t \notin known'
               PROVE  \E j \in Tasks : task'[j].lane = t /\ task'[j].pc \in {"start", "cancelled"}
    BY DEF BoxesSpawned
  <2>1. CASE t = l
    BY <1>2, <2>1
  <2>2. CASE t # l
    <3>1. box[t] \in {"starting", "up"} /\ t \notin known
      BY <1>1, <2>2 DEF Inv, TypeOK
    <3>2. PICK j \in Tasks : task[j].lane = t /\ task[j].pc \in {"start", "cancelled"}
      BY <3>1 DEF Inv, BoxesSpawned
    <3> QED
      BY <1>1, <1>2, <2>2, <3>2
  <2> QED
    BY <2>1, <2>2
<1> QED
  BY <1>3, <1>4 DEF Inv

\* The steps of a blueprint task.
LEMMA TaskStepInv ==
  ASSUME Inv, TypeOK', NEW k \in Tasks, TaskStep(k)
  PROVE  Inv'
<1>1. /\ task[k] \in TaskRec /\ task[k].node + 1 \in Nat \ {0}
      /\ task[k].todo \subseteq Created /\ task' \in [Tasks -> TaskRec]
      /\ \A t \in Threads : t > count => row[t] = "absent"
  <2>1. task[k] \in TaskRec /\ task' \in [Tasks -> TaskRec]
    BY DEF Inv, TypeOK, TaskRec
  <2>2. task[k].node + 1 \in Nat \ {0}
    BY <2>1 DEF TaskRec
  <2> QED
    BY <2>1, <2>2 DEF Inv, LanesGiven, RowsInOrder
<1>2. CASE StartBlueprint(k)
  BY <1>1, <1>2, EnterInv, RaiseInv DEF StartBlueprint
<1>3. CASE BodyReturns(k)
  BY <1>1, <1>3, EnterInv DEF BodyReturns
<1>4. CASE BodyRaises(k)
  BY <1>1, <1>4, RaiseInv DEF BodyRaises
<1>5. CASE SpawnRow(k)
  BY <1>5, SpawnRowInv
<1>6. CASE SpawnRefused(k)
  BY <1>1, <1>6, RaiseInv DEF SpawnRefused
<1>7. CASE MintKey(k)
  BY <1>7, MintKeyInv
<1>8. CASE MintFails(k)
  <2>1. task[k].pc = "mint" /\ Raise(k, stage, Marked({task[k].lane}, "failed"))
    BY <1>8 DEF MintFails
  <2>2. task[k].lane \in Created
    BY <2>1 DEF Inv, LanesGiven
  <2>3. \A t \in Threads : t > count => Marked({task[k].lane}, "failed")[t] = "absent"
    BY <1>1, <2>2 DEF Marked, Created, Inv, TypeOK
  <2> QED
    BY <2>1, <2>3, RaiseInv
<1>9. CASE SpawnStamp(k)
  <2> DEFINE t == task[k].lane
  <2>1. /\ task[k].pc = "start" /\ row' = [row EXCEPT ![t] = "running"]
        /\ known' = known \cup {t} /\ Goto(k, "await") /\ UNCHANGED <<box, count, made>>
    BY <1>9 DEF SpawnStamp
  <2>2. t \in Created
    BY <2>1 DEF Inv, LanesGiven
  <2>3. FrameRows /\ FrameBoxes
    BY <1>1, <2>1, <2>2, SMTT(60) DEF FrameRows, FrameBoxes, Created, Inv, TypeOK
  <2>4. /\ task'[k].pc = "await" /\ task'[k].lane = t /\ task'[k].todo = task[k].todo
        /\ \A j \in Tasks : j # k => task'[j] = task[j]
    BY <2>1 DEF Goto, Inv, TypeOK
  <2> QED
    BY <1>1, <2>1, <2>3, <2>4, FrameGoto
<1>10. CASE StartFails(k)
  <2> DEFINE t == task[k].lane
  <2>1. /\ task[k].pc = "start" /\ row' = [row EXCEPT ![t] = "failed"] /\ box[t] = "error"
        /\ Goto(k, "unwind") /\ UNCHANGED <<known, box, count, made>>
    BY <1>10 DEF StartFails
  <2>2. t \in Created
    BY <2>1 DEF Inv, LanesGiven
  <2>3. FrameRows /\ FrameBoxes
    BY <1>1, <2>1, <2>2 DEF FrameRows, FrameBoxes, Created, Inv, TypeOK
  <2>4. /\ task'[k].pc = "unwind" /\ task'[k].lane = t /\ task'[k].todo = task[k].todo
        /\ \A j \in Tasks : j # k => task'[j] = task[j]
    BY <2>1 DEF Goto, Inv, TypeOK
  <2> QED
    BY <1>1, <2>1, <2>3, <2>4, FrameGoto
<1>11. CASE Unwind(k)
  BY <1>1, <1>11, RaiseInv DEF Unwind
<1>12. CASE AwaitReturns(k)
  BY <1>1, <1>12, EnterInv DEF AwaitReturns
<1>13. CASE ReapLane(k)
  <2>1. PICK t \in task[k].todo :
          /\ \E b \in KillOutcomes(t, known) : box' = [box EXCEPT ![t] = b]
          /\ row' = [row EXCEPT ![t] = "failed"]
          /\ task' = [task EXCEPT ![k].todo = @ \ {t},
                                  ![k].pc = IF task[k].todo = {t} THEN "done" ELSE "reap"]
    BY <1>13 DEF ReapLane
  <2>2. task[k].pc = "reap" /\ UNCHANGED <<known, count, made>>
    BY <1>13 DEF ReapLane
  <2>3. t \in Created /\ t \in Threads
    BY <1>1, BoundsAssumption DEF Created, Inv, TypeOK
  <2>4. FrameRows
    <3>1. \A u \in Threads : u > count => u # t
      BY <2>3, BoundsAssumption DEF Created, Inv, TypeOK
    <3> QED BY <1>1, <2>1, <3>1 DEF FrameRows, Inv, TypeOK
  <2>5. FrameBoxes
    <3>1. PICK b \in KillOutcomes(t, known) : box' = [box EXCEPT ![t] = b]
      BY <2>1
    <3>2. b \in {"up", "starting"} => b = box[t]
      BY <2>3, <3>1, KillType DEF Inv
    <3> QED BY <2>2, <3>1, <3>2 DEF FrameBoxes, Inv, TypeOK
  <2>6. /\ task'[k].pc \in {"done", "reap"} /\ task'[k].lane = task[k].lane
        /\ task'[k].todo \subseteq task[k].todo
        /\ \A j \in Tasks : j # k => task'[j] = task[j]
    BY <2>1 DEF Inv, TypeOK
  <2> QED
    BY <1>1, <2>2, <2>4, <2>5, <2>6, FrameGoto
<1> QED
  BY <1>2, <1>3, <1>4, <1>5, <1>6, <1>7, <1>8, <1>9, <1>10, <1>11, <1>12, <1>13
  DEF TaskStep

\* A step that cancels or launches tasks, or neither, and closes live lanes.
LEMMA RowsClosed ==
  ASSUME Inv, NEW ts \in SUBSET Live, NEW status
  PROVE  \A t \in Threads : t > count => Marked(ts, status)[t] = "absent"
<1> SUFFICES ASSUME NEW t \in Threads, t > count
             PROVE  Marked(ts, status)[t] = "absent"
  OBVIOUS
<1>1. t \notin Created
  BY BoundsAssumption DEF Inv, TypeOK, Created
<1> QED
  BY <1>1 DEF Live, Marked, Inv, RowsInOrder

\* Cancelling a task.
LEMMA CancelInv ==
  ASSUME Inv, TypeOK', task' = Cancelled(handle), count' = count, made' = made,
         FrameRows, FrameBoxes
  PROVE  Inv'
<1>1. \A k \in Tasks : FrameTask(k)
  BY CancelledType DEF Inv, FrameTask, LanesGiven
<1> QED
  BY <1>1, Frame DEF FrameStep

\* Launching a task.
LEMMA LaunchInv ==
  ASSUME Inv, TypeOK', NEW from \in 0..MaxThreads, Launch(from), UNCHANGED <<known, box, count>>,
         FrameRows
  PROVE  Inv'
<1>1. /\ made + 1 \in Tasks /\ made' = made + 1 /\ made \in Nat
      /\ \A k \in Tasks : k # made + 1 => task'[k] = task[k]
      /\ task'[made + 1].pc = "enter"
  BY LaunchType DEF Inv, TypeOK
<1>2. task'[made + 1].todo = {}
  BY <1>1 DEF Launch, FreshTask, Inv, TypeOK
<1>3. task[made + 1].pc = "free"
  BY <1>1 DEF Inv, TasksInOrder
<1>4. LanesGiven'
  BY <1>1, <1>2 DEF LanesGiven, Inv, Created
<1>5. TasksInOrder'
  BY <1>1 DEF TasksInOrder, Inv
<1>6. RowsInOrder'
  BY DEF RowsInOrder, FrameRows
<1>7. BoxesSpawned'
  BY <1>1, <1>3 DEF BoxesSpawned, Inv
<1> QED
  BY <1>4, <1>5, <1>6, <1>7 DEF Inv

\* A step that leaves the tasks alone.
LEMMA LanesOnlyInv ==
  ASSUME Inv, TypeOK', UNCHANGED <<task, count, made>>, FrameRows, FrameBoxes
  PROVE  Inv'
<1>1. \A k \in Tasks : FrameTask(k)
  BY DEF FrameTask, Inv, LanesGiven
<1> QED
  BY <1>1, Frame DEF FrameStep

\* The requests of the owner.
LEMMA RequestInv ==
  ASSUME Inv, TypeOK', NEW s \in Slots, Request(s)
  PROVE  Inv'
<1>1. /\ UNCHANGED row => FrameRows
      /\ UNCHANGED <<known, box>> => FrameBoxes
      /\ Created \subseteq 0..MaxThreads /\ count \in 0..MaxThreads
  <2>1. Created \subseteq 0..MaxThreads /\ count \in 0..MaxThreads
    BY BoundsAssumption DEF Inv, Created, TypeOK
  <2> QED
    BY <2>1 DEF FrameRows, FrameBoxes, Inv, RowsInOrder
<1>2. CASE Stop(s)
  <2>1. /\ task' \in {Cancelled(handle), task} /\ UNCHANGED <<row, known, box, count, made>>
    BY <1>2 DEF Stop, laneVars
  <2> QED
    BY <1>1, <2>1, CancelInv, LanesOnlyInv
<1>3. CASE Abandon(s)
  <2>1. /\ task' \in {Cancelled(handle), task} /\ UNCHANGED <<row, known, box, count, made>>
    BY <1>3 DEF Abandon, laneVars
  <2> QED
    BY <1>1, <2>1, CancelInv, LanesOnlyInv
<1>4. CASE Resume(s)
  <2>1. UNCHANGED <<known, box, count>>
    BY <1>4 DEF Resume
  <2>2. CASE count \in Live
    <3>1. row' = Marked({count}, "stopped") /\ UNCHANGED <<task, made>>
      BY <1>4, <2>2 DEF Resume, taskVars
    <3>2. FrameRows
      BY <2>2, <3>1, RowsClosed DEF FrameRows
    <3> QED
      BY <1>1, <2>1, <3>1, <3>2, LanesOnlyInv
  <2>3. CASE count \notin Live
    BY <1>1, <1>4, <2>1, <2>3, LaunchInv DEF Resume
  <2> QED
    BY <2>2, <2>3
<1>5. CASE Message(s)
  <2>1. PICK t \in Created : Launch(t)
    BY <1>5 DEF Message
  <2> QED
    BY <1>1, <1>5, <2>1, LaunchInv DEF Message, laneVars
<1>6. CASE SwitchMode(s)
  BY <1>6, FrameIdle DEF SwitchMode, laneVars, taskVars
<1> QED
  BY <1>2, <1>3, <1>4, <1>5, <1>6 DEF Request

\* Their later steps.
LEMMA RequestStepInv ==
  ASSUME Inv, TypeOK', NEW s \in Slots, RequestStep(s)
  PROVE  Inv'
<1>1. /\ UNCHANGED row => FrameRows
      /\ UNCHANGED <<known, box>> => FrameBoxes
  BY DEF FrameRows, FrameBoxes, Inv, RowsInOrder
<1>2. ASSUME NEW ids, NEW t \in Threads, NEW b \in KillOutcomes(t, ids),
             UNCHANGED known, box' = [box EXCEPT ![t] = b]
      PROVE  FrameBoxes
  <2>1. b \in {"up", "starting"} => b = box[t]
    BY KillType DEF Inv
  <2> QED
    BY <1>2, <2>1 DEF FrameBoxes, Inv, TypeOK
<1>3. row' = Marked(Live, "stopped") => FrameRows
  BY RowsClosed DEF FrameRows
<1>4. req[s].todo \subseteq Threads
  BY DEF Inv, TypeOK
<1>5. CASE StopKill(s)
  <2>1. PICK t \in Threads : \E b \in KillOutcomes(t, known) : box' = [box EXCEPT ![t] = b]
    BY <1>4, <1>5 DEF StopKill
  <2>2. UNCHANGED <<row, known, task, count, made>>
    BY <1>5 DEF StopKill, taskVars
  <2>3. FrameBoxes
    BY <1>2, <2>1, <2>2
  <2> QED
    BY <1>1, <2>2, <2>3, LanesOnlyInv
<1>12. CASE AbandonKill(s)
  <2>1. PICK t \in Threads : \E b \in KillOutcomes(t, req[s].held) : box' = [box EXCEPT ![t] = b]
    BY <1>4, <1>12 DEF AbandonKill
  <2>2. UNCHANGED <<row, known, task, count, made>>
    BY <1>12 DEF AbandonKill, taskVars
  <2>3. FrameBoxes
    BY <1>2, <2>1, <2>2
  <2> QED
    BY <1>1, <2>2, <2>3, LanesOnlyInv
<1>6. CASE ResumeKill(s)
  <2>1. PICK t \in Threads : \E b \in KillOutcomes(t, req[s].held) : box' = [box EXCEPT ![t] = b]
    BY <1>4, <1>6 DEF ResumeKill
  <2>2. UNCHANGED <<row, known, task, count, made>>
    BY <1>6 DEF ResumeKill, taskVars
  <2>3. FrameBoxes
    BY <1>2, <2>1, <2>2
  <2> QED
    BY <1>1, <2>2, <2>3, LanesOnlyInv
<1>7. CASE StopStamp(s)
  <2>1. UNCHANGED row \/ row' = Marked(Live, "stopped")
    BY <1>7 DEF StopStamp
  <2>2. UNCHANGED <<known, box, task, count, made>>
    BY <1>7 DEF StopStamp, taskVars
  <2> QED
    BY <1>1, <1>3, <2>1, <2>2, LanesOnlyInv
<1>8. CASE AbandonStamp(s)
  BY <1>1, <1>3, <1>8, LanesOnlyInv DEF AbandonStamp, taskVars
<1>9. CASE StopFinish(s)
  BY <1>1, <1>9, CancelInv DEF StopFinish, laneVars
<1>10. CASE AbandonFinish(s)
  BY <1>1, <1>10, CancelInv DEF AbandonFinish, laneVars
<1>11. CASE ResumeLaunch(s)
  <2>1. PICK t \in req[s].todo : Launch(t)
    BY <1>11 DEF ResumeLaunch
  <2>2. t \in 0..MaxThreads
    BY <1>4, <2>1, BoundsAssumption
  <2> QED
    BY <1>1, <1>11, <2>1, <2>2, LaunchInv DEF ResumeLaunch, laneVars
<1> QED
  BY <1>5, <1>6, <1>7, <1>8, <1>9, <1>10, <1>11, <1>12 DEF RequestStep

\* Containers, workers, the reaper.
LEMMA WorkerStepInv ==
  ASSUME Inv, TypeOK', NEW t \in Threads,
         \/ BoxStarts(t) \/ WorkerRuns(t) \/ WorkerParks(t) \/ TurnEnds(t)
         \/ \E status \in {"completed", "failed", "stopped"} : WorkerEnds(t, status)
         \/ WorkerVanishes(t) \/ Reap(t)
         \/ \E s \in Slots : Nudge(s, t)
  PROVE  Inv'
<1>1. UNCHANGED <<task, count, made, known>>
  BY DEF BoxStarts, WorkerRuns, WorkerParks, TurnEnds, Beat, WorkerEnds, WorkerVanishes, Reap,
         Nudge, taskVars
<1>2. \A status : row[t] # "absent" /\ row' = [row EXCEPT ![t] = status] => FrameRows
  BY DEF FrameRows, Inv, RowsInOrder, TypeOK
<1>3. UNCHANGED row => FrameRows
  BY DEF FrameRows, Inv, RowsInOrder
<1>4. FrameRows
  BY <1>2, <1>3
  DEF BoxStarts, WorkerRuns, WorkerParks, TurnEnds, Beat, BeatHeard, WorkerEnds, WorkerVanishes,
      Reap, Nudge, LiveRows, ActiveRows
<1>5. FrameBoxes
  BY <1>1
  DEF BoxStarts, WorkerRuns, WorkerParks, TurnEnds, Beat, WorkerEnds, WorkerVanishes, Reap,
      Nudge, FrameBoxes, Inv, TypeOK
<1> QED
  BY <1>1, <1>4, <1>5, LanesOnlyInv

\* A crash of the backend and its next boot.
LEMMA CrashBootInv ==
  ASSUME Inv, TypeOK', Crash \/ Boot
  PROVE  Inv'
<1>1. CASE Crash
  <2>1. /\ UNCHANGED <<row, known, box, count, made>>
        /\ task' = [k \in Tasks |-> IF Active(k) THEN [task[k] EXCEPT !.pc = "cancelled"]
                                    ELSE task[k]]
    BY <1>1 DEF Crash, laneVars
  <2>2. \A k \in Tasks : /\ task'[k].lane = task[k].lane /\ task'[k].todo = task[k].todo
                         /\ task'[k].pc \in {task[k].pc, "cancelled"}
                         /\ task[k].pc = "free" => task'[k].pc = "free"
    BY <2>1 DEF Inv, TypeOK, Active
  <2>3. FrameRows /\ FrameBoxes
    BY <2>1 DEF FrameRows, FrameBoxes, Inv, RowsInOrder
  <2> QED
    BY <2>1, <2>2, <2>3, Frame DEF FrameStep, FrameTask, Inv, LanesGiven
<1>2. CASE Boot
  <2>1. UNCHANGED row \/ row' = Marked(Live, "stopped")
    BY <1>2 DEF Boot
  <2>2. FrameRows
    BY <2>1, RowsClosed DEF FrameRows, Inv, RowsInOrder
  <2>3. FrameBoxes /\ UNCHANGED <<task, count, made>>
    BY <1>2 DEF Boot, FrameBoxes, taskVars
  <2> QED
    BY <2>2, <2>3, LanesOnlyInv
<1> QED
  BY <1>1, <1>2

-----------------------------------------------------------------------------
(* The theorems.                                                           *)

\* The initial state satisfies the invariant.
LEMMA InitInv ==
  ASSUME Init
  PROVE  Inv
<1>1. TypeOK
  <2>1. \A pc \in TaskPcs : FreshTask(pc, 0) \in TaskRec
    BY BoundsAssumption DEF Init, FreshTask, TaskRec
  <2>2. task \in [Tasks -> TaskRec] /\ \A k \in Tasks : task[k].bp = mode /\ task[k].node = 1
    BY <2>1 DEF Init, FreshTask, TaskPcs
  <2>3. \A k \in Tasks : task[k].node <= Len(Blueprints[task[k].bp])
    BY <2>2, NodesExist DEF Init
  <2>4. NoReq \in [pc : ReqPcs, todo : SUBSET Threads, held : SUBSET Threads]
    BY DEF NoReq, ReqPcs
  <2>5. 0 \in 0..MaxThreads /\ 1 \in Tasks /\ 1 \in 0..(MaxOps + 1)
        /\ 0 \in 0..MaxOps /\ 0 \in 0..MaxCrashes
    BY BoundsAssumption
  <2> QED
    BY <2>2, <2>3, <2>4, <2>5
    DEF Init, TypeOK, TaskRec, Stages, WorkingStages, RowStatuses, BoxStates
<1>2. \A k \in Tasks : /\ task[k].todo = {}
                       /\ task[k].pc \in {"enter", "free"}
                       /\ k > 1 => task[k].pc = "free"
  BY DEF Init, FreshTask
<1>3. made = 1 /\ \A t \in Threads : row[t] = "absent" /\ box[t] = "none"
  BY DEF Init
<1>4. LanesGiven
  BY <1>2 DEF LanesGiven
<1>5. TasksInOrder /\ RowsInOrder /\ BoxesSpawned
  BY <1>2, <1>3 DEF TasksInOrder, RowsInOrder, BoxesSpawned
<1> QED
  BY <1>1, <1>4, <1>5 DEF Inv

\* Every step preserves it.
LEMMA NextInv ==
  ASSUME Inv, [Next]_vars
  PROVE  Inv'
<1>1. CASE UNCHANGED vars
  BY <1>1 DEF vars, Inv, TypeOK, LanesGiven, TasksInOrder, RowsInOrder, BoxesSpawned, Created
<1>2. CASE Next
  <2>1. TypeOK'
    BY <1>2, NextType DEF Inv
  <2> QED
    BY <1>2, <2>1, TaskStepInv, RequestInv, RequestStepInv, WorkerStepInv, CrashBootInv DEF Next
<1> QED
  BY <1>1, <1>2

\* The inductive invariant holds in every reachable state.
THEOREM Invariance == Spec => []Inv
<1>1. Init => Inv
  BY InitInv
<1>2. Inv /\ [Next]_vars => Inv'
  BY NextInv
<1> QED
  BY <1>1, <1>2, PTL DEF Spec

\* Every variable keeps its type: in particular a row or a stage never takes a
\* word of the other vocabulary.
THEOREM TypeCorrect == Spec => []TypeOK
<1>1. Inv => TypeOK
  BY DEF Inv
<1> QED
  BY <1>1, Invariance, PTL

\* A container that no row names belongs to a spawn in progress or cancelled.
THEOREM UnnamedBoxes == Spec => []UnnamedBoxHasCause
<1>1. Inv => UnnamedBoxHasCause
  BY DEF Inv, BoxesSpawned, UnnamedBoxHasCause
<1> QED
  BY <1>1, Invariance, PTL

-----------------------------------------------------------------------------
(* Which steps store a stage, and which rows they leave.                   *)

\* No step of a blueprint interrupts or completes the run: those two words
\* belong to its owner, the reaper and the boot sweep, and to the heartbeats.
LEMMA TaskStage ==
  ASSUME TypeOK, NEW k \in Tasks, TaskStep(k)
  PROVE  stage' = stage \/ stage' \notin {"interrupted", "completed"}
<1>1. ASSUME NEW stg, NEW newRow, Raise(k, stg, newRow),
             stg = stage \/ stg \notin {"interrupted", "completed"}
      PROVE  stage' = stage \/ stage' \notin {"interrupted", "completed"}
  BY <1>1 DEF Raise
<1>2. ASSUME NEW n \in Nat \ {0}, EnterNode(k, n)
      PROVE  stage' = stage \/ stage' \notin {"interrupted", "completed"}
  <2>1. PICK m \in Landing(k, n) :
          IF m > Len(NodesOf(k))
          THEN /\ task' = [task EXCEPT ![k].pc = "done"]
               /\ UNCHANGED <<stage, laneVars, made, handle, req, envVars>>
          ELSE LET node == NodesOf(k)[m] IN
               \/ /\ stage' = EnteredStage(node)
                  /\ task' = [task EXCEPT ![k].pc = BodyPc(k, node.body), ![k].node = m]
                  /\ UNCHANGED <<laneVars, made, handle, req, envVars>>
               \/ /\ node.body = "sync"
                  /\ Raise(k, EnteredStage(node), row)
    BY <1>2 DEF EnterNode
  <2>2. m \in Nat \ {0}
    BY <2>1 DEF Landing
  <2>3. task[k].bp \in Modes
    BY DEF TypeOK
  <2>4. Len(NodesOf(k)) \in Nat
    BY <2>3, NodesExist DEF NodesOf
  <2>5. CASE m > Len(NodesOf(k))
    BY <2>1, <2>5
  <2>6. CASE ~(m > Len(NodesOf(k)))
    <3> DEFINE node == NodesOf(k)[m]
    <3>1. node.stage \notin {"interrupted", "completed"}
      BY <2>2, <2>3, <2>4, <2>6, NodeType DEF NodesOf
    <3>2. EnteredStage(node) = stage \/ EnteredStage(node) \notin {"interrupted", "completed"}
      BY <3>1 DEF EnteredStage
    <3>3. stage' = EnteredStage(node) \/ Raise(k, EnteredStage(node), row)
      BY <2>1, <2>6
    <3> HIDE DEF node
    <3> QED
      BY <1>1, <3>2, <3>3
  <2> QED
    BY <2>5, <2>6
<1>3. task[k].node + 1 \in Nat \ {0}
  <2>1. task[k] \in TaskRec
    BY DEF TypeOK, TaskRec
  <2> QED
    BY <2>1 DEF TaskRec
<1>4. CASE \/ StartBlueprint(k) \/ BodyReturns(k) \/ BodyRaises(k) \/ SpawnRefused(k)
           \/ MintFails(k) \/ Unwind(k) \/ AwaitReturns(k)
  BY <1>1, <1>2, <1>3, <1>4
  DEF StartBlueprint, BodyReturns, BodyRaises, SpawnRefused, MintFails, Unwind, AwaitReturns
<1>5. CASE \/ SpawnRow(k) \/ MintKey(k) \/ SpawnStamp(k) \/ StartFails(k) \/ ReapLane(k)
  BY <1>5 DEF SpawnRow, MintKey, SpawnStamp, StartFails, ReapLane
<1> QED
  BY <1>4, <1>5 DEF TaskStep

\* Closing the last live lane leaves none.
LEMMA LastLaneCloses ==
  ASSUME TypeOK, NEW t \in Threads, NEW status \in ClosedRows, Live \subseteq {t},
         row' = [row EXCEPT ![t] = status], count' = count
  PROVE  Live' = {}
  BY BoundsAssumption DEF TypeOK, Live, Created, ClosedRows, LiveRows

\* Interrupting or completing a run leaves none of its lanes live.
LEMMA QuietStep ==
  ASSUME TypeOK, Next, stage' # stage, stage' \in {"interrupted", "completed"}
  PROVE  Live' = {}
<1>1. ASSUME NEW s \in Slots, Request(s)
      PROVE  Live' = {}
  BY <1>1
  DEF Request, Stop, Abandon, Resume, Message, SwitchMode, laneVars, Live, Created
<1>2. ASSUME NEW s \in Slots, RequestStep(s)
      PROVE  Live' = {}
  <2>1. StopStamp(s)
    BY <1>2
    DEF RequestStep, StopKill, StopFinish, AbandonKill, AbandonStamp, AbandonFinish, ResumeKill,
        ResumeLaunch
  <2> QED
    BY <2>1, MarkedLive DEF StopStamp, ClosedRows
<1>3. ASSUME NEW t \in Threads,
             \/ BoxStarts(t) \/ WorkerRuns(t) \/ WorkerParks(t) \/ TurnEnds(t)
             \/ \E status \in {"completed", "failed", "stopped"} : WorkerEnds(t, status)
             \/ WorkerVanishes(t) \/ Reap(t)
             \/ \E s \in Slots : Nudge(s, t)
      PROVE  Live' = {}
  <2>1. (\E status \in {"completed", "failed", "stopped"} : WorkerEnds(t, status)) \/ Reap(t)
    BY <1>3 DEF BoxStarts, WorkerRuns, WorkerParks, TurnEnds, Beat, WorkerVanishes, Nudge
  <2> QED
    BY <2>1, LastLaneCloses DEF WorkerEnds, Reap, ClosedRows
<1>4. CASE Crash \/ Boot
  BY <1>4, MarkedLive DEF Crash, Boot, ClosedRows
<1> QED
  BY <1>1, <1>2, <1>3, <1>4, TaskStage DEF Next

\* Whoever interrupts a run leaves no lane of it live.
THEOREM Interruption == Spec => InterruptedQuiet
<1>1. TypeOK /\ [Next]_vars =>
        [stage' = "interrupted" /\ stage # "interrupted" => Live' = {}]_vars
  BY QuietStep
<1> QED
  BY <1>1, TypeCorrect, PTL DEF Spec, InterruptedQuiet

-----------------------------------------------------------------------------
(* Closed rows.                                                            *)

ClosedKept ==
  \A t \in Threads : row[t] \in ClosedRows /\ row'[t] \notin ClosedRows
    => \E k \in Tasks : task[k].lane = t /\ task[k].pc = "start" /\ task'[k].pc = "await"

\* A step that writes closed words, or writes on a row that is not closed.
LEMMA ClosedWrite ==
  ASSUME TypeOK,
         \A t \in Threads : row'[t] = row[t] \/ row'[t] \in ClosedRows \/ row[t] \notin ClosedRows
  PROVE  ClosedKept
  BY DEF ClosedKept

\* A step of a blueprint reopens a row only as the last write of its spawn.
LEMMA TaskClosed ==
  ASSUME Inv, NEW k \in Tasks, TaskStep(k)
  PROVE  ClosedKept
<1>1. UNCHANGED row => ClosedKept
  BY DEF ClosedKept
<1>2. ASSUME NEW stg, NEW ts, Raise(k, stg, Marked(ts, "failed"))
      PROVE  ClosedKept
  BY <1>2 DEF Raise, Marked, ClosedKept, ClosedRows
<1>3. ASSUME NEW stg, Raise(k, stg, row)
      PROVE  ClosedKept
  BY <1>1, <1>3 DEF Raise
<1>4. ASSUME NEW n, EnterNode(k, n)
      PROVE  ClosedKept
  <2>1. UNCHANGED row
    BY <1>4 DEF EnterNode, Raise, laneVars
  <2> QED
    BY <1>1, <2>1
<1>5. CASE SpawnRow(k)
  <2>1. count \in Nat /\ count + 1 \in Threads
    <3>1. count \in 0..MaxThreads /\ count < MaxThreads
      BY <1>5 DEF SpawnRow, Inv, TypeOK
    <3> QED
      BY <3>1, BoundsAssumption
  <2>2. row[count + 1] = "absent"
    BY <2>1 DEF Inv, RowsInOrder
  <2> QED
    BY <1>5, <2>2 DEF SpawnRow, ClosedKept, ClosedRows, Inv, TypeOK
<1>6. CASE SpawnStamp(k)
  BY <1>6 DEF SpawnStamp, Goto, ClosedKept, Inv, TypeOK
<1>7. CASE StartFails(k)
  BY <1>7 DEF StartFails, ClosedKept, ClosedRows, Inv, TypeOK
<1>8. CASE ReapLane(k)
  BY <1>8 DEF ReapLane, ClosedKept, ClosedRows, Inv, TypeOK
<1>9. CASE MintKey(k)
  BY <1>1, <1>9 DEF MintKey
<1>10. CASE \/ StartBlueprint(k) \/ BodyReturns(k) \/ BodyRaises(k) \/ SpawnRefused(k)
            \/ MintFails(k) \/ Unwind(k) \/ AwaitReturns(k)
  BY <1>2, <1>3, <1>4, <1>10
  DEF StartBlueprint, BodyReturns, BodyRaises, SpawnRefused, MintFails, Unwind, AwaitReturns
<1> QED
  BY <1>5, <1>6, <1>7, <1>8, <1>9, <1>10 DEF TaskStep

\* No other step reopens one.
LEMMA NextClosed ==
  ASSUME Inv, Next
  PROVE  ClosedKept
<1>1. UNCHANGED row \/ (\E ts : row' = Marked(ts, "stopped")) => ClosedKept
  BY DEF Marked, ClosedKept, ClosedRows
<1>2. ASSUME NEW s \in Slots, Request(s) \/ RequestStep(s)
      PROVE  ClosedKept
  <2>1. UNCHANGED row \/ \E ts : row' = Marked(ts, "stopped")
    BY <1>2
    DEF Request, Stop, Abandon, Resume, Message, SwitchMode, RequestStep, StopKill, StopStamp,
        StopFinish, AbandonKill, AbandonStamp, AbandonFinish, ResumeKill, ResumeLaunch, laneVars
  <2> QED
    BY <1>1, <2>1
<1>3. ASSUME NEW t \in Threads,
             \/ BoxStarts(t) \/ WorkerRuns(t) \/ WorkerParks(t) \/ TurnEnds(t)
             \/ \E status \in {"completed", "failed", "stopped"} : WorkerEnds(t, status)
             \/ WorkerVanishes(t) \/ Reap(t)
             \/ \E s \in Slots : Nudge(s, t)
      PROVE  ClosedKept
  <2>1. UNCHANGED row \/ (row[t] \in LiveRows /\ \E w : row' = [row EXCEPT ![t] = w])
    BY <1>3
    DEF BoxStarts, WorkerRuns, WorkerParks, TurnEnds, Beat, BeatHeard, WorkerEnds, WorkerVanishes,
        Reap, Nudge, ActiveRows, LiveRows
  <2> QED
    BY <1>1, <2>1 DEF ClosedKept, LiveRows, ClosedRows, Inv, TypeOK
<1>4. CASE Crash \/ Boot
  <2>1. UNCHANGED row \/ \E ts : row' = Marked(ts, "stopped")
    BY <1>4 DEF Crash, Boot, laneVars
  <2> QED
    BY <1>1, <2>1
<1> QED
  BY <1>2, <1>3, <1>4, TaskClosed DEF Next

\* A closed row is reopened by nothing but the last write of its own spawn.
THEOREM ClosedForGood == Spec => ClosedStaysClosed
<1>1. Inv /\ [Next]_vars => [ClosedKept]_vars
  BY NextClosed
<1>2. [][ClosedKept]_vars => ClosedStaysClosed
  BY PTL DEF ClosedStaysClosed, ClosedKept
<1> QED
  BY <1>1, <1>2, Invariance, PTL DEF Spec
=============================================================================
