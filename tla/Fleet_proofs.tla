---------------------------- MODULE Fleet_proofs ----------------------------
(***************************************************************************)
(* Sessions, keys and bills of lanes, for any lanes, slots and budgets;    *)
(* and the fan-out of a parent, for any requests, replicas and faults.     *)
(***************************************************************************)
EXTENDS ThreadKeys, FanOut, SequenceTheorems, FiniteSetTheorems, WellFoundedInduction, TLAPS

-----------------------------------------------------------------------------
(* A step of a coroutine leaves the others where they are.                 *)

Others(s) == \A q \in Slots : q # s => op'[q] = op[q]

\* A blueprint asks for lane t.
Launches(s, t) == \E p \in Threads \cup {NoThread} : Launch(s, t, p)

LEMMA Going ==
  ASSUME op \in [Slots -> Op], NEW s \in Slots, NEW w \in Pcs, Goto(s, w)
  PROVE  /\ op' \in [Slots -> Op] /\ Others(s)
         /\ op'[s].pc = w /\ op'[s].on = op[s].on
         /\ op'[s].id = op[s].id /\ op'[s].then = op[s].then
  BY DEF Goto, Op, Others

LEMMA Ending ==
  ASSUME op \in [Slots -> Op], NEW s \in Slots, Ends(s)
  PROVE  op' \in [Slots -> Op] /\ Others(s) /\ op'[s] = NoOp
  BY DEF Ends, Op, NoOp, Pcs, Others

LEMMA Beginning ==
  ASSUME op \in [Slots -> Op], NEW s \in Slots, NEW w \in Pcs, NEW t \in Threads,
         NEW next \in {"none", "spawn"}, Begins(s, w, t, next)
  PROVE  /\ op' \in [Slots -> Op] /\ Others(s) /\ op[s] = NoOp
         /\ op'[s].pc = w /\ op'[s].on = t
         /\ op'[s].id = (t \in named) /\ op'[s].then = next
  BY DEF Begins, Op, Others

\* What a coroutine that goes on with a cleanup does next.
LEMMA GoingOn ==
  ASSUME op \in [Slots -> Op], NEW s \in Slots, Onward(s)
  PROVE  /\ op' \in [Slots -> Op] /\ Others(s)
         /\ \/ op'[s] = NoOp
            \/ /\ op[s].then = "spawn"
               /\ op'[s].pc = "spawn" /\ op'[s].on = op[s].on
               /\ op'[s].id = op[s].id /\ op'[s].then = op[s].then
<1>1. CASE op[s].then = "spawn"
  <2>1. Goto(s, "spawn") /\ "spawn" \in Pcs
    BY <1>1 DEF Onward, Pcs
  <2> QED
    BY <1>1, <2>1, Going
<1>2. CASE op[s].then # "spawn"
  BY <1>2, Ending DEF Onward
<1> QED
  BY <1>1, <1>2

-----------------------------------------------------------------------------
(* Types.                                                                  *)

\* A coroutine works for a lane.
Served == \A s \in Slots : op[s].pc # "none" => op[s].on \in Threads

Typed == TypeOK /\ Served

LEMMA TypesBegin == KeysAssumption /\ Init => Typed
  BY DEF KeysAssumption, Init, Typed, TypeOK, Served, Op, NoOp, Pcs, ActiveRows, ClosedRows

LEMMA TypesSpawn ==
  ASSUME KeysAssumption, Typed, NEW s \in Slots,
         Mint(s) \/ Persist(s) \/ StartBox(s) \/ Running(s) \/ Refused(s)
  PROVE  Typed'
<1>1. /\ op[s].on \in Threads
      /\ op' \in [Slots -> Op] /\ Others(s) /\ (op'[s].pc # "none" => op'[s].on = op[s].on)
  <2>1. ASSUME NEW w \in Pcs, Goto(s, w)
        PROVE  op' \in [Slots -> Op] /\ Others(s) /\ op'[s].on = op[s].on
    BY <2>1, Going DEF Typed, TypeOK
  <2>2. ASSUME Ends(s)
        PROVE  op' \in [Slots -> Op] /\ Others(s) /\ op'[s].pc = "none"
    BY <2>2, Ending DEF Typed, TypeOK, NoOp
  <2>3. op[s].on \in Threads
    BY DEF Mint, Persist, StartBox, Running, Refused, At, Typed, Served
  <2> QED
    BY <2>1, <2>2, <2>3 DEF Mint, Persist, StartBox, Running, Refused, Pcs
<1>2. Served'
  BY <1>1 DEF Typed, Served, Others
<1> QED
  BY <1>1, <1>2
  DEF Mint, Persist, StartBox, Running, Refused, Stamps, Typed, TypeOK, ActiveRows, rowVars, boxVars

LEMMA TypesRow ==
  ASSUME KeysAssumption, Typed, NEW s \in Slots, NEW t \in Threads, Respawn(s, t) \/ Launches(s, t)
  PROVE  Typed'
<1>1. op[s].on \in Threads \cup {NoThread}
  BY DEF Typed, TypeOK, Op
<1>2. op' \in [Slots -> Op] /\ Others(s) /\ op'[s].on = t
  <2>1. CASE Launches(s, t)
    <3>1. Begins(s, "mint", t, "none") /\ "mint" \in Pcs
      BY <2>1 DEF Launches, Launch, Pcs
    <3> QED
      BY <3>1, Beginning DEF Typed, TypeOK
  <2>2. CASE Respawn(s, t)
    BY <2>2 DEF Respawn, Typed, TypeOK, NoOp, Op, Pcs, Others
  <2> QED
    BY <2>1, <2>2
<1>3. Served'
  BY <1>2 DEF Typed, Served, Others
<1>4. \E p \in Threads \cup {NoThread}, how \in {"none", "message", "switch", "replace"}, usd \in Nat :
        Row(t, p, how, usd)
  <2>1. CASE Launches(s, t)
    BY <2>1 DEF Launches, Launch, Way, KeysAssumption
  <2>2. CASE Respawn(s, t)
    <3>1. op[s].on \in Threads
      BY <2>2 DEF Respawn, At, Typed, Served
    <3>2. budget[op[s].on] \in Nat /\ cost[op[s].on] \in Nat
      BY <3>1 DEF Typed, TypeOK
    <3> QED
      BY <2>2, <3>1, <3>2 DEF Respawn
  <2> QED
    BY <2>1, <2>2
<1>5. UNCHANGED <<boxVars, gw, blind, lost>>
  BY DEF Launches, Launch, Respawn
<1>6. moves' \in Nat
  <2>1. moves \in Nat
    BY DEF Typed, TypeOK
  <2>2. moves' \in {moves, moves + 1}
    BY DEF Launches, Launch, Move, Respawn
  <2> QED
    BY <2>1, <2>2
<1> QED
  BY <1>2, <1>3, <1>4, <1>5, <1>6 DEF Row, Stamps, Typed, TypeOK, ActiveRows, boxVars

LEMMA TypesClose ==
  ASSUME KeysAssumption, Typed, NEW s \in Slots, Closing(s)
  PROVE  Typed'
<1>1. /\ op[s].on \in Threads
      /\ op' \in [Slots -> Op] /\ Others(s) /\ op'[s].on = op[s].on
  <2>1. ASSUME NEW w \in Pcs, Goto(s, w)
        PROVE  op' \in [Slots -> Op] /\ Others(s) /\ op'[s].on = op[s].on
    BY <2>1, Going DEF Typed, TypeOK
  <2> QED
    BY <2>1 DEF Closing, StopStamp, FinishStamp, ReplaceStamp, At, Typed, Served, Pcs
<1>2. Served'
  BY <1>1 DEF Typed, Served, Others
<1> QED
  BY <1>1, <1>2
  DEF Closing, StopStamp, FinishStamp, ReplaceStamp, Kills, Stamps, Typed, TypeOK, ClosedRows

LEMMA TypesClean ==
  ASSUME KeysAssumption, Typed, NEW s \in Slots, Cleaning(s)
  PROVE  Typed'
<1>1. op[s].on \in Threads
  BY DEF Cleaning, Settle, Delete, Clear, At, Typed, Served
<1>2. op' \in [Slots -> Op] /\ Others(s) /\ (op'[s].pc # "none" => op'[s].on = op[s].on)
  <2>1. ASSUME NEW w \in Pcs, Goto(s, w)
        PROVE  op' \in [Slots -> Op] /\ Others(s) /\ op'[s].on = op[s].on
    BY <2>1, Going DEF Typed, TypeOK
  <2>2. ASSUME Onward(s)
        PROVE  op' \in [Slots -> Op] /\ Others(s) /\ (op'[s].pc # "none" => op'[s].on = op[s].on)
    BY <2>2, GoingOn DEF Typed, TypeOK, NoOp
  <2> QED
    BY <2>1, <2>2 DEF Cleaning, Settle, Delete, Clear, Pcs
<1>3. Served'
  BY <1>1, <1>2 DEF Typed, Served, Others
<1> QED
  BY <1>1, <1>2, <1>3
  DEF Cleaning, Settle, Settled, Delete, Clear, Typed, TypeOK, rowVars, boxVars

LEMMA TypesFail ==
  ASSUME KeysAssumption, Typed, NEW s \in Slots, Failing(s)
  PROVE  Typed'
<1>1. op[s].on \in Threads
  BY DEF Failing, SpawnFails, StampUnverified, ReplaceAborts, SettleFails, DeleteFails, At,
         Typed, Served
<1>2. op' \in [Slots -> Op] /\ Others(s) /\ (op'[s].pc # "none" => op'[s].on = op[s].on)
  <2>1. CASE SpawnFails(s)
    <3>1. op[s] \in Op /\ op \in [Slots -> Op]
      BY DEF Typed, TypeOK
    <3>2. [op[s] EXCEPT !.pc = "settle", !.then = "none"] \in Op
      BY <3>1 DEF Op, Pcs
    <3>3. op' = [op EXCEPT ![s] = [op[s] EXCEPT !.pc = "settle", !.then = "none"]]
      BY <2>1, <3>1 DEF SpawnFails, Op
    <3>4. op' \in [Slots -> Op] /\ Others(s)
      BY <3>1, <3>2, <3>3 DEF Others
    <3>5. op'[s].on = op[s].on
      BY <3>1, <3>3 DEF Op
    <3> QED
      BY <3>4, <3>5
  <2>2. ASSUME NEW w \in Pcs, Goto(s, w)
        PROVE  op' \in [Slots -> Op] /\ Others(s) /\ op'[s].on = op[s].on
    BY <2>2, Going DEF Typed, TypeOK
  <2>3. ASSUME Ends(s)
        PROVE  op' \in [Slots -> Op] /\ Others(s) /\ op'[s].pc = "none"
    BY <2>3, Ending DEF Typed, TypeOK, NoOp
  <2>4. CASE StampUnverified(s)
    BY <2>4, <2>2 DEF StampUnverified, Pcs
  <2>5. CASE ReplaceAborts(s)
    BY <2>5, <2>3 DEF ReplaceAborts
  <2>6. CASE SettleFails(s)
    BY <2>6, <2>2 DEF SettleFails, Pcs
  <2>7. CASE DeleteFails(s)
    BY <2>7, <2>2 DEF DeleteFails, Pcs
  <2> QED
    BY <2>1, <2>4, <2>5, <2>6, <2>7 DEF Failing
<1>3. Served'
  BY <1>1, <1>2 DEF Typed, Served, Others
<1>4. row' \in [Threads -> ActiveRows \cup ClosedRows \cup {"none", "input_required"}]
  <2>1. row' = row \/ \E w \in ClosedRows : Stamps(op[s].on, w)
    BY DEF Failing, SpawnFails, StampUnverified, ReplaceAborts, SettleFails, DeleteFails,
           ClosedRows, rowVars
  <2> QED
    BY <1>1, <2>1 DEF Stamps, Typed, TypeOK
<1> QED
  BY <1>1, <1>2, <1>3, <1>4
  DEF Failing, SpawnFails, StampUnverified, ReplaceAborts, SettleFails, DeleteFails, Fault, Move,
      Typed, TypeOK, rowVars, boxVars

\* Requests, the reaper and its sweep.
LEMMA TypesAsk ==
  ASSUME KeysAssumption, Typed, NEW s \in Slots, NEW t \in Threads,
         Stop(s, t) \/ Finish(s, t) \/ Replace(s, t) \/ Reap(s, t) \/ Sweep(s, t)
  PROVE  Typed'
<1>1. op' \in [Slots -> Op] /\ Others(s) /\ op'[s].on = t
  <2>1. ASSUME NEW w \in Pcs, NEW next \in {"none", "spawn"}, Begins(s, w, t, next)
        PROVE  op' \in [Slots -> Op] /\ Others(s) /\ op'[s].on = t
    BY <2>1, Beginning DEF Typed, TypeOK
  <2> QED
    BY <2>1 DEF Stop, Finish, Replace, Reap, Sweep, Asks, Pcs
<1>2. Served'
  BY <1>1 DEF Typed, Served, Others
<1> QED
  BY <1>1, <1>2
  DEF Stop, Finish, Replace, Reap, Sweep, Asks, Move, Stamps, Typed, TypeOK, ClosedRows, rowVars, boxVars

\* Steps of workers, of the gateway and of the settlement of the run.
LEMMA TypesRest ==
  ASSUME KeysAssumption, Typed,
         \/ \E t \in Threads : Spend(t) \/ Vanishes(t) \/ Expires(t)
         \/ \E t \in Threads, status \in Words : WorkerEnds(t, status)
         \/ SettleRun \/ UNCHANGED vars
  PROVE  Typed' /\ op' = op
<1>1. op' = op
  BY DEF Spend, Vanishes, Expires, WorkerEnds, SettleRun, vars
<1>2. Served'
  BY <1>1 DEF Typed, Served
<1>3. CASE \E t \in Threads : Spend(t) \/ Vanishes(t) \/ Expires(t)
  BY <1>1, <1>2, <1>3 DEF Spend, Vanishes, Expires, Fault, Move, Typed, TypeOK, rowVars, boxVars
<1>4. CASE \E t \in Threads, status \in Words : WorkerEnds(t, status)
  BY <1>1, <1>2, <1>4
  DEF WorkerEnds, Stamps, Typed, TypeOK, KeysAssumption, ClosedRows
<1>5. CASE SettleRun \/ UNCHANGED vars
  BY <1>1, <1>2, <1>5
  DEF SettleRun, Settled, Move, Typed, TypeOK, rowVars, boxVars, vars
<1> QED
  BY <1>1, <1>3, <1>4, <1>5

LEMMA TypesCrash ==
  ASSUME KeysAssumption, Typed, NEW swept \in BOOLEAN, Crash(swept)
  PROVE  Typed' /\ \A s \in Slots : op'[s] = NoOp
<1>1. \A s \in Slots : op'[s] = NoOp
  BY DEF Crash
<1>2. op' \in [Slots -> Op] /\ Served'
  BY <1>1 DEF Crash, Op, NoOp, Pcs, Served
<1>3. lost' \subseteq Threads /\ blind' \subseteq Threads
  BY DEF Crash, At, Typed, TypeOK, Served
<1> QED
  BY <1>1, <1>2, <1>3 DEF Crash, Move, Typed, TypeOK, ClosedRows, boxVars

-----------------------------------------------------------------------------
(* Sessions.                                                               *)

\* A coroutine that is spawning a lane.
Spawns(s) == op[s].pc \in {"mint", "persist", "start", "stamp"}

\* A lane whose container cannot come up again, or that was closed unseen.
Quiet(t) == t \in blind \/ (t \in named /\ box[t] # "up")

\* Only rows have containers with a name.
Listed == \A t \in named : row[t] # "none"

\* A lane that is being spawned has a row, and its container no name yet.
Begun == \A s \in Slots : Spawns(s) => row[op[s].on] # "none" /\ op[s].on \notin named

\* A lane is spawned once.
Alone == \A s, q \in Slots : Spawns(s) /\ Spawns(q) /\ op[s].on = op[q].on => s = q

\* The name a coroutine has read is still there.
ReadName == \A s \in Slots : op[s].id => op[s].on \in named

\* Who replaces a lane waits for its container, or had no name to wait for.
Handed ==
  \A s \in Slots : op[s].then = "spawn" =>
    IF op[s].pc = "replace" THEN op[s].id \/ op[s].on \in blind ELSE Quiet(op[s].on)

\* A lane that was replaced is quiet.
Heirs == \A t \in Threads : prior[t] # NoThread /\ via[t] = "replace" => Quiet(prior[t])

\* Only who replaces a lane asks for another at its end.
Meant == \A s \in Slots : op[s].pc \in {"replace", "spawn"} => op[s].then = "spawn"

Sess == Listed /\ Begun /\ Alone /\ ReadName /\ Handed /\ Heirs /\ Meant

\* No step takes a name or a word back, and none but a start brings a container up.
Calm ==
  /\ named \subseteq named' /\ blind \subseteq blind'
  /\ \A t \in named : box'[t] = "up" => box[t] = "up"
  /\ \A t \in Threads : row[t] # "none" => row'[t] # "none"

\* Quiet, after the step.
Later(t) == t \in blind' \/ (t \in named' /\ box'[t] # "up")

LEMMA QuietStays == ASSUME Calm, NEW t, Quiet(t) PROVE Later(t)
  BY DEF Calm, Quiet, Later

\* What is left to show of a step of one coroutine.
LEMMA OneSlot ==
  ASSUME Typed, Sess, Calm, NEW s \in Slots, Others(s),
         \A t \in named' \ named :
            row'[t] # "none" /\ \A q \in Slots : q # s /\ Spawns(q) => op[q].on # t,
         Spawns(s)' => /\ row'[op'[s].on] # "none" /\ op'[s].on \notin named'
                       /\ \A q \in Slots : q # s /\ Spawns(q) => op[q].on # op'[s].on,
         op'[s].id => op'[s].on \in named',
         op'[s].then = "spawn" =>
           IF op'[s].pc = "replace" THEN op'[s].id \/ op'[s].on \in blind' ELSE Later(op'[s].on),
         op'[s].pc \in {"replace", "spawn"} => op'[s].then = "spawn",
         \A t \in Threads : prior'[t] # NoThread /\ via'[t] = "replace" =>
           (prior'[t] = prior[t] /\ via'[t] = via[t]) \/ Later(prior'[t])
  PROVE  Sess'
<1>1. \A t : Quiet(t) => Later(t)
  BY QuietStays
<1>2. Listed'
  BY DEF Sess, Listed, Calm, Typed, TypeOK
<1>3. Begun'
  <2>1. \A q \in Slots : q # s /\ Spawns(q)' => Spawns(q) /\ op'[q] = op[q] /\ op[q].on \in Threads
    BY DEF Others, Spawns, Typed, Served
  <2> QED
    BY <2>1 DEF Sess, Begun, Calm
<1>4. Alone'
  BY DEF Sess, Alone, Spawns, Others
<1>5. ReadName'
  BY DEF Sess, ReadName, Others, Calm
<1>6. Handed'
  BY <1>1 DEF Sess, Handed, Others, Calm, Quiet, Later
<1>7. Heirs'
  BY <1>1 DEF Sess, Heirs, Quiet, Later
<1>8. Meant'
  BY DEF Sess, Meant, Others
<1> QED
  BY <1>2, <1>3, <1>4, <1>5, <1>6, <1>7, <1>8 DEF Sess

\* What is left to show of a step in which no coroutine takes part.
LEMMA NoSlot ==
  ASSUME Typed, Sess, Calm, op' = op, named' = named, prior' = prior, via' = via
  PROVE  Sess'
<1>1. \A t : Quiet(t) => Later(t)
  BY QuietStays
<1>2. Listed' /\ Begun'
  BY DEF Sess, Listed, Begun, Calm, Spawns, Typed, TypeOK, Served
<1>3. Alone' /\ ReadName' /\ Handed' /\ Heirs' /\ Meant'
  BY <1>1 DEF Sess, Meant, Alone, ReadName, Handed, Heirs, Spawns, Calm, Quiet, Later
<1> QED
  BY <1>2, <1>3 DEF Sess

LEMMA SessBegin == KeysAssumption /\ Init => Sess
  BY DEF KeysAssumption, Init, Sess, Listed, Begun, Alone, ReadName, Handed, Heirs, Meant, Spawns, NoOp

LEMMA SessSpawn ==
  ASSUME KeysAssumption, Typed, Sess, NEW s \in Slots,
         Mint(s) \/ Persist(s) \/ StartBox(s) \/ Running(s) \/ Refused(s)
  PROVE  Sess'
<1>1. CASE Mint(s) \/ Persist(s) \/ StartBox(s)
  <2>1. Spawns(s)
    BY <1>1 DEF Mint, Persist, StartBox, At, Spawns
  <2>2. \E w \in {"persist", "start", "stamp"} : w \in Pcs /\ Goto(s, w)
    BY <1>1 DEF Mint, Persist, StartBox, Pcs
  <2>3. Others(s) /\ Spawns(s)' /\ op'[s].pc \notin {"replace", "spawn"}
    BY <2>2, Going DEF Typed, TypeOK, Spawns
  <2>4. op'[s].on = op[s].on /\ op'[s].id = op[s].id /\ op'[s].then = op[s].then
    BY <2>2, Going DEF Typed, TypeOK
  <2>5. row' = row /\ named' = named /\ prior' = prior /\ via' = via /\ blind' = blind
    BY <1>1 DEF Mint, Persist, StartBox, rowVars
  <2>6. op[s].on \notin named /\ row[op[s].on] # "none"
    BY <2>1 DEF Sess, Begun
  <2>7. Calm
    BY <1>1, <2>5, <2>6 DEF Mint, Persist, StartBox, Calm, boxVars, Typed, TypeOK
  <2>8. op[s].then = "spawn" => Quiet(op[s].on)
    BY <2>1 DEF Sess, Handed, Spawns
  <2>9. \A q \in Slots : q # s /\ Spawns(q) => op[q].on # op[s].on
    BY <2>1 DEF Sess, Alone
  <2>10. op'[s].then = "spawn" => Later(op'[s].on)
    BY <2>4, <2>7, <2>8, QuietStays
  <2> QED
    BY <2>3, <2>4, <2>5, <2>6, <2>7, <2>9, <2>10, OneSlot DEF Sess, ReadName
<1>2. CASE Running(s)
  <2>1. Spawns(s) /\ op[s].on \in Threads
    BY <1>2 DEF Running, At, Spawns, Typed, Served
  <2>2. Others(s) /\ op'[s] = NoOp
    BY <1>2, Ending DEF Running, Typed, TypeOK
  <2>3. \A q \in Slots : q # s /\ Spawns(q) => op[q].on # op[s].on
    BY <2>1 DEF Sess, Alone
  <2>4. /\ named' = named \cup {op[s].on} /\ row'[op[s].on] # "none" /\ prior' = prior /\ via' = via
        /\ Calm
    BY <1>2, <2>1 DEF Running, Stamps, boxVars, Calm, Typed, TypeOK
  <2> QED
    BY <2>2, <2>3, <2>4, OneSlot DEF NoOp, Spawns
<1>3. CASE Refused(s)
  <2>1. Others(s) /\ op'[s] = NoOp
    BY <1>3, Ending DEF Refused, Typed, TypeOK
  <2>2. Calm /\ named' = named /\ prior' = prior /\ via' = via
    BY <1>3 DEF Refused, rowVars, boxVars, Calm
  <2> QED
    BY <2>1, <2>2, OneSlot DEF NoOp, Spawns
<1> QED
  BY <1>1, <1>2, <1>3

LEMMA SessRow ==
  ASSUME KeysAssumption, Typed, Sess, NEW s \in Slots, NEW t \in Threads,
         Respawn(s, t) \/ Launches(s, t)
  PROVE  Sess'
<1>1. /\ row[t] = "none" /\ row' = [row EXCEPT ![t] = "queued"] /\ named' = named
      /\ box' = box /\ blind' = blind
  BY DEF Respawn, Launches, Launch, Row, Stamps, boxVars
<1>2. Others(s) /\ op'[s].pc = "mint" /\ op'[s].on = t /\ op'[s].then = "none"
      /\ ~op'[s].id
  <2>1. CASE Launches(s, t)
    <3>1. Begins(s, "mint", t, "none") /\ "mint" \in Pcs /\ t \notin named
      BY <1>1, <2>1 DEF Launches, Launch, Pcs, Sess, Listed
    <3> QED
      BY <3>1, Beginning DEF Typed, TypeOK
  <2>2. CASE Respawn(s, t)
    BY <2>2 DEF Respawn, NoOp, Others, Typed, TypeOK
  <2> QED
    BY <2>1, <2>2
<1>3. Calm
  BY <1>1 DEF Calm, Typed, TypeOK
<1>4. row'[t] # "none" /\ t \notin named /\ \A q \in Slots : Spawns(q) => op[q].on # t
  BY <1>1 DEF Sess, Listed, Begun, Typed, TypeOK
<1>5. \A u \in Threads : prior'[u] # NoThread /\ via'[u] = "replace" =>
        (prior'[u] = prior[u] /\ via'[u] = via[u]) \/ Later(prior'[u])
  <2>1. CASE Launches(s, t)
    BY <2>1 DEF Launches, Launch, Way, Row, Typed, TypeOK
  <2>2. CASE Respawn(s, t)
    <3>1. /\ prior' = [prior EXCEPT ![t] = op[s].on] /\ op[s].pc = "spawn"
          /\ via' = [via EXCEPT ![t] = "replace"]
      BY <2>2 DEF Respawn, Row, At
    <3>2. op[s].on \in Threads
      BY <3>1 DEF Typed, Served
    <3>3. Quiet(op[s].on)
      BY <3>1 DEF Sess, Handed, Meant
    <3>4. Later(op[s].on)
      BY <1>3, <3>3, QuietStays
    <3> QED
      BY <3>1, <3>4 DEF Typed, TypeOK
  <2> QED
    BY <2>1, <2>2
<1> QED
  BY <1>1, <1>2, <1>3, <1>4, <1>5, OneSlot DEF Spawns

LEMMA SessClose ==
  ASSUME KeysAssumption, Typed, Sess, NEW s \in Slots, Closing(s)
  PROVE  Sess'
<1>1. op[s].pc \in {"stop", "finish", "replace"} /\ op[s].on \in Threads /\ Goto(s, "settle")
  BY DEF Closing, StopStamp, FinishStamp, ReplaceStamp, At, Typed, Served
<1>2. /\ Others(s) /\ op'[s].pc = "settle" /\ op'[s].on = op[s].on
      /\ op'[s].id = op[s].id /\ op'[s].then = op[s].then
  <2>1. "settle" \in Pcs
    BY DEF Pcs
  <2> QED
    BY <1>1, <2>1, Going DEF Typed, TypeOK
<1>3. named' = named /\ prior' = prior /\ via' = via /\ blind' = blind /\ Kills(s)
  BY DEF Closing, StopStamp, FinishStamp, ReplaceStamp
<1>4. Calm
  BY <1>1, <1>3
  DEF Closing, StopStamp, FinishStamp, ReplaceStamp, Kills, Stamps, Calm, Typed, TypeOK
<1>5. ASSUME op[s].then = "spawn"
      PROVE  Later(op[s].on)
  <2>1. CASE op[s].pc = "replace" /\ op[s].on \notin blind
    <3>1. op[s].id /\ op[s].on \in named
      BY <1>5, <2>1 DEF Sess, Handed, ReadName
    <3> QED
      BY <1>1, <1>3, <3>1 DEF Kills, Later, Typed, TypeOK
  <2>2. CASE op[s].on \in blind
    BY <1>3, <2>2 DEF Later
  <2>3. CASE op[s].pc # "replace"
    BY <1>4, <1>5, <2>3, QuietStays DEF Sess, Handed
  <2> QED
    BY <2>1, <2>2, <2>3
<1> QED
  BY <1>2, <1>3, <1>4, <1>5, OneSlot DEF Spawns, Sess, ReadName

LEMMA SessClean ==
  ASSUME KeysAssumption, Typed, Sess, NEW s \in Slots, Cleaning(s)
  PROVE  Sess'
<1>1. Calm /\ named' = named /\ prior' = prior /\ via' = via
  BY DEF Cleaning, Settle, Delete, Clear, rowVars, boxVars, Calm
<1>2. op[s].pc \in {"settle", "delete", "clear"}
  BY DEF Cleaning, Settle, Delete, Clear, At
<1>3. op[s].then = "spawn" => Later(op[s].on)
  BY <1>1, <1>2, QuietStays DEF Sess, Handed
<1>4. CASE Goto(s, "delete") \/ Goto(s, "clear")
  <2>1. /\ Others(s) /\ op'[s].pc \in {"delete", "clear"} /\ op'[s].on = op[s].on
        /\ op'[s].id = op[s].id /\ op'[s].then = op[s].then
    <3>1. "delete" \in Pcs /\ "clear" \in Pcs
      BY DEF Pcs
    <3> QED
      BY <1>4, <3>1, Going DEF Typed, TypeOK
  <2> QED
    BY <1>1, <1>3, <2>1, OneSlot DEF Spawns, Sess, ReadName
<1>5. CASE Onward(s)
  <2>1. /\ Others(s)
        /\ \/ op'[s] = NoOp
           \/ /\ op[s].then = "spawn" /\ op'[s].pc = "spawn" /\ op'[s].on = op[s].on
              /\ op'[s].id = op[s].id /\ op'[s].then = op[s].then
    BY <1>5, GoingOn DEF Typed, TypeOK
  <2> QED
    BY <1>1, <1>3, <2>1, OneSlot DEF Spawns, NoOp, Sess, ReadName
<1> QED
  BY <1>4, <1>5 DEF Cleaning, Settle, Delete, Clear

LEMMA SessFail ==
  ASSUME KeysAssumption, Typed, Sess, NEW s \in Slots, Failing(s)
  PROVE  Sess'
<1>1. named' = named /\ prior' = prior /\ via' = via /\ blind' = blind /\ box' = box
  BY DEF Failing, SpawnFails, StampUnverified, ReplaceAborts, SettleFails, DeleteFails,
         rowVars, boxVars
<1>2. op[s].on \in Threads
  BY DEF Failing, SpawnFails, StampUnverified, ReplaceAborts, SettleFails, DeleteFails, At,
         Typed, Served
<1>3. Calm
  BY <1>1, <1>2
  DEF Failing, SpawnFails, StampUnverified, ReplaceAborts, SettleFails, DeleteFails, Stamps,
      rowVars, Calm, Typed, TypeOK
<1>4. CASE SpawnFails(s)
  <2>1. /\ Others(s) /\ op'[s].pc = "settle" /\ op'[s].on = op[s].on
        /\ op'[s].id = op[s].id /\ op'[s].then = "none"
    BY <1>4 DEF SpawnFails, Others, Typed, TypeOK, Op
  <2> QED
    BY <1>1, <1>3, <2>1, OneSlot DEF Spawns, Sess, ReadName
<1>5. CASE ReplaceAborts(s)
  <2>1. Others(s) /\ op'[s] = NoOp
    BY <1>5, Ending DEF ReplaceAborts, Typed, TypeOK
  <2> QED
    BY <1>1, <1>3, <2>1, OneSlot DEF Spawns, NoOp
<1>6. CASE StampUnverified(s) \/ SettleFails(s) \/ DeleteFails(s)
  <2>1. op[s].pc \in {"stop", "finish", "settle", "delete"}
    BY <1>6 DEF StampUnverified, SettleFails, DeleteFails, At
  <2>2. \E w \in {"settle", "delete", "clear"} : w \in Pcs /\ Goto(s, w)
    BY <1>6 DEF StampUnverified, SettleFails, DeleteFails, Pcs
  <2>3. /\ Others(s) /\ op'[s].pc \in {"settle", "delete", "clear"} /\ op'[s].on = op[s].on
        /\ op'[s].id = op[s].id /\ op'[s].then = op[s].then
    BY <2>2, Going DEF Typed, TypeOK
  <2>4. op[s].then = "spawn" => Later(op[s].on)
    BY <1>3, <2>1, QuietStays DEF Sess, Handed
  <2> QED
    BY <1>1, <1>3, <2>3, <2>4, OneSlot DEF Spawns, Sess, ReadName
<1> QED
  BY <1>4, <1>5, <1>6 DEF Failing

LEMMA SessAsk ==
  ASSUME KeysAssumption, Typed, Sess, NEW s \in Slots, NEW t \in Threads,
         Stop(s, t) \/ Finish(s, t) \/ Replace(s, t) \/ Reap(s, t) \/ Sweep(s, t)
  PROVE  Sess'
<1>1. \/ \E w \in {"stop", "finish", "settle"} : w \in Pcs /\ Begins(s, w, t, "none")
      \/ Begins(s, "replace", t, "spawn") /\ "replace" \in Pcs
  BY DEF Stop, Finish, Replace, Reap, Sweep, Asks, Pcs
<1>2. /\ Others(s) /\ op'[s].on = t /\ op'[s].id = (t \in named)
      /\ op'[s].pc \in {"stop", "finish", "settle", "replace"}
      /\ (op'[s].then = "spawn" <=> op'[s].pc = "replace")
  BY <1>1, Beginning DEF Typed, TypeOK
<1>3. /\ named' = named /\ prior' = prior /\ via' = via /\ box' = box /\ blind \subseteq blind'
  BY DEF Stop, Finish, Replace, Reap, Sweep, Asks, rowVars, boxVars
<1>4. Calm
  BY <1>3
  DEF Stop, Finish, Replace, Reap, Sweep, Asks, Stamps, rowVars, Calm, Typed, TypeOK
<1>5. op'[s].pc = "replace" => t \in named \/ t \in blind'
  <2>1. CASE Replace(s, t) \/ Stop(s, t) \/ Finish(s, t)
    BY <2>1 DEF Replace, Stop, Finish, Asks
  <2>2. CASE Reap(s, t) \/ Sweep(s, t)
    <3>1. Begins(s, "settle", t, "none") /\ "settle" \in Pcs
      BY <2>2 DEF Reap, Sweep, Pcs
    <3> QED
      BY <3>1, Beginning DEF Typed, TypeOK
  <2> QED
    BY <2>1, <2>2
<1> QED
  BY <1>2, <1>3, <1>4, <1>5, OneSlot DEF Spawns

LEMMA SessRest ==
  ASSUME KeysAssumption, Typed, Sess,
         \/ \E t \in Threads : Spend(t) \/ Vanishes(t) \/ Expires(t)
         \/ \E t \in Threads, status \in Words : WorkerEnds(t, status)
         \/ SettleRun \/ UNCHANGED vars
  PROVE  Sess'
<1>1. op' = op /\ named' = named /\ prior' = prior /\ via' = via /\ blind' = blind
  BY DEF Spend, Vanishes, Expires, WorkerEnds, SettleRun, vars, rowVars
<1>2. CASE \E t \in Threads : Spend(t) \/ Vanishes(t) \/ Expires(t)
  BY <1>1, <1>2, NoSlot DEF Spend, Vanishes, Expires, Calm, rowVars, boxVars, Typed, TypeOK
<1>3. CASE \E t \in Threads, status \in Words : WorkerEnds(t, status)
  <2>1. Calm
    BY <1>1, <1>3 DEF WorkerEnds, Stamps, Calm, Typed, TypeOK, KeysAssumption
  <2> QED
    BY <1>1, <2>1, NoSlot
<1>4. CASE SettleRun \/ UNCHANGED vars
  BY <1>1, <1>4, NoSlot DEF SettleRun, Calm, rowVars, boxVars, vars
<1> QED
  BY <1>2, <1>3, <1>4

LEMMA SessCrash ==
  ASSUME KeysAssumption, Typed, Sess, NEW swept \in BOOLEAN, Crash(swept)
  PROVE  Sess'
<1>1. \A s \in Slots : op'[s] = NoOp
  BY DEF Crash
<1>2. named' = named /\ prior' = prior /\ via' = via /\ blind \subseteq blind' /\ box' = box
  BY DEF Crash, boxVars
<1>3. Listed'
  BY <1>2 DEF Crash, Sess, Listed, Typed, TypeOK
<1> QED
  BY <1>1, <1>2, <1>3 DEF Sess, Begun, Alone, ReadName, Handed, Heirs, Meant, Quiet, Spawns, NoOp

\* Every step.
LEMMA SessStep == KeysAssumption /\ Typed /\ Sess /\ [Next]_vars => Typed' /\ Sess'
<1> SUFFICES ASSUME KeysAssumption, Typed, Sess, [Next]_vars PROVE Typed' /\ Sess'
  OBVIOUS
<1>1. ASSUME NEW s \in Slots, Spawning(s) PROVE Typed' /\ Sess'
  BY <1>1, TypesSpawn, TypesRow, SessSpawn, SessRow DEF Spawning
<1>2. ASSUME NEW s \in Slots, Closing(s) \/ Cleaning(s) \/ Failing(s) PROVE Typed' /\ Sess'
  BY <1>2, TypesClose, TypesClean, TypesFail, SessClose, SessClean, SessFail
<1>3. ASSUME NEW s \in Slots, NEW t \in Threads,
             \/ Launches(s, t) \/ Stop(s, t) \/ Finish(s, t) \/ Replace(s, t)
             \/ Reap(s, t) \/ Sweep(s, t)
      PROVE  Typed' /\ Sess'
  BY <1>3, TypesRow, TypesAsk, SessRow, SessAsk
<1>4. CASE \/ \E t \in Threads : Spend(t) \/ Vanishes(t) \/ Expires(t)
           \/ \E t \in Threads, status \in Words : WorkerEnds(t, status)
           \/ SettleRun \/ UNCHANGED vars
  BY <1>4, TypesRest, SessRest
<1>5. ASSUME NEW swept \in BOOLEAN, Crash(swept) PROVE Typed' /\ Sess'
  BY <1>5, TypesCrash, SessCrash
<1> QED
  BY <1>1, <1>2, <1>3, <1>4, <1>5 DEF Next, Launches

\* Types, for every constant.
THEOREM KeysTypeCorrect == ASSUME KeysAssumption PROVE Spec => []TypeOK
<1>1. Init => Typed /\ Sess
  BY TypesBegin, SessBegin
<1>2. Typed /\ Sess => TypeOK
  BY DEF Typed
<1>3. Typed /\ Sess /\ [Next]_vars => Typed' /\ Sess'
  BY SessStep
<1> QED
  BY <1>1, <1>2, <1>3, PTL DEF Spec

-----------------------------------------------------------------------------
(* Lanes that have ended.                                                  *)

\* A coroutine that has not started the container yet.
Awaits(s) == op[s].pc \in {"mint", "persist", "start"}

\* Its lane is still open, or was closed without a look at the container.
Pending == \A s \in Slots : Awaits(s) /\ row[op[s].on] \in ClosedRows => op[s].on \in blind

\* Only a row has a container, and not while it awaits one.
Empty == \A t \in Threads : row[t] = "none" => box[t] # "up"
Bare == \A s \in Slots : Awaits(s) => box[op[s].on] # "up"

\* Who is about to close a lane has a container to wait for, or had none.
Watched == \A s \in Slots : op[s].pc \in {"stop", "finish", "replace"} =>
             op[s].id \/ op[s].on \in blind

\* The container of a closed lane is gone, but for the two ways around it.
Shut == \A t \in Threads : row[t] \in ClosedRows /\ box[t] = "up" => t \in blind \cup lost

\* The container of the lane is gone, and nobody is about to start it.
Still(t) ==
  \/ t \in blind \cup lost
  \/ row[t] # "none" /\ box[t] # "up" /\ \A s \in Slots : Awaits(s) => op[s].on # t

\* A lane that a message continues has ended.
Told ==
  \A t \in Threads : prior[t] # NoThread =>
    via[t] \in {"replace", "switch"} \/ (via[t] = "message" /\ Still(prior[t]))

Hush == Pending /\ Empty /\ Bare /\ Watched /\ Shut /\ Told

LEMMA HushBegin == KeysAssumption /\ Init => Hush
  BY DEF KeysAssumption, Init, Hush, Pending, Empty, Bare, Watched, Shut, Told, Awaits, NoOp,
         ClosedRows

\* What is left to show of a step that makes no row.
LEMMA HushSlot ==
  ASSUME Typed, Sess, Hush, Calm, lost \subseteq lost', prior' = prior, via' = via,
         NEW S \in SUBSET Slots, \A q \in Slots \ S : op'[q] = op[q],
         \A s \in S : Awaits(s)' => Awaits(s) /\ op'[s].on = op[s].on,
         \A s \in S : op'[s].pc \in {"stop", "finish", "replace"} =>
           op'[s].id \/ op'[s].on \in blind',
         \A t \in Threads : box'[t] = "up" =>
           box[t] = "up" \/ \E s \in S : op[s].pc = "start" /\ ~Awaits(s)' /\ t = op[s].on,
         \A t \in Threads : row'[t] \in ClosedRows =>
           \/ row[t] \in ClosedRows
           \/ /\ box'[t] # "up" \/ t \in blind' \cup lost'
              /\ t \in blind' \/ \A q \in Slots : Awaits(q)' => op[q].on # t
  PROVE  Hush'
<1> USE DEF Hush
<1>1. \A q \in Slots : Awaits(q)' => Awaits(q) /\ op'[q].on = op[q].on /\ op[q].on \in Threads
  BY DEF Awaits, Typed, Served
<1>2. \A s \in S : op[s].pc = "start" => Awaits(s) /\ op[s].on \in Threads
  BY DEF Awaits, Typed, Served
<1>3. \A s, q \in Slots : Awaits(s) /\ Awaits(q) /\ op[s].on = op[q].on => s = q
  BY DEF Sess, Alone, Spawns, Awaits
<1>4. \A s \in Slots : Awaits(s) => row[op[s].on] # "none"
  BY DEF Sess, Begun, Spawns, Awaits
<1>5. blind \subseteq blind' /\ \A t \in Threads : row[t] # "none" => row'[t] # "none"
  BY DEF Calm
<1>6. Pending'
  BY <1>1, <1>5 DEF Pending
<1>7. Empty'
  BY <1>2, <1>4, <1>5 DEF Empty
<1>8. Bare'
  <2> SUFFICES ASSUME NEW q \in Slots, Awaits(q)', box'[op[q].on] = "up" PROVE FALSE
    BY <1>1 DEF Bare
  <2>1. PICK s \in S : op[s].pc = "start" /\ ~Awaits(s)' /\ op[q].on = op[s].on
    BY <1>1 DEF Bare
  <2> QED
    BY <1>1, <1>2, <1>3, <2>1
<1>9. Watched'
  BY <1>5 DEF Watched
<1>10. Shut'
  BY <1>2, <1>5 DEF Shut, Pending
<1>11. Told'
  <2> SUFFICES ASSUME NEW t \in Threads, Still(t) PROVE Still(t)'
    BY DEF Told, Typed, TypeOK
  <2>1. CASE t \in blind \cup lost
    BY <1>5, <2>1 DEF Still
  <2>2. CASE row[t] # "none" /\ box[t] # "up" /\ \A s \in Slots : Awaits(s) => op[s].on # t
    BY <1>1, <1>2, <1>5, <2>2 DEF Still
  <2> QED
    BY <2>1, <2>2 DEF Still
<1> QED
  BY <1>6, <1>7, <1>8, <1>9, <1>10, <1>11

LEMMA HushSpawn ==
  ASSUME KeysAssumption, Typed, Sess, Hush, NEW s \in Slots,
         Mint(s) \/ Persist(s) \/ StartBox(s) \/ Running(s) \/ Refused(s)
  PROVE  Hush'
<1>1. op[s].on \in Threads /\ prior' = prior /\ via' = via /\ lost' = lost /\ blind' = blind
  BY DEF Mint, Persist, StartBox, Running, Refused, At, Typed, Served, rowVars
<1>2. Others(s) /\ op'[s].pc \in {"persist", "start", "stamp", "none"}
      /\ (op'[s].pc # "none" => op'[s].on = op[s].on)
      /\ (Awaits(s)' => Mint(s) \/ Persist(s))
  <2>1. ASSUME NEW w \in {"persist", "start", "stamp"}, Goto(s, w)
        PROVE  Others(s) /\ op'[s].pc = w /\ op'[s].on = op[s].on
    <3>1. w \in Pcs
      BY DEF Pcs
    <3> QED
      BY <2>1, <3>1, Going DEF Typed, TypeOK
  <2>2. ASSUME Ends(s)
        PROVE  Others(s) /\ op'[s].pc = "none"
    BY <2>2, Ending DEF Typed, TypeOK, NoOp
  <2> QED
    BY <2>1, <2>2 DEF Mint, Persist, StartBox, Running, Refused, Awaits
<1>3. Calm
  <2>1. StartBox(s) => op[s].on \notin named
    BY DEF StartBox, At, Sess, Begun, Spawns
  <2> QED
    BY <1>1, <2>1
    DEF Mint, Persist, StartBox, Running, Refused, Stamps, rowVars, boxVars, Calm, Typed, TypeOK
<1>4. \A t \in Threads : row'[t] \in ClosedRows => row[t] \in ClosedRows
  BY DEF Mint, Persist, StartBox, Running, Refused, Stamps, rowVars, ClosedRows, Typed, TypeOK
<1>5. \A t \in Threads : box'[t] = "up" =>
        box[t] = "up" \/ (op[s].pc = "start" /\ ~Awaits(s)' /\ t = op[s].on)
  BY <1>2 DEF Mint, Persist, StartBox, Running, Refused, At, boxVars, Typed, TypeOK, Awaits
<1>6. Awaits(s)' => Awaits(s) /\ op'[s].on = op[s].on
  BY <1>2 DEF Mint, Persist, At, Awaits
<1>7. {s} \in SUBSET Slots /\ \A q \in Slots \ {s} : op'[q] = op[q]
  BY <1>2 DEF Others
<1> QED
  BY <1>1, <1>2, <1>3, <1>4, <1>5, <1>6, <1>7, HushSlot

LEMMA HushEnd ==
  ASSUME KeysAssumption, Typed, Sess, Hush, NEW s \in Slots,
         Closing(s) \/ Cleaning(s) \/ Failing(s)
  PROVE  Hush'
<1>1. op[s].on \in Threads /\ prior' = prior /\ via' = via /\ lost \subseteq lost' /\ blind' = blind
  BY DEF Closing, StopStamp, FinishStamp, ReplaceStamp, Cleaning, Settle, Delete, Clear, Failing,
         SpawnFails, StampUnverified, ReplaceAborts, SettleFails, DeleteFails, Fault, At, Typed,
         Served, rowVars
<1>2. Others(s) /\ op'[s].pc \in {"settle", "delete", "clear", "spawn", "none"}
  <2>1. ASSUME NEW w \in {"settle", "delete", "clear"}, Goto(s, w)
        PROVE  Others(s) /\ op'[s].pc = w
    <3>1. w \in Pcs
      BY DEF Pcs
    <3> QED
      BY <2>1, <3>1, Going DEF Typed, TypeOK
  <2>2. ASSUME Ends(s) \/ Onward(s)
        PROVE  Others(s) /\ op'[s].pc \in {"none", "spawn"}
    BY <2>2, Ending, GoingOn DEF Typed, TypeOK, NoOp
  <2>3. CASE SpawnFails(s)
    BY <2>3 DEF SpawnFails, Others, Typed, TypeOK, Op
  <2> QED
    BY <2>1, <2>2, <2>3
    DEF Closing, StopStamp, FinishStamp, ReplaceStamp, Cleaning, Settle, Delete, Clear, Failing,
        StampUnverified, ReplaceAborts, SettleFails, DeleteFails
<1>3. /\ ~Awaits(s)' /\ op'[s].pc \notin {"stop", "finish", "replace"}
      /\ {s} \in SUBSET Slots /\ \A q \in Slots \ {s} : op'[q] = op[q]
  BY <1>2 DEF Awaits, Others
<1>4. /\ named' = named
      /\ \A t \in Threads : box'[t] = "up" => box[t] = "up"
      /\ \A t \in Threads : t # op[s].on => row'[t] = row[t]
  BY DEF Closing, StopStamp, FinishStamp, ReplaceStamp, Kills, Cleaning, Settle, Delete, Clear,
         Failing, SpawnFails, StampUnverified, ReplaceAborts, SettleFails, DeleteFails, Stamps,
         rowVars, boxVars, Typed, TypeOK
<1>5. row'[op[s].on] = row[op[s].on] \/ row'[op[s].on] \in ClosedRows
  BY <1>1 DEF Closing, StopStamp, FinishStamp, ReplaceStamp, Cleaning, Settle, Delete, Clear,
              Failing, SpawnFails, StampUnverified, ReplaceAborts, SettleFails, DeleteFails,
              Stamps, rowVars, ClosedRows, Typed, TypeOK
<1>6. Calm
  BY <1>1, <1>4, <1>5 DEF Calm, ClosedRows, Typed, TypeOK
<1>7. \/ box'[op[s].on] # "up" \/ op[s].on \in blind' \cup lost'
      \/ row'[op[s].on] = row[op[s].on]
  <2>1. CASE Closing(s)
    <3>1. op[s].pc \in {"stop", "finish", "replace"} /\ Kills(s)
      BY <2>1 DEF Closing, StopStamp, FinishStamp, ReplaceStamp, At
    <3>2. op[s].id \/ op[s].on \in blind
      BY <3>1 DEF Hush, Watched
    <3> QED
      BY <1>1, <3>1, <3>2 DEF Kills, Typed, TypeOK
  <2>2. CASE Cleaning(s)
    BY <2>2 DEF Cleaning, Settle, Delete, Clear, rowVars
  <2>3. CASE Failing(s)
    BY <2>3 DEF Failing, SpawnFails, StampUnverified, ReplaceAborts, SettleFails, DeleteFails, Fault
  <2> QED
    BY <2>1, <2>2, <2>3
<1>8. \/ row'[op[s].on] = row[op[s].on]
      \/ op[s].on \in blind' \/ \A q \in Slots : Awaits(q)' => op[q].on # op[s].on
  <2> SUFFICES ASSUME NEW q \in Slots, Awaits(q)', op[q].on = op[s].on, op[s].on \notin blind
               PROVE  row'[op[s].on] = row[op[s].on]
    BY <1>1
  <2>1. q # s /\ Awaits(q)
    BY <1>3 DEF Awaits
  <2>2. op[s].on \notin named
    BY <2>1 DEF Sess, Begun, Spawns, Awaits
  <2>3. ~op[s].id
    BY <2>2 DEF Sess, ReadName
  <2>4. op[s].pc \notin {"stop", "finish", "replace"}
    BY <2>3 DEF Hush, Watched
  <2>5. ~SpawnFails(s)
    BY <2>1 DEF SpawnFails, Sess, Alone, Spawns, Awaits
  <2> QED
    BY <2>3, <2>4, <2>5
    DEF Closing, StopStamp, FinishStamp, ReplaceStamp, Cleaning, Settle, Delete, Clear, Failing,
        StampUnverified, ReplaceAborts, SettleFails, DeleteFails, At, rowVars
<1>9. \A t \in Threads : row'[t] \in ClosedRows =>
        \/ row[t] \in ClosedRows
        \/ /\ box'[t] # "up" \/ t \in blind' \cup lost'
           /\ t \in blind' \/ \A q \in Slots : Awaits(q)' => op[q].on # t
  BY <1>4, <1>7, <1>8
<1> QED
  BY <1>1, <1>3, <1>4, <1>6, <1>9, HushSlot

LEMMA HushAsk ==
  ASSUME KeysAssumption, Typed, Sess, Hush, NEW s \in Slots, NEW t \in Threads,
         Stop(s, t) \/ Finish(s, t) \/ Replace(s, t) \/ Reap(s, t) \/ Sweep(s, t)
  PROVE  Hush'
<1>1. \E w \in {"stop", "finish", "replace", "settle"}, next \in {"none", "spawn"} :
        w \in Pcs /\ Begins(s, w, t, next) /\ (w = "settle" \/ Asks(s, w, t, next))
  BY DEF Stop, Finish, Replace, Reap, Sweep, Asks, Pcs
<1>2. /\ Others(s) /\ op'[s].on = t /\ op'[s].id = (t \in named)
      /\ op'[s].pc \in {"stop", "finish", "replace", "settle"}
      /\ op'[s].pc # "settle" => op'[s].id \/ t \in blind'
  <2>1. PICK w \in {"stop", "finish", "replace", "settle"}, next \in {"none", "spawn"} :
          w \in Pcs /\ Begins(s, w, t, next) /\ (w = "settle" \/ Asks(s, w, t, next))
    BY <1>1
  <2>2. Others(s) /\ op'[s].on = t /\ op'[s].id = (t \in named) /\ op'[s].pc = w
    BY <2>1, Beginning DEF Typed, TypeOK
  <2>3. w = "settle" \/ t \in named \/ t \in blind'
    BY <2>1 DEF Asks
  <2> QED
    BY <2>2, <2>3
<1>3. /\ ~Awaits(s)' /\ {s} \in SUBSET Slots /\ \A q \in Slots \ {s} : op'[q] = op[q]
      /\ op'[s].pc \in {"stop", "finish", "replace"} => op'[s].id \/ op'[s].on \in blind'
  BY <1>2 DEF Awaits, Others
<1>4. /\ named' = named /\ prior' = prior /\ via' = via /\ box' = box /\ lost' = lost
      /\ blind \subseteq blind'
  BY DEF Stop, Finish, Replace, Reap, Sweep, Asks, rowVars, boxVars
<1>5. Calm
  BY <1>4
  DEF Stop, Finish, Replace, Reap, Sweep, Asks, Stamps, rowVars, Calm, Typed, TypeOK
<1>6. \A u \in Threads : row'[u] # row[u] => box[u] = "gone" /\ u \in named
  BY DEF Stop, Finish, Replace, Reap, Sweep, Asks, Stamps, rowVars, Typed, TypeOK
<1>7. \A u \in named : \A q \in Slots : Awaits(q)' => op[q].on # u
  BY <1>3 DEF Awaits, Sess, Begun, Spawns
<1> QED
  BY <1>3, <1>4, <1>5, <1>6, <1>7, HushSlot

LEMMA HushRest ==
  ASSUME KeysAssumption, Typed, Sess, Hush,
         \/ \E t \in Threads : Spend(t) \/ Vanishes(t) \/ Expires(t)
         \/ \E t \in Threads, status \in Words : WorkerEnds(t, status)
         \/ SettleRun \/ UNCHANGED vars
  PROVE  Hush'
<1>1. /\ op' = op /\ named' = named /\ prior' = prior /\ via' = via /\ blind' = blind
      /\ lost \subseteq lost'
  BY DEF Spend, Vanishes, Expires, WorkerEnds, SettleRun, vars, rowVars, Fault
<1>2. \A t \in Threads : box'[t] = "up" => box[t] = "up"
  BY DEF Spend, Vanishes, Expires, WorkerEnds, SettleRun, vars, boxVars, Typed, TypeOK
<1>3. \A t \in Threads : row'[t] # row[t] => row'[t] # "none" /\ box[t] = "up" /\ box'[t] # "up"
  BY DEF Spend, Vanishes, Expires, WorkerEnds, Stamps, SettleRun, vars, rowVars, Typed, TypeOK,
         KeysAssumption
<1>4. Calm
  BY <1>1, <1>2, <1>3 DEF Calm, Typed, TypeOK
<1>5. \A t \in Threads : box[t] = "up" => \A q \in Slots : Awaits(q)' => op[q].on # t
  BY <1>1 DEF Hush, Bare, Awaits
<1>6. {} \in SUBSET Slots /\ \A q \in Slots \ {} : op'[q] = op[q]
  BY <1>1
<1> QED
  BY <1>1, <1>2, <1>3, <1>4, <1>5, <1>6, HushSlot

LEMMA HushCrash ==
  ASSUME KeysAssumption, Typed, Sess, Hush, NEW swept \in BOOLEAN, Crash(swept)
  PROVE  Hush'
<1>1. \A s \in Slots : op'[s].pc = "none"
  BY DEF Crash, NoOp
<1>2. /\ named' = named /\ prior' = prior /\ via' = via /\ box' = box
      /\ blind \subseteq blind' /\ lost \subseteq lost'
  BY DEF Crash, boxVars
<1>3. \A t \in Threads : row'[t] = row[t] \/ (row[t] # "none" /\ row'[t] # "none"
                                             /\ (box[t] # "up" \/ t \in blind'))
  BY DEF Crash, Open, Typed, TypeOK
<1>4. Calm
  BY <1>2, <1>3 DEF Calm
<1>5. \A s \in Slots : ~Awaits(s)' /\ op'[s].pc \notin {"stop", "finish", "replace"}
  BY <1>1 DEF Awaits
<1> QED
  BY <1>2, <1>3, <1>4, <1>5, HushSlot

\* A new lane: the one it continues has ended, is replaced, or runs on.
LEMMA HushRow ==
  ASSUME KeysAssumption, Typed, Sess, Hush, NEW s \in Slots, NEW t \in Threads,
         Respawn(s, t) \/ Launches(s, t)
  PROVE  Hush'
<1> USE DEF Hush
<1>1. /\ row[t] = "none" /\ row' = [row EXCEPT ![t] = "queued"]
      /\ box' = box /\ blind' = blind /\ lost' = lost
  BY DEF Respawn, Launches, Launch, Row, Stamps, boxVars
<1>2. Others(s) /\ op'[s].pc = "mint" /\ op'[s].on = t
  <2>1. CASE Launches(s, t)
    <3>1. Begins(s, "mint", t, "none") /\ "mint" \in Pcs
      BY <2>1 DEF Launches, Launch, Pcs
    <3> QED
      BY <3>1, Beginning DEF Typed, TypeOK
  <2>2. CASE Respawn(s, t)
    BY <2>2 DEF Respawn, NoOp, Others, Typed, TypeOK
  <2> QED
    BY <2>1, <2>2
<1>3. row'[t] = "queued" /\ box[t] # "up" /\ \A u \in Threads : u # t => row'[u] = row[u]
  BY <1>1 DEF Empty, Typed, TypeOK
<1>4. \A q \in Slots : Awaits(q)' => q = s \/ (Awaits(q) /\ op'[q] = op[q] /\ op[q].on \in Threads)
  BY <1>2 DEF Awaits, Others, Typed, Served
<1>5. \A q \in Slots : Awaits(q) => op[q].on # t
  BY <1>1 DEF Sess, Begun, Spawns, Awaits
<1>6. Pending' /\ Bare'
  BY <1>1, <1>2, <1>3, <1>4, <1>5 DEF Pending, Bare, ClosedRows
<1>7. Empty' /\ Shut'
  BY <1>1, <1>3 DEF Empty, Shut, ClosedRows
<1>8. Watched'
  BY <1>1, <1>2 DEF Watched, Others
<1>9. ASSUME NEW u \in Threads, Still(u), u \in blind \cup lost \/ u # t PROVE Still(u)'
  BY <1>1, <1>2, <1>3, <1>4, <1>9 DEF Still
<1>10. \A u \in Threads : row[u] \in ClosedRows => Still(u)
  BY DEF Still, Shut, Pending, ClosedRows
<1>11. \A u \in Threads : u # t => prior'[u] = prior[u] /\ via'[u] = via[u]
  BY DEF Respawn, Launches, Launch, Row, Typed, TypeOK
<1>12. prior'[t] # NoThread =>
         \/ via'[t] \in {"replace", "switch"}
         \/ via'[t] = "message" /\ prior'[t] \in Threads /\ row[prior'[t]] \in ClosedRows
  <2>1. CASE Respawn(s, t)
    BY <2>1 DEF Respawn, Row, Typed, TypeOK
  <2>2. CASE Launches(s, t)
    BY <2>2 DEF Launches, Launch, Way, Row, Typed, TypeOK
  <2> QED
    BY <2>1, <2>2
<1>13. \A u \in Threads : prior'[u] # NoThread =>
         \/ via'[u] \in {"replace", "switch"}
         \/ via'[u] = "message" /\ prior'[u] \in Threads /\ Still(prior'[u])
  BY <1>10, <1>11, <1>12 DEF Told, Typed, TypeOK
<1>14. Still(t) => t \in blind \cup lost
  BY <1>1 DEF Still
<1>15. Told'
  BY <1>9, <1>13, <1>14 DEF Told
<1> QED
  BY <1>6, <1>7, <1>8, <1>15

LEMMA HushStep == KeysAssumption /\ Typed /\ Sess /\ Hush /\ [Next]_vars => Hush'
<1> SUFFICES ASSUME KeysAssumption, Typed, Sess, Hush, [Next]_vars PROVE Hush'
  OBVIOUS
<1>1. ASSUME NEW s \in Slots, Spawning(s) PROVE Hush'
  BY <1>1, HushSpawn, HushRow DEF Spawning
<1>2. ASSUME NEW s \in Slots, Closing(s) \/ Cleaning(s) \/ Failing(s) PROVE Hush'
  BY <1>2, HushEnd
<1>3. ASSUME NEW s \in Slots, NEW t \in Threads,
             \/ Launches(s, t) \/ Stop(s, t) \/ Finish(s, t) \/ Replace(s, t)
             \/ Reap(s, t) \/ Sweep(s, t)
      PROVE  Hush'
  BY <1>3, HushRow, HushAsk
<1>4. CASE \/ \E t \in Threads : Spend(t) \/ Vanishes(t) \/ Expires(t)
           \/ \E t \in Threads, status \in Words : WorkerEnds(t, status)
           \/ SettleRun \/ UNCHANGED vars
  BY <1>4, HushRest
<1>5. ASSUME NEW swept \in BOOLEAN, Crash(swept) PROVE Hush'
  BY <1>5, HushCrash
<1> QED
  BY <1>1, <1>2, <1>3, <1>4, <1>5 DEF Next, Launches

\* A lane does not run beside the lane that continues it, whether that replaces it or
\* answers a message to it, unless it was closed while its container had no name, its
\* container outlived the force-stop, or a switch left it running (manager.py:283).
THEOREM OneSession == ASSUME KeysAssumption PROVE Spec => []SessionExclusive
<1>1. Init => Typed /\ Sess /\ Hush
  BY TypesBegin, SessBegin, HushBegin
<1>2. KeysAssumption /\ Typed /\ Sess /\ Hush => SessionExclusive
  <2> SUFFICES ASSUME KeysAssumption, Typed, Sess, Hush, NEW t \in Threads, NEW u \in Threads,
                      box[t] = "up", prior[u] = t
               PROVE  \/ t \in blind
                      \/ via[u] = "message" /\ t \in lost
                      \/ via[u] = "switch"
    BY DEF SessionExclusive
  <2>1. prior[u] # NoThread
    BY DEF KeysAssumption
  <2>2. via[u] = "replace" => Quiet(t)
    BY <2>1 DEF Sess, Heirs
  <2>3. via[u] \in {"replace", "switch"} \/ (via[u] = "message" /\ Still(t))
    BY <2>1 DEF Hush, Told
  <2> QED
    BY <2>2, <2>3 DEF Quiet, Still
<1>3. Typed /\ Sess /\ Hush /\ [Next]_vars => Typed' /\ Sess' /\ Hush'
  BY SessStep, HushStep
<1> QED
  BY <1>1, <1>2, <1>3, PTL DEF Spec

-----------------------------------------------------------------------------
(* Keys.                                                                   *)

\* A coroutine whose key is not in the row yet, and one that takes a key away.
Mints(s) == op[s].pc \in {"mint", "persist"}
Cleans(s) == op[s].pc \in {"delete", "clear"}

\* The key of a lane does not live at the gateway, or a fault has left it to its TTL.
Written(t) == gw[t] # "live" \/ t \in lost

\* A key that is being minted is not in the row.
Unkeyed == \A s \in Slots : Mints(s) => op[s].on \notin key

\* A coroutine works for a lane that has a row, and only a row has a key.
Noted == \A s \in Slots : op[s].pc # "none" => row[op[s].on] # "none"
Blank == \A t \in key : row[t] # "none"

\* No cleanup takes away the key of a lane that is getting it.
Apart == \A s, q \in Slots : Mints(s) /\ Cleans(q) => op[s].on # op[q].on

\* A cleanup clears the row of a key that is written off; it may find the row
\* cleared by another one that did so.
Cut ==
  \A s \in Slots : /\ op[s].pc = "clear" => Written(op[s].on)
                   /\ op[s].pc = "delete" => op[s].on \in key \/ Written(op[s].on)

Kept == KeyAccounted /\ Unkeyed /\ Noted /\ Blank /\ Apart /\ Cut

\* Written, after the step.
Gone(t) == gw'[t] # "live" \/ t \in lost'

\* What is left to show of a step of one coroutine.
LEMMA KeptSlot ==
  ASSUME Typed, Kept, NEW s \in Slots, Others(s), lost \subseteq lost',
         \A t \in Threads : row[t] # "none" => row'[t] # "none",
         key' \subseteq Threads,
         \A t \in key' \ key :
           row'[t] # "none" /\ \A q \in Slots : q # s /\ Mints(q) => op[q].on # t,
         \A t \in key \ key' : Gone(t),
         \A t \in Threads : gw'[t] = "live" =>
           gw[t] = "live" \/ (op'[s].pc = "persist" /\ op'[s].on = t),
         op'[s].pc # "none" => row'[op'[s].on] # "none",
         op'[s].pc \in {"mint", "persist"} =>
           /\ op'[s].on \notin key'
           /\ \A q \in Slots : q # s /\ Cleans(q) => op[q].on # op'[s].on,
         op'[s].pc \in {"delete", "clear"} =>
           \A q \in Slots : q # s /\ Mints(q) => op[q].on # op'[s].on,
         op'[s].pc = "clear" => Gone(op'[s].on),
         op'[s].pc = "delete" => op'[s].on \in key' \/ Gone(op'[s].on),
         op[s].pc = "persist" => op[s].on \in key' \cup lost'
  PROVE  Kept'
<1> USE DEF Kept
<1>1. \A q \in Slots : op[q].pc # "none" => op[q].on \in Threads
  BY DEF Typed, Served
<1>2. \A q \in Slots : q # s => op'[q] = op[q]
  BY DEF Others
<1>3. Unkeyed'
  BY <1>1, <1>2 DEF Unkeyed, Mints
<1>4. Noted'
  BY <1>1, <1>2 DEF Noted
<1>5. Blank'
  BY DEF Blank
<1>6. Apart'
  <2> SUFFICES ASSUME NEW p \in Slots, NEW q \in Slots, Mints(p)', Cleans(q)'
               PROVE  op'[p].on # op'[q].on
    BY DEF Apart
  <2>1. p # q
    BY DEF Mints, Cleans
  <2>2. CASE p = s
    BY <1>2, <2>1, <2>2 DEF Mints, Cleans
  <2>3. CASE q = s
    BY <1>2, <2>1, <2>3 DEF Mints, Cleans
  <2>4. CASE p # s /\ q # s
    BY <1>2, <2>4 DEF Mints, Cleans, Apart
  <2> QED
    BY <2>2, <2>3, <2>4
<1>7. Cut'
  <2> SUFFICES ASSUME NEW q \in Slots
               PROVE  /\ op'[q].pc = "clear" => Gone(op'[q].on)
                      /\ op'[q].pc = "delete" => op'[q].on \in key' \/ Gone(op'[q].on)
    BY DEF Cut, Written, Gone
  <2>1. CASE q = s
    BY <2>1
  <2>2. CASE q # s
    <3>1. op'[q] = op[q]
      BY <1>2, <2>2
    <3>2. ASSUME Cleans(q), Written(op[q].on) PROVE Gone(op[q].on)
      <4>1. op[q].on \in Threads
        BY <1>1, <3>2 DEF Cleans
      <4>2. ~(op'[s].pc = "persist" /\ op'[s].on = op[q].on)
        BY <2>2, <3>2
      <4> QED
        BY <3>2, <4>1, <4>2 DEF Written, Gone
    <3> QED
      BY <3>1, <3>2 DEF Cut, Cleans
  <2> QED
    BY <2>1, <2>2
<1>8. KeyAccounted'
  <2> SUFFICES ASSUME NEW t \in Threads, gw'[t] = "live", t \notin key', t \notin lost'
               PROVE  \E q \in Slots : op'[q].pc = "persist" /\ op'[q].on = t
    BY DEF KeyAccounted, At
  <2>1. t \notin key
    BY DEF Gone
  <2>2. CASE gw[t] = "live"
    <3>1. PICK q \in Slots : op[q].pc = "persist" /\ op[q].on = t
      BY <2>1, <2>2 DEF KeyAccounted, At
    <3>2. q # s
      BY <3>1
    <3> QED
      BY <1>2, <3>1, <3>2
  <2>3. CASE gw[t] # "live"
    BY <2>3
  <2> QED
    BY <2>2, <2>3
<1> QED
  BY <1>3, <1>4, <1>5, <1>6, <1>7, <1>8

LEMMA KeptBegin == KeysAssumption /\ Init => Kept
  BY DEF KeysAssumption, Init, Kept, KeyAccounted, Unkeyed, Noted, Blank, Apart, Cut, Mints,
         Cleans, NoOp

LEMMA KeptSpawn ==
  ASSUME KeysAssumption, Typed, Sess, Kept, NEW s \in Slots,
         Mint(s) \/ Persist(s) \/ StartBox(s) \/ Running(s) \/ Refused(s)
  PROVE  Kept'
<1>1. op[s].pc # "none" /\ op[s].on \in Threads /\ row[op[s].on] # "none"
  BY DEF Mint, Persist, StartBox, Running, Refused, At, Typed, Served, Kept, Noted
<1>2. lost' = lost
  BY DEF Mint, Persist, StartBox, Running, Refused
<1>3. ASSUME Spawns(s)
      PROVE  \A q \in Slots : q # s /\ Mints(q) => op[q].on # op[s].on
  BY <1>3 DEF Sess, Alone, Spawns, Mints
<1>4. CASE Mint(s)
  <2>1. Goto(s, "persist") /\ "persist" \in Pcs /\ Mints(s)
    BY <1>4 DEF Mint, Pcs, At, Mints
  <2>2. Others(s) /\ op'[s].pc = "persist" /\ op'[s].on = op[s].on
    BY <2>1, Going DEF Typed, TypeOK
  <2>3. row' = row /\ key' = key /\ gw' = [gw EXCEPT ![op[s].on] = "live"] /\ op[s].pc = "mint"
    BY <1>4 DEF Mint, rowVars, At
  <2>4. op[s].on \notin key /\ \A q \in Slots : Cleans(q) => op[q].on # op[s].on
    BY <2>1 DEF Kept, Unkeyed, Apart
  <2>5. \A t \in Threads : gw'[t] = "live" => gw[t] = "live" \/ op[s].on = t
    BY <2>3 DEF Typed, TypeOK
  <2>6. key \subseteq Threads
    BY DEF Typed, TypeOK
  <2> QED
    BY <1>1, <1>2, <2>2, <2>3, <2>4, <2>5, <2>6, KeptSlot
<1>5. CASE Persist(s)
  <2>1. Goto(s, "start") /\ "start" \in Pcs /\ Spawns(s)
    BY <1>5 DEF Persist, Pcs, At, Spawns
  <2>2. Others(s) /\ op'[s].pc = "start" /\ op'[s].on = op[s].on
    BY <2>1, Going DEF Typed, TypeOK
  <2>3. row' = row /\ gw' = gw /\ key' = key \cup {op[s].on}
    BY <1>5 DEF Persist
  <2>4. \A q \in Slots : q # s /\ Mints(q) => op[q].on # op[s].on
    BY <1>3, <2>1
  <2>5. key' \subseteq Threads
    BY <1>1, <2>3 DEF Typed, TypeOK
  <2> QED
    BY <1>1, <1>2, <2>2, <2>3, <2>4, <2>5, KeptSlot
<1>6. CASE StartBox(s)
  <2>1. Goto(s, "stamp") /\ "stamp" \in Pcs
    BY <1>6 DEF StartBox, Pcs
  <2>2. Others(s) /\ op'[s].pc = "stamp" /\ op'[s].on = op[s].on
    BY <2>1, Going DEF Typed, TypeOK
  <2>3. row' = row /\ gw' = gw /\ key' = key /\ op[s].pc = "start"
    BY <1>6 DEF StartBox, rowVars, At
  <2>4. key \subseteq Threads
    BY DEF Typed, TypeOK
  <2> QED
    BY <1>1, <1>2, <2>2, <2>3, <2>4, KeptSlot
<1>7. CASE Running(s)
  <2>1. Spawns(s) /\ op[s].pc = "stamp"
    BY <1>7 DEF Running, At, Spawns
  <2>2. Others(s) /\ op'[s].pc = "none"
    BY <1>7, Ending DEF Running, Typed, TypeOK, NoOp
  <2>3. gw' = gw /\ key' = key \cup {op[s].on} /\ row' = [row EXCEPT ![op[s].on] = "running"]
    BY <1>7 DEF Running, Stamps
  <2>4. \A q \in Slots : q # s /\ Mints(q) => op[q].on # op[s].on
    BY <1>3, <2>1
  <2>5. key' \subseteq Threads /\ \A t \in Threads : row[t] # "none" => row'[t] # "none"
    BY <1>1, <2>3 DEF Typed, TypeOK
  <2>6. row'[op[s].on] # "none"
    BY <1>1, <2>5
  <2> QED
    BY <1>1, <1>2, <2>1, <2>2, <2>3, <2>4, <2>5, <2>6, KeptSlot
<1>8. CASE Refused(s)
  <2>1. Others(s) /\ op'[s].pc = "none"
    BY <1>8, Ending DEF Refused, Typed, TypeOK, NoOp
  <2>2. row' = row /\ gw' = gw /\ key' = key /\ op[s].pc = "spawn"
    BY <1>8 DEF Refused, rowVars, At
  <2>3. key \subseteq Threads
    BY DEF Typed, TypeOK
  <2> QED
    BY <1>2, <2>1, <2>2, <2>3, KeptSlot
<1> QED
  BY <1>4, <1>5, <1>6, <1>7, <1>8

LEMMA KeptRow ==
  ASSUME KeysAssumption, Typed, Sess, Kept, NEW s \in Slots, NEW t \in Threads,
         Respawn(s, t) \/ Launches(s, t)
  PROVE  Kept'
<1>1. /\ row[t] = "none" /\ row' = [row EXCEPT ![t] = "queued"]
      /\ key' = key /\ gw' = gw /\ lost' = lost
  BY DEF Respawn, Launches, Launch, Row, Stamps
<1>2. Others(s) /\ op'[s].pc = "mint" /\ op'[s].on = t
  <2>1. CASE Launches(s, t)
    <3>1. Begins(s, "mint", t, "none") /\ "mint" \in Pcs
      BY <2>1 DEF Launches, Launch, Pcs
    <3> QED
      BY <3>1, Beginning DEF Typed, TypeOK
  <2>2. CASE Respawn(s, t)
    BY <2>2 DEF Respawn, NoOp, Others, Typed, TypeOK
  <2> QED
    BY <2>1, <2>2
<1>3. op[s].pc # "persist"
  <2>1. At(s, "spawn") \/ op[s] = NoOp
    BY DEF Respawn, Launches, Launch, Begins
  <2> QED
    BY <2>1 DEF At, NoOp
<1>4. t \notin key /\ \A q \in Slots : Cleans(q) => op[q].on # t
  BY <1>1 DEF Kept, Blank, Noted, Cleans
<1>5. row'[t] # "none" /\ \A u \in Threads : row[u] # "none" => row'[u] # "none"
  BY <1>1 DEF Typed, TypeOK
<1>6. key \subseteq Threads
  BY DEF Typed, TypeOK
<1> QED
  BY <1>1, <1>2, <1>3, <1>4, <1>5, <1>6, KeptSlot

LEMMA KeptClose ==
  ASSUME KeysAssumption, Typed, Kept, NEW s \in Slots, Closing(s)
  PROVE  Kept'
<1>1. op[s].pc \in {"stop", "finish", "replace"} /\ op[s].on \in Threads /\ Goto(s, "settle")
  BY DEF Closing, StopStamp, FinishStamp, ReplaceStamp, At, Typed, Served
<1>2. Others(s) /\ op'[s].pc = "settle" /\ op'[s].on = op[s].on
  <2>1. "settle" \in Pcs
    BY DEF Pcs
  <2> QED
    BY <1>1, <2>1, Going DEF Typed, TypeOK
<1>3. key' = key /\ gw' = gw /\ lost' = lost
  BY DEF Closing, StopStamp, FinishStamp, ReplaceStamp
<1>4. \A t \in Threads : row[t] # "none" => row'[t] # "none"
  BY <1>1 DEF Closing, StopStamp, FinishStamp, ReplaceStamp, Stamps, Typed, TypeOK
<1>5. row'[op[s].on] # "none" /\ key \subseteq Threads
  BY <1>1, <1>4 DEF Kept, Noted, Typed, TypeOK
<1> QED
  BY <1>1, <1>2, <1>3, <1>4, <1>5, KeptSlot

LEMMA KeptClean ==
  ASSUME KeysAssumption, Typed, Kept, NEW s \in Slots, Cleaning(s)
  PROVE  Kept'
<1>1. /\ op[s].pc \in {"settle", "delete", "clear"} /\ op[s].on \in Threads
      /\ row[op[s].on] # "none"
  BY DEF Cleaning, Settle, Delete, Clear, At, Typed, Served, Kept, Noted
<1>2. row' = row /\ lost' = lost
  BY DEF Cleaning, Settle, Delete, Clear, rowVars
<1>3. op \in [Slots -> Op] /\ key \subseteq Threads
  BY DEF Typed, TypeOK
<1>4. ASSUME Cleans(s)
      PROVE  \A q \in Slots : q # s /\ Mints(q) => op[q].on # op[s].on
  BY <1>4 DEF Kept, Apart
<1>5. ASSUME Onward(s)
      PROVE  /\ Others(s) /\ op'[s].pc \in {"none", "spawn"}
             /\ op'[s].pc # "none" => op'[s].on = op[s].on
  BY <1>3, <1>5, GoingOn DEF NoOp
<1>6. CASE Settle(s) /\ op[s].on \in key
  <2>1. Goto(s, "delete") /\ "delete" \in Pcs /\ key' = key /\ gw' = gw
    BY <1>6 DEF Settle, Pcs
  <2>2. Others(s) /\ op'[s].pc = "delete" /\ op'[s].on = op[s].on
    BY <1>3, <2>1, Going
  <2>3. \A q \in Slots : Mints(q) => op[q].on # op[s].on
    BY <1>6 DEF Kept, Unkeyed
  <2>4. op[s].pc # "persist"
    BY <1>1
  <2> QED
    BY <1>1, <1>2, <1>3, <1>6, <2>1, <2>2, <2>3, <2>4, KeptSlot
<1>7. CASE Settle(s) /\ op[s].on \notin key
  <2>1. Onward(s) /\ key' = key /\ gw' = gw
    BY <1>7 DEF Settle
  <2>2. Others(s) /\ op'[s].pc \in {"none", "spawn"} /\ (op'[s].pc # "none" => op'[s].on = op[s].on)
    BY <1>5, <2>1
  <2>3. op[s].pc # "persist"
    BY <1>1
  <2> QED
    BY <1>1, <1>2, <1>3, <2>1, <2>2, <2>3, KeptSlot
<1>8. CASE Delete(s)
  <2>1. Goto(s, "clear") /\ "clear" \in Pcs /\ key' = key /\ Cleans(s) /\ op[s].pc = "delete"
    BY <1>8 DEF Delete, Pcs, Cleans, At, rowVars
  <2>2. Others(s) /\ op'[s].pc = "clear" /\ op'[s].on = op[s].on
    BY <1>3, <2>1, Going
  <2>3. \A t \in Threads : gw'[t] = "live" => gw[t] = "live"
    BY <1>8 DEF Delete, Typed, TypeOK
  <2>4. Gone(op[s].on)
    <3>1. CASE op[s].on \in key
      BY <1>1, <1>8, <3>1 DEF Delete, Gone, Typed, TypeOK
    <3>2. CASE op[s].on \notin key
      BY <1>2, <1>8, <2>1, <3>2 DEF Delete, Gone, Written, Kept, Cut
    <3> QED
      BY <3>1, <3>2
  <2>5. \A q \in Slots : q # s /\ Mints(q) => op[q].on # op[s].on
    BY <1>4, <2>1
  <2> QED
    BY <1>1, <1>2, <1>3, <2>1, <2>2, <2>3, <2>4, <2>5, KeptSlot
<1>9. CASE Clear(s)
  <2>1. Onward(s) /\ key' = key \ {op[s].on} /\ gw' = gw /\ op[s].pc = "clear"
    BY <1>9 DEF Clear, At
  <2>2. Others(s) /\ op'[s].pc \in {"none", "spawn"} /\ (op'[s].pc # "none" => op'[s].on = op[s].on)
    BY <1>5, <2>1
  <2>3. Gone(op[s].on)
    BY <1>2, <2>1 DEF Gone, Written, Kept, Cut
  <2> QED
    BY <1>1, <1>2, <1>3, <2>1, <2>2, <2>3, KeptSlot
<1> QED
  BY <1>6, <1>7, <1>8, <1>9 DEF Cleaning

LEMMA KeptFail ==
  ASSUME KeysAssumption, Typed, Sess, Kept, NEW s \in Slots, Failing(s)
  PROVE  Kept'
<1>1. op[s].pc # "none" /\ op[s].on \in Threads /\ row[op[s].on] # "none"
  BY DEF Failing, SpawnFails, StampUnverified, ReplaceAborts, SettleFails, DeleteFails, At,
         Typed, Served, Kept, Noted
<1>2. key' = key /\ gw' = gw /\ lost' = lost \cup {op[s].on}
  BY DEF Failing, SpawnFails, StampUnverified, ReplaceAborts, SettleFails, DeleteFails, Fault,
         rowVars
<1>3. \A t \in Threads : row[t] # "none" => row'[t] # "none"
  BY <1>1 DEF Failing, SpawnFails, StampUnverified, ReplaceAborts, SettleFails, DeleteFails,
              Stamps, rowVars, Typed, TypeOK
<1>4. op \in [Slots -> Op] /\ key \subseteq Threads /\ Gone(op[s].on)
  BY <1>2 DEF Typed, TypeOK, Gone
<1>5. row'[op[s].on] # "none"
  BY <1>1, <1>3
<1>6. CASE SpawnFails(s)
  <2>1. Others(s) /\ op'[s].pc = "settle" /\ op'[s].on = op[s].on
    BY <1>4, <1>6 DEF SpawnFails, Others, Op
  <2> QED
    BY <1>2, <1>3, <1>4, <1>5, <2>1, KeptSlot
<1>7. CASE ReplaceAborts(s)
  <2>1. Others(s) /\ op'[s].pc = "none"
    BY <1>4, <1>7, Ending DEF ReplaceAborts, NoOp
  <2> QED
    BY <1>2, <1>3, <1>4, <2>1, KeptSlot
<1>8. CASE StampUnverified(s)
  <2>1. Goto(s, "settle") /\ "settle" \in Pcs
    BY <1>8 DEF StampUnverified, Pcs
  <2>2. Others(s) /\ op'[s].pc = "settle" /\ op'[s].on = op[s].on
    BY <1>4, <2>1, Going
  <2> QED
    BY <1>2, <1>3, <1>4, <1>5, <2>2, KeptSlot
<1>9. CASE SettleFails(s)
  <2>1. Goto(s, "delete") /\ "delete" \in Pcs /\ op[s].on \in key
    BY <1>9 DEF SettleFails, Pcs
  <2>2. Others(s) /\ op'[s].pc = "delete" /\ op'[s].on = op[s].on
    BY <1>4, <2>1, Going
  <2>3. \A q \in Slots : Mints(q) => op[q].on # op[s].on
    BY <2>1 DEF Kept, Unkeyed
  <2> QED
    BY <1>2, <1>3, <1>4, <1>5, <2>1, <2>2, <2>3, KeptSlot
<1>10. CASE DeleteFails(s)
  <2>1. Goto(s, "clear") /\ "clear" \in Pcs /\ Cleans(s)
    BY <1>10 DEF DeleteFails, Pcs, At, Cleans
  <2>2. Others(s) /\ op'[s].pc = "clear" /\ op'[s].on = op[s].on
    BY <1>4, <2>1, Going
  <2>3. \A q \in Slots : q # s /\ Mints(q) => op[q].on # op[s].on
    BY <2>1 DEF Kept, Apart
  <2> QED
    BY <1>2, <1>3, <1>4, <1>5, <2>2, <2>3, KeptSlot
<1> QED
  BY <1>6, <1>7, <1>8, <1>9, <1>10 DEF Failing

LEMMA KeptAsk ==
  ASSUME KeysAssumption, Typed, Kept, NEW s \in Slots, NEW t \in Threads,
         Stop(s, t) \/ Finish(s, t) \/ Replace(s, t) \/ Reap(s, t) \/ Sweep(s, t)
  PROVE  Kept'
<1>1. \E w \in {"stop", "finish", "replace", "settle"}, next \in {"none", "spawn"} :
        w \in Pcs /\ Begins(s, w, t, next)
  BY DEF Stop, Finish, Replace, Reap, Sweep, Asks, Pcs
<1>2. /\ Others(s) /\ op'[s].on = t /\ op[s].pc = "none"
      /\ op'[s].pc \in {"stop", "finish", "replace", "settle"}
  BY <1>1, Beginning DEF Typed, TypeOK, NoOp
<1>3. key' = key /\ gw' = gw /\ lost' = lost /\ key \subseteq Threads
  BY DEF Stop, Finish, Replace, Reap, Sweep, Asks, rowVars, Typed, TypeOK
<1>4. row[t] # "none"
  BY DEF Stop, Finish, Replace, Reap, Sweep, Open, ActiveRows, ClosedRows
<1>5. row'[t] # "none" /\ \A u \in Threads : row[u] # "none" => row'[u] # "none"
  BY <1>4 DEF Stop, Finish, Replace, Reap, Sweep, Asks, Stamps, rowVars, Typed, TypeOK
<1> QED
  BY <1>2, <1>3, <1>5, KeptSlot

LEMMA KeptRest ==
  ASSUME KeysAssumption, Typed, Kept,
         \/ \E t \in Threads : Spend(t) \/ Vanishes(t) \/ Expires(t)
         \/ \E t \in Threads, status \in Words : WorkerEnds(t, status)
         \/ SettleRun \/ UNCHANGED vars
  PROVE  Kept'
<1>1. op' = op /\ key' = key /\ lost \subseteq lost'
  BY DEF Spend, Vanishes, Expires, WorkerEnds, SettleRun, vars, rowVars, Fault
<1>2. \A t \in Threads : gw'[t] = "live" => gw[t] = "live"
  BY DEF Spend, Vanishes, Expires, WorkerEnds, SettleRun, vars, Typed, TypeOK
<1>3. \A t \in Threads : row[t] # "none" => row'[t] # "none"
  BY DEF Spend, Vanishes, Expires, WorkerEnds, Stamps, SettleRun, vars, rowVars, Typed, TypeOK,
         KeysAssumption
<1>4. \A s \in Slots : op[s].pc # "none" => op[s].on \in Threads
  BY DEF Typed, Served
<1>5. KeyAccounted'
  BY <1>1, <1>2 DEF Kept, KeyAccounted, At
<1>6. Unkeyed' /\ Apart'
  BY <1>1 DEF Kept, Unkeyed, Apart, Mints, Cleans
<1>7. Noted' /\ Blank'
  BY <1>1, <1>3, <1>4 DEF Kept, Noted, Blank, Typed, TypeOK
<1>8. Cut'
  BY <1>1, <1>2, <1>4 DEF Kept, Cut, Written
<1> QED
  BY <1>5, <1>6, <1>7, <1>8 DEF Kept

LEMMA KeptCrash ==
  ASSUME KeysAssumption, Typed, Kept, NEW swept \in BOOLEAN, Crash(swept)
  PROVE  Kept'
<1>1. \A s \in Slots : op'[s].pc = "none"
  BY DEF Crash, NoOp
<1>2. key' = key /\ gw' = gw /\ \A t \in Threads : row[t] # "none" => row'[t] # "none"
  BY DEF Crash
<1>3. KeyAccounted'
  <2> SUFFICES ASSUME NEW t \in Threads, gw[t] = "live", t \notin key
               PROVE  t \in lost'
    BY <1>2 DEF KeyAccounted
  <2>1. t \in lost \/ \E s \in Slots : At(s, "persist") /\ op[s].on = t
    BY DEF Kept, KeyAccounted
  <2> QED
    BY <2>1 DEF Crash
<1>4. Blank'
  BY <1>2 DEF Kept, Blank, Typed, TypeOK
<1> QED
  BY <1>1, <1>3, <1>4 DEF Kept, Unkeyed, Noted, Apart, Cut, Mints, Cleans

\* Every step.
LEMMA KeptStep == KeysAssumption /\ Typed /\ Sess /\ Kept /\ [Next]_vars => Kept'
<1> SUFFICES ASSUME KeysAssumption, Typed, Sess, Kept, [Next]_vars PROVE Kept'
  OBVIOUS
<1>1. ASSUME NEW s \in Slots, Spawning(s) PROVE Kept'
  BY <1>1, KeptSpawn, KeptRow DEF Spawning
<1>2. ASSUME NEW s \in Slots, Closing(s) \/ Cleaning(s) \/ Failing(s) PROVE Kept'
  BY <1>2, KeptClose, KeptClean, KeptFail
<1>3. ASSUME NEW s \in Slots, NEW t \in Threads,
             \/ Launches(s, t) \/ Stop(s, t) \/ Finish(s, t) \/ Replace(s, t)
             \/ Reap(s, t) \/ Sweep(s, t)
      PROVE  Kept'
  BY <1>3, KeptRow, KeptAsk
<1>4. CASE \/ \E t \in Threads : Spend(t) \/ Vanishes(t) \/ Expires(t)
           \/ \E t \in Threads, status \in Words : WorkerEnds(t, status)
           \/ SettleRun \/ UNCHANGED vars
  BY <1>4, KeptRest
<1>5. ASSUME NEW swept \in BOOLEAN, Crash(swept) PROVE Kept'
  BY <1>5, KeptCrash
<1> QED
  BY <1>1, <1>2, <1>3, <1>4, <1>5 DEF Next, Launches

\* A key that lives at the gateway is in the row, where the sweep finds it, unless
\* its mint has just been answered or a fault has left it to its TTL.
THEOREM Accounted == ASSUME KeysAssumption PROVE Spec => []KeyAccounted
<1>1. Init => Typed /\ Sess /\ Kept
  BY TypesBegin, SessBegin, KeptBegin
<1>2. Typed /\ Sess /\ Kept /\ [Next]_vars => Typed' /\ Sess' /\ Kept'
  BY SessStep, KeptStep
<1>3. Kept => KeyAccounted
  BY DEF Kept
<1> QED
  BY <1>1, <1>2, <1>3, PTL DEF Spec

-----------------------------------------------------------------------------
(* Sums over the lanes, by induction on the sets they range over.          *)

\* The terms f[x] of a sum, for x in S.
Total(f, S) == MapThenSumSet(LAMBDA x : f[x], S)

\* Induction, over a set of numbers rather than a formula.
LEMMA Inductive ==
  ASSUME NEW A, 0 \in A, \A n \in A \cap Nat : n + 1 \in A
  PROVE  Nat \subseteq A
<1> SUFFICES ASSUME Nat \ A # {} PROVE FALSE
  OBVIOUS
<1> DEFINE B == Nat \ A
<1>1. B \in SUBSET Nat /\ B # {}
  OBVIOUS
<1>2. \A n \in B : n - 1 \in B
  OBVIOUS
<1> HIDE DEF B
<1>3. \E n \in B : \A k \in B : <<k, n>> \notin OpToRel(<, Nat)
  BY <1>1, NatLessThanWellFounded, WFMin, Zenon
<1>4. \A x, y \in Nat : x < y => <<x, y>> \in OpToRel(<, Nat)
  BY DEF OpToRel
<1>5. PICK n \in B : \A k \in B : ~(k < n)
  BY <1>1, <1>3, <1>4, Zenon
<1> QED
  BY <1>1, <1>2, <1>5

First(s) == CHOOSE x \in s : TRUE

\* g sums f over the subsets of S of up to n elements.
Small(S, n) == {s \in SUBSET S : Cardinality(s) <= n}
Adds(f, g, s) == IF s = {} THEN 0 ELSE f[First(s)] + g[s \ {First(s)}]
Sums(f, S, n, g) == g = [s \in Small(S, n) |-> Adds(f, g, s)]

LEMMA Smaller ==
  ASSUME NEW S, IsFiniteSet(S), S # {}
  PROVE  /\ First(S) \in S /\ IsFiniteSet(S \ {First(S)})
         /\ Cardinality(S) \in Nat \ {0}
         /\ Cardinality(S \ {First(S)}) = Cardinality(S) - 1
<1>1. First(S) \in S
  BY DEF First
<1> HIDE DEF First
<1> QED
  BY <1>1, FS_RemoveElement, FS_CardinalityType, FS_EmptySet

LEMMA SumsExist ==
  ASSUME NEW f, NEW S, IsFiniteSet(S)
  PROVE  \A n \in Nat : \E g : Sums(f, S, n, g)
<1> DEFINE A == {n \in Nat : \E g : Sums(f, S, n, g)}
<1>1. 0 \in A
  <2> DEFINE g == [s \in Small(S, 0) |-> 0]
  <2>1. \A s \in Small(S, 0) : s = {}
    <3> SUFFICES ASSUME NEW s \in Small(S, 0) PROVE s = {}
      OBVIOUS
    <3>1. IsFiniteSet(s) /\ Cardinality(s) <= 0
      BY FS_Subset DEF Small
    <3>2. Cardinality(s) = 0
      BY <3>1, FS_CardinalityType
    <3> QED
      BY <3>1, <3>2, FS_EmptySet
  <2>2. \A s \in Small(S, 0) : Adds(f, g, s) = 0
    BY <2>1 DEF Adds
  <2>3. Sums(f, S, 0, g)
    BY <2>2 DEF Sums
  <2> QED
    BY <2>3
<1>2. ASSUME NEW n \in A \cap Nat PROVE n + 1 \in A
  <2>1. PICK h : Sums(f, S, n, h)
    OBVIOUS
  <2> DEFINE g == [s \in Small(S, n + 1) |-> Adds(f, h, s)]
  <2>2. ASSUME NEW s \in Small(S, n + 1), s # {}
        PROVE  s \ {First(s)} \in Small(S, n) /\ s \ {First(s)} \in Small(S, n + 1)
    <3>1. IsFiniteSet(s) /\ s \subseteq S /\ Cardinality(s) <= n + 1
      BY FS_Subset DEF Small
    <3>2. /\ s \ {First(s)} \subseteq S /\ Cardinality(s) \in Nat
          /\ Cardinality(s \ {First(s)}) = Cardinality(s) - 1
      BY <2>2, <3>1, Smaller
    <3> QED
      BY <3>1, <3>2 DEF Small
  <2>3. \A s \in Small(S, n) : h[s] = Adds(f, h, s)
    BY <2>1, Zenon DEF Sums
  <2>4. ASSUME NEW s \in Small(S, n + 1) PROVE Adds(f, h, s) = Adds(f, g, s)
    <3>1. CASE s = {}
      BY <3>1 DEF Adds
    <3>2. CASE s # {}
      <4>1. h[s \ {First(s)}] = g[s \ {First(s)}]
        BY <2>2, <2>3, <3>2
      <4> QED
        BY <3>2, <4>1 DEF Adds
    <3> QED
      BY <3>1, <3>2
  <2>5. Sums(f, S, n + 1, g)
    BY <2>4 DEF Sums
  <2> QED
    BY <2>5
<1> HIDE DEF A
<1>3. Nat \subseteq A
  BY <1>1, <1>2, Inductive
<1> QED
  BY <1>3 DEF A

\* The equation of a sum.
LEMMA TotalSums ==
  ASSUME NEW f, NEW S, IsFiniteSet(S)
  PROVE  \E g : /\ Total(f, S) = g[S]
                /\ g = [s \in SUBSET S |-> Adds(f, g, s)]
<1>1. Small(S, Cardinality(S)) = SUBSET S /\ Cardinality(S) \in Nat
  BY FS_Subset, FS_CardinalityType DEF Small
<1>2. \E g : g = [s \in SUBSET S |-> Adds(f, g, s)]
  <2>1. \E g : Sums(f, S, Cardinality(S), g)
    BY <1>1, SumsExist
  <2> QED
    BY <1>1, <2>1 DEF Sums
<1> DEFINE it == CHOOSE g : g = [s \in SUBSET S |-> Adds(f, g, s)]
<1>3. it = [s \in SUBSET S |-> Adds(f, it, s)]
  BY <1>2
<1>4. Total(f, S) = it[S]
  BY DEF Total, MapThenSumSet, MapThenFoldSet, Adds, First
<1> QED
  BY <1>3, <1>4

LEMMA TotalNone == ASSUME NEW f PROVE Total(f, {}) = 0
<1>1. PICK g : Total(f, {}) = g[{}] /\ g = [s \in SUBSET {} |-> Adds(f, g, s)]
  BY TotalSums, FS_EmptySet
<1>2. g[{}] = Adds(f, g, {})
  BY <1>1
<1> QED
  BY <1>1, <1>2 DEF Adds

LEMMA TotalFirst ==
  ASSUME NEW f, NEW S, IsFiniteSet(S), S # {}
  PROVE  Total(f, S) = f[First(S)] + Total(f, S \ {First(S)})
<1> DEFINE T == S \ {First(S)}
<1>1. First(S) \in S /\ IsFiniteSet(T)
  BY Smaller
<1> HIDE DEF T
<1>2. PICK g : Total(f, S) = g[S] /\ g = [s \in SUBSET S |-> Adds(f, g, s)]
  BY TotalSums
<1>3. PICK h : Total(f, T) = h[T] /\ h = [s \in SUBSET T |-> Adds(f, h, s)]
  BY <1>1, TotalSums
<1>4. \A s \in SUBSET S : g[s] = Adds(f, g, s)
  BY <1>2, Zenon
<1>5. \A s \in SUBSET T : h[s] = Adds(f, h, s)
  BY <1>3, Zenon
<1>6. T \subseteq S
  BY DEF T
<1> DEFINE A == {n \in Nat : \A s \in SUBSET T : Cardinality(s) <= n => g[s] = h[s]}
<1>7. ASSUME NEW n \in Nat, NEW s \in SUBSET T, Cardinality(s) <= n, n = 0 \/ n - 1 \in A
      PROVE  g[s] = h[s]
  <2>1. CASE s = {}
    BY <1>4, <1>5, <1>6, <2>1 DEF Adds
  <2>2. CASE s # {}
    <3>1. IsFiniteSet(s)
      BY <1>1, FS_Subset
    <3>2. /\ s \ {First(s)} \in SUBSET T /\ Cardinality(s) \in Nat \ {0}
          /\ Cardinality(s \ {First(s)}) = Cardinality(s) - 1
      BY <2>2, <3>1, Smaller
    <3>3. Cardinality(s \ {First(s)}) <= n - 1 /\ n # 0
      BY <1>7, <3>2
    <3>4. g[s \ {First(s)}] = h[s \ {First(s)}]
      BY <1>7, <3>2, <3>3
    <3> QED
      BY <1>4, <1>5, <1>6, <2>2, <3>4 DEF Adds
  <2> QED
    BY <2>1, <2>2
<1>8. 0 \in A /\ \A n \in A \cap Nat : n + 1 \in A
  <2>1. 0 \in A
    BY <1>7
  <2>2. ASSUME NEW n \in A \cap Nat PROVE n + 1 \in A
    <3>1. n + 1 \in Nat /\ (n + 1) - 1 \in A
      OBVIOUS
    <3> QED
      BY <1>7, <3>1
  <2> QED
    BY <2>1, <2>2
<1>9. \A s \in SUBSET T : g[s] = h[s]
  <2> HIDE DEF A
  <2>1. Nat \subseteq A
    BY <1>8, Inductive
  <2>2. Cardinality(T) \in Nat /\ \A s \in SUBSET T : Cardinality(s) <= Cardinality(T)
    BY <1>1, FS_Subset, FS_CardinalityType
  <2> QED
    BY <2>1, <2>2 DEF A
<1> QED
  BY <1>1, <1>2, <1>3, <1>4, <1>6, <1>9 DEF Adds, T

\* What is left of S once the sum of any smaller set is known.
LEMMA TotalInductive ==
  ASSUME NEW P, NEW S, IsFiniteSet(S), {} \in P,
         \A s \in SUBSET S : s # {} /\ (\A x \in s : s \ {x} \in P) => s \in P
  PROVE  S \in P
<1> DEFINE A == {n \in Nat : \A s \in SUBSET S : Cardinality(s) <= n => s \in P}
<1>1. \A s \in SUBSET S : IsFiniteSet(s) /\ Cardinality(s) \in Nat
  BY FS_Subset, FS_CardinalityType
<1>2. 0 \in A
  <2> SUFFICES ASSUME NEW s \in SUBSET S, Cardinality(s) <= 0 PROVE s \in P
    OBVIOUS
  <2>1. Cardinality(s) = 0
    BY <1>1
  <2> QED
    BY <1>1, <2>1, FS_EmptySet
<1>3. ASSUME NEW n \in A \cap Nat PROVE n + 1 \in A
  <2> SUFFICES ASSUME NEW s \in SUBSET S, Cardinality(s) <= n + 1 PROVE s \in P
    <3>1. n + 1 \in Nat
      OBVIOUS
    <3> QED
      BY <3>1
  <2>1. ASSUME NEW x \in s PROVE s \ {x} \in P
    <3>1. Cardinality(s \ {x}) = Cardinality(s) - 1 /\ s \ {x} \in SUBSET S
      BY <1>1, FS_RemoveElement
    <3> QED
      BY <1>1, <3>1
  <2> QED
    BY <2>1
<1> HIDE DEF A
<1>4. Nat \subseteq A
  BY <1>2, <1>3, Inductive
<1> QED
  BY <1>1, <1>4 DEF A

\* A sum of numbers is a number.
LEMMA TotalType ==
  ASSUME NEW S, IsFiniteSet(S), NEW f, \A x \in S : f[x] \in Nat
  PROVE  Total(f, S) \in Nat
<1> DEFINE P == {s \in SUBSET S : Total(f, s) \in Nat}
<1>1. {} \in P
  BY TotalNone
<1>2. ASSUME NEW s \in SUBSET S, s # {}, \A x \in s : s \ {x} \in P
      PROVE  s \in P
  <2>1. IsFiniteSet(s)
    BY FS_Subset
  <2>2. Total(f, s) = f[First(s)] + Total(f, s \ {First(s)}) /\ First(s) \in s
    BY <1>2, <2>1, TotalFirst, Smaller
  <2> QED
    BY <1>2, <2>2
<1> HIDE DEF P
<1>3. S \in P
  BY <1>1, <1>2, TotalInductive
<1> QED
  BY <1>3 DEF P

\* Any element may be taken out first.
LEMMA TotalTake ==
  ASSUME NEW S, IsFiniteSet(S), NEW f, \A x \in S : f[x] \in Nat, NEW x \in S
  PROVE  Total(f, S) = f[x] + Total(f, S \ {x})
<1> DEFINE P == {s \in SUBSET S : \A y \in s : Total(f, s) = f[y] + Total(f, s \ {y})}
<1>1. {} \in P
  OBVIOUS
<1>2. ASSUME NEW s \in SUBSET S, s # {}, \A y \in s : s \ {y} \in P
      PROVE  s \in P
  <2> SUFFICES ASSUME NEW y \in s, y # First(s)
               PROVE  Total(f, s) = f[y] + Total(f, s \ {y})
    <3>1. IsFiniteSet(s)
      BY FS_Subset
    <3> QED
      BY <1>2, <3>1, TotalFirst
  <2> DEFINE a == First(s)
             rest == (s \ {a}) \ {y}
  <2>1. IsFiniteSet(s) /\ IsFiniteSet(rest) /\ a \in s
    BY <1>2, FS_Subset, Smaller
  <2>2. Total(f, s) = f[a] + Total(f, s \ {a})
    BY <1>2, <2>1, TotalFirst
  <2>3. Total(f, s \ {a}) = f[y] + Total(f, rest)
    BY <1>2, <2>1
  <2>4. Total(f, s \ {y}) = f[a] + Total(f, rest)
    <3>1. rest = (s \ {y}) \ {a} /\ a \in s \ {y}
      BY <2>1
    <3> QED
      BY <1>2, <2>1, <3>1
  <2>5. Total(f, rest) \in Nat /\ f[a] \in Nat /\ f[y] \in Nat
    <3>1. \A z \in rest : f[z] \in Nat
      OBVIOUS
    <3> QED
      BY <2>1, <3>1, TotalType
  <2> QED
    BY <2>2, <2>3, <2>4, <2>5
<1> HIDE DEF P
<1>3. S \in P
  BY <1>1, <1>2, TotalInductive
<1> QED
  BY <1>3 DEF P

\* A sum grows with its terms.
LEMMA TotalGrows ==
  ASSUME NEW S, IsFiniteSet(S), NEW f, NEW g,
         \A x \in S : f[x] \in Nat /\ g[x] \in Nat /\ f[x] <= g[x]
  PROVE  Total(f, S) <= Total(g, S)
<1> DEFINE P == {s \in SUBSET S : Total(f, s) <= Total(g, s)}
<1>1. {} \in P
  BY TotalNone
<1>2. ASSUME NEW s \in SUBSET S, s # {}, \A x \in s : s \ {x} \in P
      PROVE  s \in P
  <2>1. IsFiniteSet(s) /\ IsFiniteSet(s \ {First(s)}) /\ First(s) \in s
    BY <1>2, FS_Subset, Smaller
  <2>2. /\ Total(f, s) = f[First(s)] + Total(f, s \ {First(s)})
        /\ Total(g, s) = g[First(s)] + Total(g, s \ {First(s)})
    BY <1>2, <2>1, TotalFirst
  <2>3. Total(f, s \ {First(s)}) \in Nat /\ Total(g, s \ {First(s)}) \in Nat
    <3>1. \A x \in s \ {First(s)} : f[x] \in Nat /\ g[x] \in Nat
      OBVIOUS
    <3> QED
      BY <2>1, <3>1, TotalType
  <2>4. Total(f, s \ {First(s)}) <= Total(g, s \ {First(s)})
    BY <1>2, <2>1
  <2>5. f[First(s)] \in Nat /\ g[First(s)] \in Nat /\ f[First(s)] <= g[First(s)]
    BY <2>1
  <2> HIDE DEF P
  <2>6. Total(f, s) <= Total(g, s)
    BY <2>2, <2>3, <2>4, <2>5
  <2> QED
    BY <2>6 DEF P
<1> HIDE DEF P
<1>3. S \in P
  BY <1>1, <1>2, TotalInductive
<1> QED
  BY <1>3 DEF P

-----------------------------------------------------------------------------
(* Bills.                                                                  *)

\* A coroutine that has closed a lane; and one that closes it, or has.
Leaves(s) == op[s].pc \in {"settle", "delete", "clear", "spawn"}
Closes(s) == op[s].pc \in {"stop", "finish", "replace"} \/ Leaves(s)

\* The backend knows the container of the lane, or is about to.
OnBooks(t) == t \in named \/ \E s \in Slots : Spawns(s) /\ op[s].on = t
Booked(t) == t \in named' \/ \E s \in Slots : Spawns(s)' /\ op'[s].on = t

\* No fault and no lane closed unseen.
Rightly == lost = {} /\ blind = {}

\* What is no row yet has spent nothing.
Unused ==
  \A t \in Threads : row[t] = "none" =>
    /\ budget[t] = 0 /\ cost[t] = 0 /\ spent[t] = 0 /\ prior[t] = NoThread
    /\ via[t] = "none" /\ box[t] = "none" /\ gw[t] = "none"

\* The gateway stops a lane at its budget.
Within == \A t \in Threads : spent[t] <= budget[t]

\* A lane that waits for its container is queued,
Waiting == \A s \in Slots : Awaits(s) => row[op[s].on] = "queued" /\ box[op[s].on] = "none"

\* and nobody closes it meanwhile.
Untouched == \A s, q \in Slots : Awaits(s) /\ Closes(q) => op[s].on # op[q].on

\* A closed lane has no container,
Stopped == \A t \in Threads : row[t] \in ClosedRows /\ OnBooks(t) => box[t] # "up"

\* nor has one that is being cleaned up, and then its bill is settled,
Over ==
  \A s \in Slots : Leaves(s) /\ OnBooks(op[s].on) =>
    /\ box[op[s].on] # "up"
    /\ op[s].pc # "settle" => cost[op[s].on] = spent[op[s].on]

\* as it is wherever the key is gone.
Books == \A t \in Threads : OnBooks(t) /\ gw[t] # "live" => cost[t] = spent[t]

\* Who closes a lane has a container to wait for.
Sighted == \A s \in Slots : op[s].pc \in {"stop", "finish", "replace"} => op[s].id

Square == Waiting /\ Untouched /\ Stopped /\ Over /\ Books /\ Sighted

Ledger == Unused /\ Within /\ (Rightly => Square)

LEMMA LedgerBegin == KeysAssumption /\ Init => Ledger
  BY DEF KeysAssumption, Init, Ledger, Unused, Within, Square, Waiting, Untouched, Stopped,
         Over, Books, Sighted, Awaits, Leaves, Closes, OnBooks, Spawns, NoOp, ClosedRows

\* What is left to show of a step of one coroutine.
LEMMA SquareSlot ==
  ASSUME Typed, Sess, Kept, Unused, Square, NEW s \in Slots, Others(s), spent' = spent,
         \A t \in Threads : Booked(t) => OnBooks(t) \/ row[t] = "none",
         \A t \in Threads : box'[t] = "up" =>
           box[t] = "up" \/ (op[s].pc = "start" /\ t = op[s].on),
         \A q \in Slots : q # s /\ Awaits(q) =>
           row'[op[q].on] = row[op[q].on] /\ box'[op[q].on] = box[op[q].on],
         \A t \in Threads : cost'[t] \in {cost[t], spent[t]},
         \A t \in Threads : OnBooks(t) /\ gw'[t] # "live" => gw[t] # "live" \/ cost'[t] = spent[t],
         \A t \in Threads : row'[t] \in ClosedRows => row[t] \in ClosedRows \/ box'[t] # "up",
         Awaits(s)' =>
           /\ row'[op'[s].on] = "queued" /\ box'[op'[s].on] = "none"
           /\ \A q \in Slots : q # s /\ Closes(q) => op[q].on # op'[s].on,
         Closes(s)' => \A q \in Slots : q # s /\ Awaits(q) => op[q].on # op'[s].on,
         Leaves(s)' /\ Booked(op'[s].on) =>
           /\ box'[op'[s].on] # "up"
           /\ op'[s].pc # "settle" => cost'[op'[s].on] = spent[op'[s].on],
         op'[s].pc \in {"stop", "finish", "replace"} => op'[s].id
  PROVE  Square'
<1> USE DEF Square
<1>1. \A q \in Slots : q # s => op'[q] = op[q]
  BY DEF Others
<1>2. \A q \in Slots : op[q].pc # "none" => op[q].on \in Threads
  BY DEF Typed, Served
<1>3. \A t \in Threads : row[t] = "none" =>
        box[t] = "none" /\ cost'[t] = spent[t] /\ ~(op[s].pc = "start" /\ t = op[s].on)
  BY DEF Unused, Waiting, Awaits
<1>4. \A q \in Slots : Awaits(q) \/ Closes(q) => op[q].on \in Threads
  BY <1>2 DEF Awaits, Closes, Leaves
<1>5. Waiting'
  BY <1>1 DEF Waiting, Awaits
<1>6. Untouched'
  <2> SUFFICES ASSUME NEW p \in Slots, NEW q \in Slots, Awaits(p)', Closes(q)'
               PROVE  op'[p].on # op'[q].on
    BY DEF Untouched
  <2>1. p # q
    BY DEF Awaits, Closes, Leaves
  <2>2. p # s => op'[p] = op[p] /\ Awaits(p)
    BY <1>1 DEF Awaits
  <2>3. q # s => op'[q] = op[q] /\ Closes(q)
    BY <1>1 DEF Closes, Leaves
  <2> QED
    BY <2>1, <2>2, <2>3 DEF Untouched
<1>7. Stopped'
  <2> SUFFICES ASSUME NEW t \in Threads, row'[t] \in ClosedRows, Booked(t), box'[t] = "up"
               PROVE  FALSE
    BY DEF Stopped, OnBooks, Booked
  <2>1. row[t] \in ClosedRows /\ OnBooks(t)
    BY DEF ClosedRows
  <2>2. op[s].pc = "start" /\ t = op[s].on
    BY <2>1 DEF Stopped
  <2> QED
    BY <2>1, <2>2 DEF Waiting, Awaits, ClosedRows
<1>8. Over'
  <2> SUFFICES ASSUME NEW q \in Slots, Leaves(q)', Booked(op'[q].on), q # s
               PROVE  /\ box'[op'[q].on] # "up"
                      /\ op'[q].pc # "settle" => cost'[op'[q].on] = spent[op'[q].on]
    BY DEF Over, OnBooks, Booked
  <2>1. op'[q] = op[q] /\ Leaves(q) /\ Closes(q) /\ op[q].on \in Threads
    BY <1>1, <1>4 DEF Leaves, Closes
  <2>2. OnBooks(op[q].on) \/ row[op[q].on] = "none"
    BY <2>1
  <2>3. op[s].pc = "start" => op[q].on # op[s].on
    BY <2>1 DEF Untouched, Awaits
  <2> QED
    BY <1>3, <2>1, <2>2, <2>3 DEF Over
<1>9. Books'
  <2> SUFFICES ASSUME NEW t \in Threads, Booked(t), gw'[t] # "live"
               PROVE  cost'[t] = spent[t]
    BY DEF Books, OnBooks, Booked
  <2>1. CASE OnBooks(t)
    BY <2>1 DEF Books
  <2>2. CASE row[t] = "none"
    BY <1>3, <2>2
  <2> QED
    BY <2>1, <2>2
<1>10. Sighted'
  BY <1>1 DEF Sighted
<1> QED
  BY <1>5, <1>6, <1>7, <1>8, <1>9, <1>10

\* Only a row changes what belongs to it, and a budget is set once.
LEMMA PlainStays ==
  ASSUME Typed, Unused, Within,
         \A t \in Threads : row'[t] = "none" =>
           /\ row[t] = "none" /\ budget'[t] = budget[t] /\ cost'[t] = cost[t]
           /\ spent'[t] = spent[t] /\ prior'[t] = prior[t] /\ via'[t] = via[t]
        /\ box'[t] = box[t] /\ gw'[t] = gw[t],
         \A t \in Threads : spent'[t] <= budget'[t]
  PROVE  Unused' /\ Within'
<1>1. Unused'
  BY DEF Unused
<1>2. Within'
  BY DEF Within
<1> QED
  BY <1>1, <1>2

LEMMA PlainSlot ==
  ASSUME KeysAssumption, Typed, Kept, Unused, Within, NEW s \in Slots,
         \/ Mint(s) \/ Persist(s) \/ StartBox(s) \/ Running(s) \/ Refused(s)
         \/ Closing(s) \/ Cleaning(s) \/ Failing(s)
  PROVE  Unused' /\ Within'
<1>1. op[s].pc # "none" /\ op[s].on \in Threads /\ row[op[s].on] # "none"
  BY DEF Mint, Persist, StartBox, Running, Refused, Closing, StopStamp, FinishStamp, ReplaceStamp,
         Cleaning, Settle, Delete, Clear, Failing, SpawnFails, StampUnverified, ReplaceAborts,
         SettleFails, DeleteFails, At, Typed, Served, Kept, Noted
<1>2. budget' = budget /\ spent' = spent /\ prior' = prior /\ via' = via
  BY DEF Mint, Persist, StartBox, Running, Refused, Closing, StopStamp, FinishStamp, ReplaceStamp,
         Cleaning, Settle, Delete, Clear, Failing, SpawnFails, StampUnverified, ReplaceAborts,
         SettleFails, DeleteFails, rowVars, boxVars
<1>3. row' = row \/ \E w \in ClosedRows \cup {"running"} : Stamps(op[s].on, w)
  BY DEF Mint, Persist, StartBox, Running, Refused, Closing, StopStamp, FinishStamp, ReplaceStamp,
         Cleaning, Settle, Delete, Clear, Failing, SpawnFails, StampUnverified, ReplaceAborts,
         SettleFails, DeleteFails, rowVars, ClosedRows
<1>4. \A t \in Threads : t # op[s].on => row'[t] = row[t]
  BY <1>3 DEF Stamps, Typed, TypeOK
<1>5. row'[op[s].on] # "none"
  BY <1>1, <1>3 DEF Stamps, Typed, TypeOK, ClosedRows
<1>6. \A t \in Threads : t # op[s].on => cost'[t] = cost[t]
  BY DEF Mint, Persist, StartBox, Running, Refused, Closing, StopStamp, FinishStamp, ReplaceStamp,
         Cleaning, Settle, Settled, Delete, Clear, Failing, SpawnFails, StampUnverified,
         ReplaceAborts, SettleFails, DeleteFails, rowVars, Typed, TypeOK
<1>7. \A t \in Threads : t # op[s].on => box'[t] = box[t]
  BY DEF Mint, Persist, StartBox, Running, Refused, Closing, StopStamp, FinishStamp, ReplaceStamp,
         Kills, Cleaning, Settle, Delete, Clear, Failing, SpawnFails, StampUnverified,
         ReplaceAborts, SettleFails, DeleteFails, boxVars, Typed, TypeOK
<1>8. \A t \in Threads : t # op[s].on => gw'[t] = gw[t]
  BY DEF Mint, Persist, StartBox, Running, Refused, Closing, StopStamp, FinishStamp, ReplaceStamp,
         Cleaning, Settle, Delete, Clear, Failing, SpawnFails, StampUnverified,
         ReplaceAborts, SettleFails, DeleteFails, Typed, TypeOK
<1>9. \A t \in Threads : row'[t] = "none" =>
        /\ row[t] = "none" /\ budget'[t] = budget[t] /\ cost'[t] = cost[t]
        /\ spent'[t] = spent[t] /\ prior'[t] = prior[t] /\ via'[t] = via[t]
        /\ box'[t] = box[t] /\ gw'[t] = gw[t]
  BY <1>2, <1>4, <1>5, <1>6, <1>7, <1>8
<1>10. \A t \in Threads : spent'[t] <= budget'[t]
  BY <1>2 DEF Within
<1> QED
  BY <1>9, <1>10, PlainStays

LEMMA PlainRow ==
  ASSUME KeysAssumption, Typed, Unused, Within, NEW s \in Slots, NEW t \in Threads,
         Respawn(s, t) \/ Launches(s, t)
  PROVE  Unused' /\ Within'
<1>1. /\ row[t] = "none" /\ row' = [row EXCEPT ![t] = "queued"]
      /\ cost' = cost /\ gw' = gw /\ box' = box /\ spent' = spent
  BY DEF Respawn, Launches, Launch, Row, Stamps, boxVars
<1>2. \A u \in Threads : u # t => prior'[u] = prior[u] /\ via'[u] = via[u] /\ budget'[u] = budget[u]
  BY DEF Respawn, Launches, Launch, Row, Typed, TypeOK
<1>3. Typed'
  BY TypesRow
<1>4. spent[t] = 0 /\ budget'[t] \in Nat
  BY <1>1, <1>3 DEF Unused, Typed, TypeOK
<1>5. row'[t] # "none" /\ \A u \in Threads : u # t => row'[u] = row[u]
  BY <1>1 DEF Typed, TypeOK
<1>6. \A u \in Threads : spent'[u] <= budget'[u]
  BY <1>1, <1>2, <1>4 DEF Within
<1> QED
  BY <1>1, <1>2, <1>5, <1>6, PlainStays

LEMMA PlainAsk ==
  ASSUME Typed, Unused, Within, NEW s \in Slots, NEW t \in Threads,
         Stop(s, t) \/ Finish(s, t) \/ Replace(s, t) \/ Reap(s, t) \/ Sweep(s, t)
  PROVE  Unused' /\ Within'
<1>1. /\ budget' = budget /\ cost' = cost /\ spent' = spent /\ prior' = prior /\ via' = via
      /\ box' = box /\ gw' = gw
  BY DEF Stop, Finish, Replace, Reap, Sweep, Asks, rowVars, boxVars
<1>2. \A u \in Threads : row'[u] = "none" => row[u] = "none"
  BY DEF Stop, Finish, Replace, Reap, Sweep, Asks, Stamps, rowVars, Typed, TypeOK
<1>3. \A u \in Threads : spent'[u] <= budget'[u]
  BY <1>1 DEF Within
<1> QED
  BY <1>1, <1>2, <1>3, PlainStays

LEMMA PlainRest ==
  ASSUME KeysAssumption, Typed, Kept, Unused, Within,
         \/ \E t \in Threads : Spend(t) \/ Vanishes(t) \/ Expires(t)
         \/ \E t \in Threads, status \in Words : WorkerEnds(t, status)
         \/ SettleRun \/ UNCHANGED vars \/ \E swept \in BOOLEAN : Crash(swept)
  PROVE  Unused' /\ Within'
<1>1. budget' = budget /\ prior' = prior /\ via' = via
  BY DEF Spend, Vanishes, Expires, WorkerEnds, SettleRun, Crash, vars, rowVars
<1>2. \A t \in Threads : row'[t] = "none" => row[t] = "none"
  BY DEF Spend, Vanishes, Expires, WorkerEnds, Stamps, SettleRun, Crash, vars, rowVars, Typed,
         TypeOK, KeysAssumption
<1>3. \A t \in Threads : row[t] = "none" => spent'[t] = spent[t]
  BY DEF Spend, Vanishes, Expires, WorkerEnds, SettleRun, Crash, vars, boxVars, Typed, TypeOK,
         Unused
<1>4. \A t \in Threads : row[t] = "none" => box'[t] = box[t]
  BY DEF Spend, Vanishes, Expires, WorkerEnds, SettleRun, Crash, vars, boxVars, Typed, TypeOK,
         Unused
<1>5. \A t \in Threads : row[t] = "none" => gw'[t] = gw[t]
  BY DEF Spend, Vanishes, Expires, WorkerEnds, SettleRun, Crash, vars, boxVars, Typed, TypeOK,
         Unused
<1>6. \A t \in Threads : row[t] = "none" => cost'[t] = cost[t]
  BY DEF Spend, Vanishes, Expires, WorkerEnds, SettleRun, Crash, vars, rowVars, Typed, TypeOK,
         Kept, Blank
<1>7. \A t \in Threads : spent'[t] <= budget'[t]
  <2>1. CASE \E t \in Threads : Spend(t)
    BY <1>1, <2>1 DEF Spend, Within, Typed, TypeOK
  <2>2. CASE spent' = spent
    BY <1>1, <2>2 DEF Within
  <2> QED
    BY <2>1, <2>2 DEF Vanishes, Expires, WorkerEnds, SettleRun, Crash, vars, boxVars
<1> QED
  BY <1>1, <1>2, <1>3, <1>4, <1>5, <1>6, <1>7, PlainStays

LEMMA SquareSpawn ==
  ASSUME KeysAssumption, Typed, Sess, Kept, Unused, Square, NEW s \in Slots,
         Mint(s) \/ Persist(s) \/ StartBox(s) \/ Running(s) \/ Refused(s)
  PROVE  Square'
<1>1. /\ op[s].pc # "none" /\ op[s].on \in Threads /\ spent' = spent /\ cost' = cost
      /\ op \in [Slots -> Op]
  BY DEF Mint, Persist, StartBox, Running, Refused, At, Typed, TypeOK, Served, rowVars, boxVars
<1>2. ASSUME Spawns(s)
      PROVE  /\ \A q \in Slots : q # s /\ Spawns(q) => op[q].on # op[s].on
             /\ OnBooks(op[s].on)
  BY <1>2 DEF Sess, Alone, OnBooks
<1>3. CASE Mint(s) \/ Persist(s)
  <2>1. Awaits(s) /\ Spawns(s)
    BY <1>3 DEF Mint, Persist, At, Awaits, Spawns
  <2>2. \E w \in {"persist", "start"} : w \in Pcs /\ Goto(s, w)
    BY <1>3 DEF Mint, Persist, Pcs
  <2>3. Others(s) /\ op'[s].pc \in {"persist", "start"} /\ op'[s].on = op[s].on
    BY <1>1, <2>2, Going
  <2>4. row' = row /\ named' = named /\ box' = box
    BY <1>3 DEF Mint, Persist, rowVars, boxVars
  <2>5. \A t \in Threads : Booked(t) => OnBooks(t)
    BY <1>2, <2>1, <2>3, <2>4 DEF Booked, OnBooks, Others, Spawns
  <2>6. \A t \in Threads : gw'[t] # "live" => gw[t] # "live"
    BY <1>3 DEF Mint, Persist, Typed, TypeOK
  <2>7. row[op[s].on] = "queued" /\ box[op[s].on] = "none"
    BY <2>1 DEF Square, Waiting
  <2>8. \A q \in Slots : Closes(q) => op[q].on # op[s].on
    BY <2>1 DEF Square, Untouched
  <2> QED
    BY <1>1, <2>3, <2>4, <2>5, <2>6, <2>7, <2>8, SquareSlot DEF Closes, Leaves
<1>4. CASE StartBox(s)
  <2>1. Awaits(s) /\ Spawns(s) /\ op[s].pc = "start" /\ Goto(s, "stamp") /\ "stamp" \in Pcs
    BY <1>4 DEF StartBox, At, Awaits, Spawns, Pcs
  <2>2. Others(s) /\ op'[s].pc = "stamp" /\ op'[s].on = op[s].on
    BY <1>1, <2>1, Going
  <2>3. row' = row /\ named' = named /\ gw' = gw /\ box' = [box EXCEPT ![op[s].on] = "up"]
    BY <1>4 DEF StartBox, rowVars
  <2>4. \A t \in Threads : Booked(t) => OnBooks(t)
    BY <1>2, <2>1, <2>2, <2>3 DEF Booked, OnBooks, Others, Spawns
  <2>5. \A t \in Threads : t # op[s].on => box'[t] = box[t]
    BY <2>3 DEF Typed, TypeOK
  <2>6. \A q \in Slots : q # s /\ Awaits(q) => op[q].on # op[s].on /\ op[q].on \in Threads
    BY <1>2, <2>1 DEF Awaits, Spawns, Typed, Served
  <2>7. \A q \in Slots : q # s /\ Awaits(q) => box'[op[q].on] = box[op[q].on]
    BY <2>5, <2>6
  <2> QED
    BY <1>1, <2>1, <2>2, <2>3, <2>4, <2>5, <2>7, SquareSlot DEF Closes, Leaves, Awaits
<1>5. CASE Running(s)
  <2>1. Spawns(s) /\ Others(s) /\ op'[s].pc = "none"
    BY <1>1, <1>5, Ending DEF Running, At, Spawns, NoOp
  <2>2. /\ named' = named \cup {op[s].on} /\ gw' = gw /\ box' = box
        /\ row' = [row EXCEPT ![op[s].on] = "running"]
    BY <1>5 DEF Running, Stamps, boxVars
  <2>3. \A t \in Threads : Booked(t) => OnBooks(t)
    BY <1>2, <2>1, <2>2 DEF Booked, OnBooks, Others, Spawns
  <2>4. \A t \in Threads : row'[t] \in ClosedRows => row[t] \in ClosedRows
    BY <2>2 DEF Typed, TypeOK, ClosedRows
  <2>5. \A q \in Slots : q # s /\ Awaits(q) => op[q].on # op[s].on /\ op[q].on \in Threads
    BY <1>2, <2>1 DEF Awaits, Spawns, Typed, Served
  <2>6. \A q \in Slots : q # s /\ Awaits(q) => row'[op[q].on] = row[op[q].on]
    BY <2>2, <2>5 DEF Typed, TypeOK
  <2> QED
    BY <1>1, <2>1, <2>2, <2>3, <2>4, <2>6, SquareSlot DEF Closes, Leaves, Awaits
<1>6. CASE Refused(s)
  <2>1. Others(s) /\ op'[s].pc = "none"
    BY <1>1, <1>6, Ending DEF Refused, NoOp
  <2>2. named' = named /\ gw' = gw /\ box' = box /\ row' = row
    BY <1>6 DEF Refused, rowVars, boxVars
  <2>3. \A t \in Threads : Booked(t) => OnBooks(t)
    BY <2>1, <2>2 DEF Booked, OnBooks, Others, Spawns
  <2> QED
    BY <1>1, <2>1, <2>2, <2>3, SquareSlot DEF Closes, Leaves, Awaits
<1> QED
  BY <1>3, <1>4, <1>5, <1>6

LEMMA SquareRow ==
  ASSUME KeysAssumption, Typed, Sess, Kept, Unused, Square, NEW s \in Slots, NEW t \in Threads,
         Respawn(s, t) \/ Launches(s, t)
  PROVE  Square'
<1>1. /\ row[t] = "none" /\ row' = [row EXCEPT ![t] = "queued"] /\ named' = named
      /\ cost' = cost /\ gw' = gw /\ box' = box /\ spent' = spent
  BY DEF Respawn, Launches, Launch, Row, Stamps, boxVars
<1>2. Others(s) /\ op'[s].pc = "mint" /\ op'[s].on = t
  <2>1. CASE Launches(s, t)
    <3>1. Begins(s, "mint", t, "none") /\ "mint" \in Pcs
      BY <2>1 DEF Launches, Launch, Pcs
    <3> QED
      BY <3>1, Beginning DEF Typed, TypeOK
  <2>2. CASE Respawn(s, t)
    BY <2>2 DEF Respawn, NoOp, Others, Typed, TypeOK
  <2> QED
    BY <2>1, <2>2
<1>3. \A q \in Slots : op[q].pc # "none" => op[q].on # t /\ op[q].on \in Threads
  BY <1>1 DEF Kept, Noted, Typed, Served
<1>4. \A u \in Threads : Booked(u) => OnBooks(u) \/ row[u] = "none"
  BY <1>1, <1>2 DEF Booked, OnBooks, Others, Spawns
<1>5. row'[t] = "queued" /\ box[t] = "none" /\ \A u \in Threads : u # t => row'[u] = row[u]
  BY <1>1 DEF Unused, Typed, TypeOK
<1>6. \A u \in Threads : row'[u] \in ClosedRows => row[u] \in ClosedRows
  BY <1>5 DEF ClosedRows
<1>7. \A q \in Slots : Awaits(q) => row'[op[q].on] = row[op[q].on]
  BY <1>3, <1>5 DEF Awaits
<1>8. \A q \in Slots : Closes(q) => op[q].on # t
  BY <1>3 DEF Closes, Leaves
<1> QED
  BY <1>1, <1>2, <1>4, <1>5, <1>6, <1>7, <1>8, SquareSlot DEF Closes, Leaves

LEMMA SquareClose ==
  ASSUME KeysAssumption, Typed, Sess, Kept, Unused, Square, NEW s \in Slots, Closing(s)
  PROVE  Square'
<1>1. /\ op[s].pc \in {"stop", "finish", "replace"} /\ op[s].on \in Threads /\ Goto(s, "settle")
      /\ op \in [Slots -> Op]
  BY DEF Closing, StopStamp, FinishStamp, ReplaceStamp, At, Typed, TypeOK, Served
<1>2. Others(s) /\ op'[s].pc = "settle" /\ op'[s].on = op[s].on
  <2>1. "settle" \in Pcs
    BY DEF Pcs
  <2> QED
    BY <1>1, <2>1, Going
<1>3. named' = named /\ cost' = cost /\ gw' = gw /\ spent' = spent /\ Kills(s)
  BY DEF Closing, StopStamp, FinishStamp, ReplaceStamp
<1>4. op[s].id
  BY <1>1 DEF Square, Sighted
<1>5. /\ box'[op[s].on] # "up"
      /\ \A t \in Threads : t # op[s].on => box'[t] = box[t]
  BY <1>1, <1>3, <1>4 DEF Kills, Typed, TypeOK
<1>6. \A t \in Threads : t # op[s].on => row'[t] = row[t]
  BY DEF Closing, StopStamp, FinishStamp, ReplaceStamp, Stamps, Typed, TypeOK
<1>7. \A t \in Threads : Booked(t) => OnBooks(t)
  BY <1>2, <1>3 DEF Booked, OnBooks, Others, Spawns
<1>8. \A q \in Slots : Awaits(q) => op[q].on # op[s].on /\ op[q].on \in Threads
  BY <1>1 DEF Square, Untouched, Closes, Awaits, Typed, Served
<1>9. \A q \in Slots : Awaits(q) =>
        row'[op[q].on] = row[op[q].on] /\ box'[op[q].on] = box[op[q].on]
  BY <1>5, <1>6, <1>8
<1>10. \A t \in Threads : box'[t] = "up" => box[t] = "up"
  BY <1>5
<1>11. \A t \in Threads : row'[t] \in ClosedRows => row[t] \in ClosedRows \/ box'[t] # "up"
  BY <1>5, <1>6
<1> QED
  BY <1>2, <1>3, <1>5, <1>7, <1>8, <1>9, <1>10, <1>11, SquareSlot DEF Awaits

\* No key is lost to a lane: the one that lives is in the row, or being minted.
LEMMA SquareClean ==
  ASSUME KeysAssumption, Typed, Sess, Kept, Unused, Square, Rightly, NEW s \in Slots, Cleaning(s)
  PROVE  Square'
<1>1. /\ Leaves(s) /\ op[s].pc \in {"settle", "delete", "clear"} /\ op[s].on \in Threads
      /\ op \in [Slots -> Op]
  BY DEF Cleaning, Settle, Delete, Clear, At, Leaves, Typed, TypeOK, Served
<1>2. row' = row /\ named' = named /\ box' = box /\ spent' = spent
  BY DEF Cleaning, Settle, Delete, Clear, rowVars, boxVars
<1>3. Others(s) /\ op'[s].pc \in {"delete", "clear", "spawn", "none"}
      /\ (op'[s].pc # "none" => op'[s].on = op[s].on)
  <2>1. ASSUME NEW w \in {"delete", "clear"}, Goto(s, w)
        PROVE  Others(s) /\ op'[s].pc = w /\ op'[s].on = op[s].on
    <3>1. w \in Pcs
      BY DEF Pcs
    <3> QED
      BY <1>1, <2>1, <3>1, Going
  <2>2. ASSUME Onward(s)
        PROVE  Others(s) /\ op'[s].pc \in {"spawn", "none"}
               /\ (op'[s].pc # "none" => op'[s].on = op[s].on)
    BY <1>1, <2>2, GoingOn DEF NoOp
  <2> QED
    BY <2>1, <2>2 DEF Cleaning, Settle, Delete, Clear
<1>4. \A t \in Threads : Booked(t) => OnBooks(t)
  BY <1>2, <1>3 DEF Booked, OnBooks, Others, Spawns
<1>5. \A q \in Slots : Awaits(q) => op[q].on # op[s].on
  BY <1>1 DEF Square, Untouched, Closes
<1>6. \A t \in Threads : cost'[t] \in {cost[t], spent[t]}
  BY DEF Cleaning, Settle, Settled, Delete, Clear, rowVars, Typed, TypeOK
<1>7. OnBooks(op[s].on) => box[op[s].on] # "up" /\ cost'[op[s].on] = spent[op[s].on]
  <2> SUFFICES ASSUME OnBooks(op[s].on) PROVE cost'[op[s].on] = spent[op[s].on]
    BY <1>1 DEF Square, Over
  <2>1. CASE Settle(s) /\ op[s].on \in key /\ gw[op[s].on] = "live"
    BY <1>1, <2>1 DEF Settle, Settled, Typed, TypeOK
  <2>2. CASE gw[op[s].on] # "live"
    BY <1>1, <1>6, <2>2 DEF Square, Books
  <2>3. CASE Settle(s) /\ op[s].on \notin key /\ gw[op[s].on] = "live"
    <3>1. \E q \in Slots : Awaits(q) /\ op[q].on = op[s].on
      BY <1>1, <2>3 DEF Kept, KeyAccounted, Rightly, At, Awaits
    <3> QED
      BY <1>5, <3>1
  <2>4. CASE Delete(s) \/ Clear(s)
    BY <1>1, <1>6, <2>4 DEF Square, Over, Delete, Clear, At
  <2> QED
    BY <2>1, <2>2, <2>3, <2>4 DEF Cleaning
<1>8. \A t \in Threads : OnBooks(t) /\ gw'[t] # "live" => gw[t] # "live" \/ cost'[t] = spent[t]
  <2>1. \A t \in Threads : t # op[s].on => gw'[t] = gw[t]
    BY DEF Cleaning, Settle, Delete, Clear, Typed, TypeOK
  <2> QED
    BY <1>7, <2>1
<1> QED
  BY <1>1, <1>2, <1>3, <1>4, <1>5, <1>6, <1>7, <1>8, SquareSlot DEF Awaits, Closes, Leaves

LEMMA SquareAsk ==
  ASSUME KeysAssumption, Typed, Sess, Kept, Unused, Square, blind' = {},
         NEW s \in Slots, NEW t \in Threads,
         Stop(s, t) \/ Finish(s, t) \/ Replace(s, t) \/ Reap(s, t) \/ Sweep(s, t)
  PROVE  Square'
<1>1. \/ \E w \in {"stop", "finish", "settle"} : w \in Pcs /\ Begins(s, w, t, "none")
      \/ Begins(s, "replace", t, "spawn") /\ "replace" \in Pcs
  BY DEF Stop, Finish, Replace, Reap, Sweep, Asks, Pcs
<1>2. /\ Others(s) /\ op[s] = NoOp /\ op'[s].on = t /\ op'[s].id = (t \in named)
      /\ op'[s].pc \in {"stop", "finish", "settle", "replace"}
  BY <1>1, Beginning DEF Typed, TypeOK
<1>3. /\ named' = named /\ box' = box /\ spent' = spent /\ cost' = cost /\ gw' = gw
  BY DEF Stop, Finish, Replace, Reap, Sweep, Asks, rowVars, boxVars
<1>4. op'[s].pc = "settle" => Reap(s, t) \/ Sweep(s, t)
  <2> SUFFICES ASSUME Stop(s, t) \/ Finish(s, t) \/ Replace(s, t)
               PROVE  op'[s].pc # "settle"
    OBVIOUS
  <2>1. \E w \in {"stop", "finish", "replace"}, next \in {"none", "spawn"} :
          w \in Pcs /\ Begins(s, w, t, next)
    BY DEF Stop, Finish, Replace, Asks, Pcs
  <2> QED
    BY <2>1, Beginning DEF Typed, TypeOK
<1>5. t \in named \/ Sweep(s, t)
  BY DEF Stop, Finish, Replace, Reap, Asks
<1>6. \A q \in Slots : Awaits(q) => op[q].on # t
  <2> SUFFICES ASSUME NEW q \in Slots, Awaits(q), op[q].on = t PROVE FALSE
    OBVIOUS
  <2>1. t \notin named /\ row[t] = "queued"
    BY DEF Sess, Begun, Spawns, Awaits, Square, Waiting
  <2> QED
    BY <1>5, <2>1 DEF Sweep, ClosedRows
<1>7. (Reap(s, t) \/ Sweep(s, t)) /\ OnBooks(t) => box[t] # "up"
  BY DEF Reap, Sweep, Square, Stopped
<1>8. op'[s].pc # "settle" => t \in named
  BY <1>1, <1>2 DEF Stop, Finish, Replace, Reap, Sweep, Asks, Begins, Typed, TypeOK
<1>9. \A u \in Threads : Booked(u) => OnBooks(u)
  BY <1>2, <1>3 DEF Booked, OnBooks, Others, Spawns
<1>10. \A u \in Threads : row'[u] = row[u] \/ (u = t /\ Reap(s, t))
  BY DEF Stop, Finish, Replace, Reap, Sweep, Asks, Stamps, rowVars, Typed, TypeOK
<1>11. \A u \in Threads : row'[u] \in ClosedRows => row[u] \in ClosedRows \/ box'[u] # "up"
  BY <1>3, <1>10 DEF Reap
<1>12. \A q \in Slots : q # s /\ Awaits(q) => row'[op[q].on] = row[op[q].on]
  BY <1>6, <1>10 DEF Awaits, Typed, Served
<1> QED
  BY <1>2, <1>3, <1>4, <1>6, <1>7, <1>8, <1>9, <1>11, <1>12, SquareSlot
  DEF Awaits, Closes, Leaves, NoOp

LEMMA SquareRest ==
  ASSUME KeysAssumption, Typed, Sess, Kept, Unused, Square,
         \/ \E t \in Threads : Spend(t) \/ Vanishes(t)
         \/ \E t \in Threads, status \in Words : WorkerEnds(t, status)
         \/ SettleRun \/ UNCHANGED vars
  PROVE  Square'
<1> USE DEF Square
<1>1. op' = op /\ named' = named /\ gw' = gw
  BY DEF Spend, Vanishes, WorkerEnds, SettleRun, vars, rowVars
<1>2. \A q \in Slots : Awaits(q) \/ Leaves(q) => op[q].on \in Threads
  BY DEF Awaits, Leaves, Typed, Served
<1>3. \A t \in Threads : box'[t] = box[t] \/ (box[t] = "up" /\ box'[t] # "up")
  BY DEF Spend, Vanishes, WorkerEnds, SettleRun, vars, boxVars, Typed, TypeOK
<1>4. \A t \in Threads : row'[t] = row[t] \/ (box[t] = "up" /\ box'[t] # "up")
  BY DEF Spend, Vanishes, WorkerEnds, Stamps, SettleRun, vars, rowVars, Typed, TypeOK
<1>5. \A t \in Threads :
        \/ spent'[t] = spent[t] /\ (cost'[t] = cost[t] \/ cost'[t] = spent[t])
        \/ box[t] = "up" /\ gw[t] = "live"
  <2>1. CASE \E t \in Threads : Spend(t)
    BY <2>1 DEF Spend, rowVars, Typed, TypeOK
  <2>2. CASE spent' = spent /\ cost' = cost
    BY <2>2
  <2>3. CASE SettleRun
    BY <2>3 DEF SettleRun, Settled, boxVars, Typed, TypeOK
  <2> QED
    BY <2>1, <2>2, <2>3 DEF Vanishes, WorkerEnds, vars, rowVars, boxVars
<1>6. \A t : Booked(t) <=> OnBooks(t)
  BY <1>1 DEF Booked, OnBooks, Spawns
<1>7. Waiting'
  BY <1>1, <1>2, <1>3, <1>4 DEF Waiting, Awaits
<1>8. Untouched' /\ Sighted'
  BY <1>1 DEF Untouched, Sighted, Awaits, Closes, Leaves
<1>9. Stopped'
  BY <1>3, <1>4, <1>6 DEF Stopped, OnBooks, Booked
<1>10. Over'
  BY <1>1, <1>2, <1>3, <1>5, <1>6 DEF Over, OnBooks, Booked, Leaves
<1>11. Books'
  BY <1>1, <1>5, <1>6 DEF Books, OnBooks, Booked
<1> QED
  BY <1>7, <1>8, <1>9, <1>10, <1>11

LEMMA SquareCrash ==
  ASSUME KeysAssumption, Typed, Square, NEW swept \in BOOLEAN, Crash(swept)
  PROVE  Square'
<1>1. \A s \in Slots : op'[s].pc = "none"
  BY DEF Crash, NoOp
<1>2. named' = named /\ cost' = cost /\ spent' = spent /\ gw' = gw /\ box' = box
  BY DEF Crash, boxVars
<1>3. \A t : Booked(t) => t \in named /\ OnBooks(t)
  BY <1>1, <1>2 DEF Booked, OnBooks, Spawns
<1>4. Stopped'
  <2> SUFFICES ASSUME NEW t \in Threads, row'[t] \in ClosedRows, Booked(t) PROVE box[t] # "up"
    BY <1>2 DEF Stopped, OnBooks, Booked
  <2>1. CASE row[t] \in ClosedRows
    BY <1>3, <2>1 DEF Square, Stopped
  <2>2. CASE row[t] \notin ClosedRows
    BY <1>3, <2>2 DEF Crash
  <2> QED
    BY <2>1, <2>2
<1>5. Books'
  BY <1>2, <1>3 DEF Square, Books, OnBooks, Booked
<1>6. Waiting' /\ Untouched' /\ Over' /\ Sighted'
  BY <1>1 DEF Waiting, Untouched, Over, Sighted, Awaits, Leaves
<1> QED
  BY <1>4, <1>5, <1>6 DEF Square

\* A fault or a lane closed unseen stays on record.
LEMMA RightlyBefore ==
  ASSUME Typed, [Next]_vars PROVE lost \subseteq lost' /\ blind \subseteq blind'
<1>1. ASSUME NEW s \in Slots, Spawning(s) \/ Closing(s) \/ Cleaning(s)
      PROVE  lost' = lost /\ blind' = blind
  BY <1>1 DEF Spawning, Mint, Persist, StartBox, Running, Refused, Respawn, Closing, StopStamp,
              FinishStamp, ReplaceStamp, Cleaning, Settle, Delete, Clear
<1>2. ASSUME NEW s \in Slots, Failing(s) PROVE lost \subseteq lost' /\ blind' = blind
  BY <1>2 DEF Failing, SpawnFails, StampUnverified, ReplaceAborts, SettleFails, DeleteFails, Fault
<1>3. ASSUME NEW s \in Slots, NEW t \in Threads,
             \/ Launches(s, t) \/ Stop(s, t) \/ Finish(s, t) \/ Replace(s, t)
             \/ Reap(s, t) \/ Sweep(s, t)
      PROVE  lost' = lost /\ blind \subseteq blind'
  BY <1>3 DEF Launches, Launch, Stop, Finish, Replace, Reap, Sweep, Asks
<1>4. CASE \/ \E t \in Threads : Spend(t) \/ Vanishes(t) \/ Expires(t)
           \/ \E t \in Threads, status \in Words : WorkerEnds(t, status)
           \/ SettleRun \/ UNCHANGED vars \/ \E swept \in BOOLEAN : Crash(swept)
  BY <1>4 DEF Spend, Vanishes, Expires, WorkerEnds, SettleRun, Crash, Fault, vars
<1> QED
  BY <1>1, <1>2, <1>3, <1>4 DEF Next, Launches

LEMMA LedgerStep ==
  ASSUME KeysAssumption, Typed, Sess, Kept, Ledger, [Next]_vars
  PROVE  Ledger'
<1> USE DEF Ledger
<1>1. lost \subseteq lost' /\ blind \subseteq blind'
  BY RightlyBefore
<1>2. Rightly' => Rightly /\ Square /\ blind' = {}
  BY <1>1 DEF Rightly
<1>3. ASSUME NEW s \in Slots, Spawning(s) \/ Closing(s) \/ Cleaning(s)
      PROVE  Ledger'
  <2>1. CASE \E t \in Threads : Respawn(s, t)
    BY <1>2, <2>1, PlainRow, SquareRow
  <2>2. CASE Mint(s) \/ Persist(s) \/ StartBox(s) \/ Running(s) \/ Refused(s)
    BY <1>2, <2>2, PlainSlot, SquareSpawn
  <2>3. CASE Closing(s) \/ Cleaning(s)
    BY <1>2, <2>3, PlainSlot, SquareClose, SquareClean
  <2> QED
    BY <1>3, <2>1, <2>2, <2>3 DEF Spawning
<1>4. ASSUME NEW s \in Slots, Failing(s) PROVE Ledger'
  <2>1. Unused' /\ Within'
    BY <1>4, PlainSlot
  <2>2. ~Rightly'
    BY <1>4 DEF Failing, SpawnFails, StampUnverified, ReplaceAborts, SettleFails, DeleteFails,
                Fault, Rightly
  <2> QED
    BY <2>1, <2>2
<1>5. ASSUME NEW s \in Slots, NEW t \in Threads,
             \/ Launches(s, t) \/ Stop(s, t) \/ Finish(s, t) \/ Replace(s, t)
             \/ Reap(s, t) \/ Sweep(s, t)
      PROVE  Ledger'
  BY <1>2, <1>5, PlainRow, PlainAsk, SquareRow, SquareAsk
<1>6. CASE \/ \E t \in Threads : Spend(t) \/ Vanishes(t)
           \/ \E t \in Threads, status \in Words : WorkerEnds(t, status)
           \/ SettleRun \/ UNCHANGED vars
  BY <1>2, <1>6, PlainRest, SquareRest
<1>7. ASSUME NEW t \in Threads, Expires(t) PROVE Ledger'
  <2>1. Unused' /\ Within'
    BY <1>7, PlainRest
  <2>2. ~Rightly'
    BY <1>7 DEF Expires, Fault, Rightly
  <2> QED
    BY <2>1, <2>2
<1>8. ASSUME NEW swept \in BOOLEAN, Crash(swept) PROVE Ledger'
  BY <1>2, <1>8, PlainRest, SquareCrash
<1> QED
  BY <1>3, <1>4, <1>5, <1>6, <1>7, <1>8 DEF Next, Launches

\* The budget that is still out: of a lane that was replaced, what it has spent.
Replaced(t) == \E u \in Threads : prior[u] = t /\ via[u] = "replace"
Purse == [t \in Threads |-> IF Replaced(t) THEN spent[t] ELSE budget[t]]

Chains == {t \in Threads : row[t] # "none" /\ via[t] # "replace"}
Links == {t \in Threads : via[t] = "replace"}
Allowance == Default * Cardinality(Chains) + Cardinality(Links)

Single == \A t, u \in Threads : ~Twins(t, u)

Bounded == Rightly /\ Single => Total(Purse, Threads) <= Allowance

LEMMA PurseType == 
  ASSUME Typed, NEW t \in Threads
  PROVE  Purse[t] \in Nat
  BY DEF Purse, Typed, TypeOK

LEMMA Counts ==
  ASSUME KeysAssumption
  PROVE  /\ IsFiniteSet(Chains) /\ Cardinality(Chains) \in Nat
         /\ IsFiniteSet(Links) /\ Cardinality(Links) \in Nat
         /\ Allowance \in Nat
<1>1. IsFiniteSet(Threads) /\ Chains \subseteq Threads /\ Links \subseteq Threads
  BY DEF KeysAssumption, Chains, Links
<1>2. /\ IsFiniteSet(Chains) /\ Cardinality(Chains) \in Nat
      /\ IsFiniteSet(Links) /\ Cardinality(Links) \in Nat
  BY <1>1, FS_Subset, FS_CardinalityType
<1> QED
  BY <1>2 DEF Allowance, KeysAssumption

LEMMA BoundedBegin == KeysAssumption /\ Init => Bounded
<1> SUFFICES ASSUME KeysAssumption, Init PROVE Total(Purse, Threads) <= Allowance
  BY DEF Bounded
<1> DEFINE Zero == [t \in Threads |-> 0]
<1>1. Purse = Zero
  BY DEF Init, Purse
<1>2. Total(Zero, Threads) = 0
  <2> DEFINE P == {T \in SUBSET Threads : Total(Zero, T) = 0}
  <2>1. {} \in P
    BY TotalNone
  <2>2. ASSUME NEW T \in SUBSET Threads, T # {}, \A x \in T : T \ {x} \in P
        PROVE  T \in P
    <3>1. IsFiniteSet(T)
      BY FS_Subset DEF KeysAssumption
    <3>2. Total(Zero, T) = Zero[First(T)] + Total(Zero, T \ {First(T)}) /\ First(T) \in T
      BY <2>2, <3>1, TotalFirst, Smaller
    <3> QED
      BY <2>2, <3>2
  <2> HIDE DEF P
  <2>3. Threads \in P
    BY <2>1, <2>2, TotalInductive DEF KeysAssumption
  <2> QED
    BY <2>3 DEF P
<1> QED
  BY <1>1, <1>2, Counts

\* A step that neither makes a row nor spends for a lane that was replaced.
LEMMA BoundedSame ==
  ASSUME Bounded, lost \subseteq lost', blind \subseteq blind',
         prior' = prior, via' = via, budget' = budget,
         \A t \in Threads : row'[t] = "none" <=> row[t] = "none",
         Rightly => \A t \in Threads : Replaced(t) => spent'[t] = spent[t]
  PROVE  Bounded'
<1> SUFFICES ASSUME Rightly', Single' PROVE (Total(Purse, Threads) <= Allowance)'
  BY DEF Bounded
<1>1. Rightly
  BY DEF Rightly
<1>2. Single
  BY DEF Single, Twins
<1>3. Purse' = Purse
  BY <1>1 DEF Purse, Replaced
<1>4. Chains' = Chains /\ Links' = Links
  BY DEF Chains, Links
<1>5. Allowance' = Allowance
  BY <1>4 DEF Allowance
<1>6. Total(Purse, Threads) <= Allowance
  BY <1>1, <1>2 DEF Bounded
<1>7. Total(Purse, Threads)' = Total(Purse', Threads)
  OBVIOUS
<1> QED
  BY <1>3, <1>5, <1>6

\* Sums that differ in one term.
LEMMA TotalOne ==
  ASSUME NEW S, IsFiniteSet(S), NEW f, NEW g, NEW x \in S,
         \A y \in S : f[y] \in Nat /\ g[y] \in Nat,
         \A y \in S : y # x => f[y] = g[y]
  PROVE  Total(f, S) + g[x] = Total(g, S) + f[x]
<1> DEFINE R == S \ {x}
<1>1. IsFiniteSet(R)
  BY FS_RemoveElement
<1>2. Total(f, R) <= Total(g, R) /\ Total(g, R) <= Total(f, R)
  <2>1. \A y \in R : f[y] \in Nat /\ g[y] \in Nat /\ f[y] <= g[y] /\ g[y] <= f[y]
    OBVIOUS
  <2> HIDE DEF R
  <2> QED
    BY <1>1, <2>1, TotalGrows
<1>3. Total(f, R) \in Nat /\ Total(g, R) \in Nat
  <2>1. \A y \in R : f[y] \in Nat /\ g[y] \in Nat
    OBVIOUS
  <2> HIDE DEF R
  <2> QED
    BY <1>1, <2>1, TotalType
<1>4. Total(f, S) = f[x] + Total(f, R) /\ Total(g, S) = g[x] + Total(g, R)
  BY TotalTake
<1>5. f[x] \in Nat /\ g[x] \in Nat
  OBVIOUS
<1> QED
  BY <1>2, <1>3, <1>4, <1>5

\* A row that is no lane yet has no heir.
LEMMA NoHeir ==
  ASSUME KeysAssumption, Typed, Sess, Rightly, NEW t \in Threads, row[t] = "none"
  PROVE  ~Replaced(t)
<1> SUFFICES ASSUME NEW u \in Threads, prior[u] = t, via[u] = "replace" PROVE FALSE
  BY DEF Replaced
<1>1. prior[u] # NoThread => Quiet(t)
  BY DEF Sess, Heirs
<1>2. t \notin named
  BY DEF Sess, Listed
<1>3. ~Quiet(t)
  BY <1>2 DEF Quiet, Rightly
<1> QED
  BY <1>1, <1>3 DEF KeysAssumption

LEMMA BoundedLaunch ==
  ASSUME KeysAssumption, Typed, Sess, Ledger, Bounded, NEW s \in Slots, NEW t \in Threads,
         Launches(s, t)
  PROVE  Bounded'
<1> SUFFICES ASSUME Rightly', Single' PROVE (Total(Purse, Threads) <= Allowance)'
  BY DEF Bounded
<1>1. /\ row[t] = "none" /\ row' = [row EXCEPT ![t] = "queued"]
      /\ budget' = [budget EXCEPT ![t] = Default]
      /\ spent' = spent /\ lost' = lost /\ blind' = blind
  BY DEF Launches, Launch, Row, Stamps, boxVars
<1>2. via[t] = "none" /\ budget[t] = 0
  BY <1>1 DEF Ledger, Unused
<1>3. /\ via'[t] # "replace"
      /\ \A u \in Threads : u # t => via'[u] = via[u] /\ prior'[u] = prior[u]
  BY DEF Launches, Launch, Way, Row, Typed, TypeOK
<1>4. Rightly /\ Single
  BY <1>1, <1>2, <1>3 DEF Rightly, Single, Twins
<1>5. Purse[t] = 0 /\ Purse'[t] = Default /\ \A u \in Threads : u # t => Purse[u] = Purse'[u]
  <2>1. ~Replaced(t)
    BY <1>1, <1>4, NoHeir
  <2> QED
    BY <1>1, <1>2, <1>3, <2>1 DEF Purse, Replaced, Typed, TypeOK
<1>6. Links' = Links
  BY <1>2, <1>3 DEF Links
<1>7. Chains' = Chains \cup {t} /\ t \notin Chains
  BY <1>1, <1>2, <1>3 DEF Chains, Typed, TypeOK
<1>8. Cardinality(Chains') = Cardinality(Chains) + 1
  BY <1>7, Counts, FS_AddElement
<1>9. Allowance' = Allowance + Default
  <2>1. Allowance' = Default * (Cardinality(Chains) + 1) + Cardinality(Links)
    BY <1>6, <1>8 DEF Allowance
  <2>2. Default \in Nat
    BY DEF KeysAssumption
  <2> QED
    BY <2>1, <2>2, Counts DEF Allowance
<1>10. \A u \in Threads : Purse[u] \in Nat /\ Purse'[u] \in Nat
  BY <1>1, <1>5, PurseType DEF KeysAssumption
<1> DEFINE w == Purse'
<1>11. Total(Purse, Threads) + w[t] = Total(w, Threads) + Purse[t]
  <2>1. IsFiniteSet(Threads)
    BY DEF KeysAssumption
  <2>2. \A y \in Threads : Purse[y] \in Nat /\ w[y] \in Nat
    BY <1>10
  <2>3. \A y \in Threads : y # t => Purse[y] = w[y]
    BY <1>5
  <2> HIDE DEF w
  <2> QED
    BY <2>1, <2>2, <2>3, TotalOne
<1>12. Total(w, Threads) \in Nat /\ Total(Purse, Threads) \in Nat
  <2>1. IsFiniteSet(Threads) /\ \A y \in Threads : w[y] \in Nat
    BY <1>10 DEF KeysAssumption
  <2> HIDE DEF w
  <2> QED
    BY <1>10, <2>1, TotalType
<1>13. w[t] = Default /\ Total(Purse, Threads) <= Allowance /\ Allowance \in Nat /\ Default \in Nat
  BY <1>4, <1>5, Counts DEF Bounded, KeysAssumption
<1>14. Total(w, Threads) <= Allowance + Default
  <2> HIDE DEF w
  <2> QED
    BY <1>5, <1>11, <1>12, <1>13
<1> QED
  BY <1>9, <1>14

\* A replacement gets what its lane had not spent, or the floor.
LEMMA BoundedRespawn ==
  ASSUME KeysAssumption, Typed, Sess, Kept, Ledger, Bounded, NEW s \in Slots, NEW t \in Threads,
         Respawn(s, t)
  PROVE  Bounded'
<1> SUFFICES ASSUME Rightly', Single' PROVE (Total(Purse, Threads) <= Allowance)'
  BY DEF Bounded
<1> DEFINE old == op[s].on
           rest == IF budget[old] > cost[old] THEN budget[old] - cost[old] ELSE 1
<1>1. /\ row[t] = "none" /\ row' = [row EXCEPT ![t] = "queued"] /\ op[s].pc = "spawn"
      /\ prior' = [prior EXCEPT ![t] = old] /\ via' = [via EXCEPT ![t] = "replace"]
      /\ budget' = [budget EXCEPT ![t] = rest]
      /\ spent' = spent /\ lost' = lost /\ blind' = blind
  BY DEF Respawn, Row, Stamps, boxVars, At
<1>2. old \in Threads /\ row[old] # "none" /\ old # NoThread
  BY <1>1 DEF Typed, Served, Kept, Noted, KeysAssumption
<1>3. via[t] = "none" /\ budget[t] = 0 /\ spent[t] = 0
  BY <1>1 DEF Ledger, Unused
<1> HIDE DEF old, rest
<1>4. \A u \in Threads : /\ prior'[u] = (IF u = t THEN old ELSE prior[u])
                         /\ via'[u] = (IF u = t THEN "replace" ELSE via[u])
  BY <1>1 DEF Typed, TypeOK
<1>5. Rightly /\ Single
  <2>1. Single
    <3> SUFFICES ASSUME NEW u \in Threads, NEW v \in Threads, Twins(u, v) PROVE FALSE
      BY DEF Single
    <3>1. u # t /\ v # t
      BY <1>3 DEF Twins
    <3> QED
      BY <1>4, <3>1 DEF Single, Twins
  <2> QED
    BY <1>1, <2>1 DEF Rightly
<1>6. ~Replaced(old)
  <2> SUFFICES ASSUME NEW u \in Threads, prior[u] = old, via[u] = "replace" PROVE FALSE
    BY DEF Replaced
  <2>1. u # t
    BY <1>2, <1>3
  <2>2. Twins(u, t)'
    BY <1>2, <1>4, <2>1 DEF Twins
  <2> QED
    BY <2>2 DEF Single
<1>7. cost[old] = spent[old] /\ spent[old] <= budget[old]
  <2>1. Square
    BY <1>5 DEF Ledger
  <2>2. Quiet(old)
    BY <1>1 DEF Sess, Handed, Meant, old
  <2>3. OnBooks(old)
    BY <1>5, <2>2 DEF Quiet, Rightly, OnBooks
  <2>4. Leaves(s) /\ op[s].pc # "settle"
    BY <1>1 DEF Leaves
  <2> QED
    BY <1>2, <2>1, <2>3, <2>4 DEF Square, Over, Ledger, Within, old
<1>8. /\ budget[old] \in Nat /\ cost[old] \in Nat /\ spent[old] \in Nat
      /\ rest \in Nat /\ rest + spent[old] <= budget[old] + 1
  <2>1. budget[old] \in Nat /\ cost[old] \in Nat /\ spent[old] \in Nat
    BY <1>2 DEF Typed, TypeOK
  <2> QED
    BY <1>7, <2>1 DEF rest
<1>9. ~Replaced(t) /\ \A u \in Threads : Replaced(u)' <=> Replaced(u) \/ u = old
  <2>1. ~Replaced(t)
    BY <1>1, <1>5, NoHeir
  <2>2. ASSUME NEW u \in Threads, Replaced(u)' PROVE Replaced(u) \/ u = old
    <3>1. PICK v \in Threads : prior'[v] = u /\ via'[v] = "replace"
      BY <2>2 DEF Replaced
    <3>2. v # t => prior[v] = u /\ via[v] = "replace"
      BY <1>4, <3>1
    <3> QED
      BY <1>4, <3>1, <3>2 DEF Replaced
  <2>3. ASSUME NEW u \in Threads, Replaced(u) PROVE Replaced(u)'
    <3>1. PICK v \in Threads : prior[v] = u /\ via[v] = "replace"
      BY <2>3 DEF Replaced
    <3>2. v # t
      BY <1>3, <3>1
    <3>3. prior'[v] = u /\ via'[v] = "replace"
      BY <1>4, <3>1, <3>2
    <3> QED
      BY <3>3 DEF Replaced
  <2>4. ASSUME NEW u \in Threads, u = old PROVE Replaced(u)'
    <3>1. prior'[t] = u /\ via'[t] = "replace"
      BY <1>4, <2>4
    <3> QED
      BY <3>1 DEF Replaced
  <2> QED
    BY <2>1, <2>2, <2>3, <2>4
<1> DEFINE w == Purse
           v == Purse'
<1>10. /\ w[t] = 0 /\ v[t] = rest /\ w[old] = budget[old] /\ v[old] = spent[old]
       /\ \A u \in Threads : u # t /\ u # old => w[u] = v[u]
       /\ t # old
  <2>1. t # old
    BY <1>1, <1>2
  <2>2. \A u \in Threads : budget'[u] = (IF u = t THEN rest ELSE budget[u])
    BY <1>1 DEF Typed, TypeOK
  <2> QED
    BY <1>1, <1>2, <1>3, <1>6, <1>9, <2>1, <2>2 DEF Purse
<1>11. \A u \in Threads : w[u] \in Nat /\ v[u] \in Nat
  BY <1>8, <1>10, PurseType
<1>12. IsFiniteSet(Threads)
  BY DEF KeysAssumption
<1>13. Total(v, Threads) <= Total(w, Threads) + 1 /\ Total(v, Threads) \in Nat
       /\ Total(w, Threads) \in Nat
  <2> HIDE DEF w, v
  <2> DEFINE h == [u \in Threads |-> IF u = old THEN v[old] ELSE w[u]]
  <2>1. /\ \A u \in Threads : h[u] \in Nat
        /\ \A u \in Threads : u # old => w[u] = h[u]
        /\ \A u \in Threads : u # t => h[u] = v[u]
        /\ h[old] = v[old] /\ h[t] = w[t]
    BY <1>2, <1>10, <1>11
  <2> HIDE DEF h
  <2>2. Total(w, Threads) + h[old] = Total(h, Threads) + w[old]
    BY <1>2, <1>11, <1>12, <2>1, TotalOne
  <2>3. Total(h, Threads) + v[t] = Total(v, Threads) + h[t]
    BY <1>11, <1>12, <2>1, TotalOne
  <2>4. Total(w, Threads) \in Nat /\ Total(h, Threads) \in Nat /\ Total(v, Threads) \in Nat
    BY <1>11, <1>12, <2>1, TotalType
  <2> QED
    BY <1>8, <1>10, <2>1, <2>2, <2>3, <2>4
<1>14. Chains' = Chains
  BY <1>1, <1>2, <1>4 DEF Chains, Typed, TypeOK
<1>15. Links' = Links \cup {t} /\ t \notin Links
  BY <1>2, <1>3, <1>4 DEF Links
<1>16. Cardinality(Links') = Cardinality(Links) + 1
  BY <1>15, Counts, FS_AddElement
<1>17. Allowance' = Allowance + 1
  <2>1. Allowance' = Default * Cardinality(Chains) + (Cardinality(Links) + 1)
    BY <1>14, <1>16 DEF Allowance
  <2>2. Default * Cardinality(Chains) \in Nat
    BY Counts DEF KeysAssumption
  <2> QED
    BY <2>1, <2>2, Counts DEF Allowance
<1>18. Total(w, Threads) <= Allowance /\ Allowance \in Nat
  BY <1>5, Counts DEF Bounded
<1>19. Total(v, Threads) <= Allowance + 1
  <2> HIDE DEF w, v
  <2> QED
    BY <1>13, <1>18
<1> QED
  BY <1>17, <1>19

LEMMA BoundedStep ==
  ASSUME KeysAssumption, Typed, Sess, Kept, Ledger, Bounded, [Next]_vars
  PROVE  Bounded'
<1>1. lost \subseteq lost' /\ blind \subseteq blind'
  BY RightlyBefore
<1>2. ASSUME NEW s \in Slots,
             \/ Mint(s) \/ Persist(s) \/ StartBox(s) \/ Running(s) \/ Refused(s)
             \/ Closing(s) \/ Cleaning(s) \/ Failing(s)
      PROVE  Bounded'
  <2>1. op[s].on \in Threads /\ row[op[s].on] # "none"
    BY <1>2 DEF Mint, Persist, StartBox, Running, Refused, Closing, StopStamp, FinishStamp,
                ReplaceStamp, Cleaning, Settle, Delete, Clear, Failing, SpawnFails,
                StampUnverified, ReplaceAborts, SettleFails, DeleteFails, At, Typed, Served,
                Kept, Noted
  <2>2. prior' = prior /\ via' = via /\ budget' = budget /\ spent' = spent
    BY <1>2 DEF Mint, Persist, StartBox, Running, Refused, Closing, StopStamp, FinishStamp,
                ReplaceStamp, Cleaning, Settle, Delete, Clear, Failing, SpawnFails,
                StampUnverified, ReplaceAborts, SettleFails, DeleteFails, rowVars, boxVars
  <2>3. row' = row \/ \E w \in ClosedRows \cup {"running"} : Stamps(op[s].on, w)
    BY <1>2 DEF Mint, Persist, StartBox, Running, Refused, Closing, StopStamp, FinishStamp,
                ReplaceStamp, Cleaning, Settle, Delete, Clear, Failing, SpawnFails,
                StampUnverified, ReplaceAborts, SettleFails, DeleteFails, rowVars, ClosedRows
  <2>4. \A t \in Threads : row'[t] = "none" <=> row[t] = "none"
    BY <2>1, <2>3 DEF Stamps, ClosedRows, Typed, TypeOK
  <2> QED
    BY <1>1, <2>2, <2>4, BoundedSame
<1>3. ASSUME NEW s \in Slots, NEW t \in Threads,
             Stop(s, t) \/ Finish(s, t) \/ Replace(s, t) \/ Reap(s, t) \/ Sweep(s, t)
      PROVE  Bounded'
  <2>1. prior' = prior /\ via' = via /\ budget' = budget /\ spent' = spent
    BY <1>3 DEF Stop, Finish, Replace, Reap, Sweep, Asks, rowVars, boxVars
  <2>2. \A u \in Threads : row'[u] = "none" <=> row[u] = "none"
    BY <1>3 DEF Stop, Finish, Replace, Reap, Sweep, Asks, Stamps, rowVars, Typed, TypeOK,
                ActiveRows
  <2> QED
    BY <1>1, <2>1, <2>2, BoundedSame
<1>4. CASE \/ \E t \in Threads : Vanishes(t) \/ Expires(t)
           \/ \E t \in Threads, status \in Words : WorkerEnds(t, status)
           \/ SettleRun \/ UNCHANGED vars \/ \E swept \in BOOLEAN : Crash(swept)
  <2>1. prior' = prior /\ via' = via /\ budget' = budget /\ spent' = spent
    BY <1>4 DEF Vanishes, Expires, WorkerEnds, SettleRun, Crash, vars, rowVars, boxVars
  <2>2. \A t \in Threads : row'[t] = "none" <=> row[t] = "none"
    BY <1>4 DEF Vanishes, Expires, WorkerEnds, Stamps, Open, SettleRun, Crash, vars, rowVars,
                Typed, TypeOK, KeysAssumption
  <2> QED
    BY <1>1, <2>1, <2>2, BoundedSame
<1>5. ASSUME NEW t \in Threads, Spend(t) PROVE Bounded'
  <2>1. prior' = prior /\ via' = via /\ budget' = budget /\ row' = row
    BY <1>5 DEF Spend, rowVars
  <2>2. ASSUME Rightly, NEW u \in Threads, Replaced(u) PROVE u # t
    <3>1. Quiet(u)
      BY <2>2 DEF Sess, Heirs, Replaced, KeysAssumption
    <3> QED
      BY <1>5, <2>2, <3>1 DEF Quiet, Rightly, Spend
  <2>3. Rightly => \A u \in Threads : Replaced(u) => spent'[u] = spent[u]
    BY <1>5, <2>2 DEF Spend, Typed, TypeOK
  <2> QED
    BY <1>1, <2>1, <2>3, BoundedSame
<1> QED
  BY <1>2, <1>3, <1>4, <1>5, BoundedLaunch, BoundedRespawn DEF Next, Launches, Spawning

\* Replacing a lane again and again does not multiply its budget: all lanes
\* together spend a budget for each that was launched, and one floor for each
\* replacement.
THEOREM BudgetHeld == ASSUME KeysAssumption PROVE Spec => []SpendBounded
<1>1. Init => Typed /\ Sess /\ Kept /\ Ledger /\ Bounded
  BY TypesBegin, SessBegin, KeptBegin, LedgerBegin, BoundedBegin
<1>2. Typed /\ Sess /\ Kept /\ Ledger /\ Bounded /\ [Next]_vars
        => Typed' /\ Sess' /\ Kept' /\ Ledger' /\ Bounded'
  BY SessStep, KeptStep, LedgerStep, BoundedStep
<1>3. Typed /\ Ledger /\ Bounded => SpendBounded
  <2> SUFFICES ASSUME Typed, Ledger, Rightly, Single, Total(Purse, Threads) <= Allowance
               PROVE  Total(spent, Threads) <= Allowance
    BY DEF SpendBounded, Bounded, Rightly, Single, Total, Allowance, Chains, Links
  <2>1. IsFiniteSet(Threads)
    BY DEF KeysAssumption
  <2>2. \A t \in Threads : spent[t] \in Nat /\ Purse[t] \in Nat /\ spent[t] <= Purse[t]
    BY DEF Typed, TypeOK, Ledger, Within, Purse
  <2> HIDE DEF Purse
  <2>3. Total(spent, Threads) <= Total(Purse, Threads)
    BY <2>1, <2>2, TotalGrows
  <2>4. Total(spent, Threads) \in Nat /\ Total(Purse, Threads) \in Nat
    BY <2>1, <2>2, TotalType
  <2> QED
    BY <2>3, <2>4, Counts
<1> QED
  BY <1>1, <1>2, <1>3, PTL DEF Spec

-----------------------------------------------------------------------------
(* The fan-out of a parent.                                                *)

\* u is one of the entries of q.
Among(q, u) == \E i \in 1..Len(q) : q[i] = u

LEMMA AmongAppend ==
  ASSUME NEW q \in Seq(Lanes), NEW s \in Lanes
  PROVE  /\ Append(q, s) \in Seq(Lanes) /\ Among(Append(q, s), s)
         /\ \A u : Among(q, u) => Among(Append(q, s), u)
<1>1. /\ Append(q, s) \in Seq(Lanes) /\ Len(Append(q, s)) = Len(q) + 1 /\ Len(q) \in Nat
      /\ \A i \in 1..Len(q) : Append(q, s)[i] = q[i]
      /\ Append(q, s)[Len(q) + 1] = s
  BY AppendProperties, LenProperties
<1> QED
  BY <1>1 DEF Among

LEMMA AmongTail ==
  ASSUME NEW q \in Seq(Lanes), q # <<>>
  PROVE  /\ Tail(q) \in Seq(Lanes) /\ Head(q) \in Lanes
         /\ \A u : Among(q, u) => u = Head(q) \/ Among(Tail(q), u)
<1>1. /\ Head(q) \in Lanes /\ Tail(q) \in Seq(Lanes) /\ Len(Tail(q)) = Len(q) - 1
      /\ \A i \in 1..Len(Tail(q)) : Tail(q)[i] = q[i + 1]
      /\ Len(q) \in Nat
  BY HeadTailProperties, LenProperties
<1>2. ASSUME NEW u, NEW i \in 1..Len(q), q[i] = u, u # Head(q) PROVE Among(Tail(q), u)
  <2>1. i # 1
    BY <1>2
  <2>2. i - 1 \in 1..Len(Tail(q)) /\ Tail(q)[i - 1] = u
    BY <1>1, <1>2, <2>1
  <2> QED
    BY <2>2 DEF Among
<1> QED
  BY <1>1, <1>2 DEF Among

\* The backend has heard of a request: it is on its way, a bridge has it, a watcher
\* has its lane, or it was dealt with.
Known(s) ==
  \/ Among(stream, s) \/ \E r \in Replicas : Among(inbox[r], s)
  \/ watch[s] # NoReplica \/ told[s] # "none"

Unbroken == faults = 0 /\ crashes = 0

\* What NoPhantom says holds from the moment the request is on the stream, before
\* its answer is back.
Heard == Unbroken => \A s \in Lanes : reg[s] = "running" \/ s = sent => Known(s)

FanInv == FanTypeOK /\ Heard

LEMMA FanBegin == FanOutAssumption /\ FanInit => FanInv
<1> SUFFICES ASSUME FanOutAssumption, FanInit PROVE FanInv
  OBVIOUS
<1>1. FanTypeOK
  <2>1. <<>> \in Seq(Lanes)
    BY EmptySeq
  <2>2. stream \in Seq(Lanes) /\ inbox \in [Replicas -> Seq(Lanes)]
    BY <2>1 DEF FanInit
  <2>3. 0 \in 0..MaxFaults /\ 0 \in 0..MaxCrashes
    BY DEF FanOutAssumption
  <2> QED
    BY <2>2, <2>3 DEF FanInit, FanTypeOK, Live
<1>2. Heard
  BY DEF FanOutAssumption, FanInit, Heard
<1> QED
  BY <1>1, <1>2 DEF FanInv

\* What keeps the requests that are known, and the registry from naming new ones.
LEMMA HeardStays ==
  ASSUME FanInv, Unbroken' => Unbroken,
         \A s \in Lanes : reg'[s] = "running" \/ s = sent' => reg[s] = "running" \/ s = sent,
         \A s \in Lanes : Known(s) => (Known(s))'
  PROVE  Heard'
  BY DEF FanInv, Heard

\* The worker's side of it.
LEMMA FanWorker ==
  ASSUME FanOutAssumption, FanInv,
         \/ \E S \in SUBSET Lanes : Call(S)
         \/ Publishing \/ ParentEnds
         \/ \E s \in Lanes : SendFails(s) \/ LocalTimeout(s) \/ Hear(s)
  PROVE  FanInv'
<1>1. ASSUME NEW S \in SUBSET Lanes, Call(S) PROVE FanInv'
  <2>1. FanTypeOK'
    BY <1>1 DEF FanInv, FanTypeOK, Call, Live, bridgeVars, laneVars
  <2>2. \A s \in Lanes : reg'[s] = "running" \/ s = sent' => reg[s] = "running" \/ s = sent
    BY <1>1 DEF FanInv, FanTypeOK, Call
  <2>3. \A s \in Lanes : Known(s) => (Known(s))'
    BY <1>1 DEF Call, Known, bridgeVars
  <2> QED
    BY <1>1, <2>1, <2>2, <2>3, HeardStays DEF FanInv, Unbroken, Call
<1>2. ASSUME NEW s \in Lanes, Send(s) PROVE FanInv'
  <2>1. /\ stream' \in Seq(Lanes) /\ Among(stream', s)
        /\ \A u : Among(stream, u) => Among(stream', u)
    BY <1>2, AmongAppend DEF FanInv, FanTypeOK, Send
  <2>2. FanTypeOK'
    BY <1>2, <2>1 DEF FanInv, FanTypeOK, Send, laneVars
  <2>3. \A u \in Lanes : Known(u) \/ u = s => (Known(u))'
    BY <1>2, <2>1 DEF Send, Known
  <2>4. Heard'
    BY <1>2, <2>3 DEF FanInv, Heard, Send, Unbroken
  <2> QED
    BY <2>2, <2>4 DEF FanInv
<1>3. CASE Replied
  <2>1. FanTypeOK'
    BY <1>3 DEF FanInv, FanTypeOK, Replied, Sets, Live, bridgeVars, laneVars
  <2>2. \A s \in Lanes : reg'[s] = "running" \/ s = sent' => reg[s] = "running" \/ s = sent
    BY <1>3 DEF FanInv, FanTypeOK, FanOutAssumption, Replied, Sets
  <2>3. \A s \in Lanes : Known(s) => (Known(s))'
    BY <1>3 DEF Replied, Known, bridgeVars
  <2> QED
    BY <1>3, <2>1, <2>2, <2>3, HeardStays DEF FanInv, Unbroken, Replied
<1>4. CASE Arm
  <2>1. FanTypeOK'
    BY <1>4 DEF FanInv, FanTypeOK, Arm, bridgeVars, laneVars
  <2>2. \A s \in Lanes : Known(s) => (Known(s))'
    BY <1>4 DEF Arm, Known, bridgeVars
  <2> QED
    BY <1>4, <2>1, <2>2, HeardStays DEF FanInv, Unbroken, Arm
<1>5. CASE ParentEnds
  <2>1. FanTypeOK'
    BY <1>5 DEF FanInv, FanTypeOK, ParentEnds, Live, bridgeVars, laneVars
  <2>2. \A s \in Lanes : reg'[s] = "running" \/ s = sent' => reg[s] = "running" \/ s = sent
    BY <1>5 DEF FanInv, FanTypeOK, FanOutAssumption, ParentEnds, Live
  <2>3. \A s \in Lanes : Known(s) => (Known(s))'
    BY <1>5 DEF ParentEnds, Known, bridgeVars
  <2> QED
    BY <1>5, <2>1, <2>2, <2>3, HeardStays DEF FanInv, Unbroken, ParentEnds
<1>6. ASSUME NEW s \in Lanes, SendFails(s) PROVE FanInv'
  <2>1. FanTypeOK'
    BY <1>6 DEF FanInv, FanTypeOK, FanOutAssumption, SendFails, FanFault, Sets, Live, bridgeVars,
                laneVars
  <2>2. ~Unbroken'
    BY <1>6 DEF FanInv, FanTypeOK, SendFails, FanFault, Unbroken
  <2> QED
    BY <2>1, <2>2 DEF FanInv, Heard
<1>7. ASSUME NEW s \in Lanes, LocalTimeout(s) \/ Hear(s) PROVE FanInv'
  <2>1. FanTypeOK'
    BY <1>7 DEF FanInv, FanTypeOK, LocalTimeout, Hear, Sets, Live, bridgeVars, laneVars
  <2>2. \A u \in Lanes : reg'[u] = "running" \/ u = sent' => reg[u] = "running" \/ u = sent
    BY <1>7 DEF FanInv, FanTypeOK, LocalTimeout, Hear, Sets
  <2>3. \A u \in Lanes : Known(u) => (Known(u))'
    BY <1>7 DEF LocalTimeout, Hear, Known, bridgeVars
  <2> QED
    BY <1>7, <2>1, <2>2, <2>3, HeardStays DEF FanInv, Unbroken, LocalTimeout, Hear
<1> QED
  BY <1>1, <1>2, <1>3, <1>4, <1>5, <1>6, <1>7 DEF Publishing

\* What a bridge does with the request in its hand.
LEMMA FanBridge ==
  ASSUME FanOutAssumption, FanInv, NEW r \in Replicas, Bridge(r)
  PROVE  FanInv'
<1>1. /\ stream \in Seq(Lanes) /\ inbox \in [Replicas -> Seq(Lanes)] /\ inbox[r] \in Seq(Lanes)
      /\ phase \in [Replicas -> {"wait", "spawn", "start", "stamp", "veto"}]
  BY DEF FanInv, FanTypeOK
<1>2. <<>> \in Seq(Lanes) /\ \A u : ~Among(<<>>, u)
  BY EmptySeq DEF Among
<1>3. ASSUME NEW p \in {"spawn", "start", "stamp", "veto"}, Moves(r, p)
      PROVE  /\ inbox' = inbox
             /\ phase' \in [Replicas -> {"wait", "spawn", "start", "stamp", "veto"}]
  BY <1>1, <1>3 DEF Moves
<1>4. ASSUME NEW s, inbox[r] # <<>>, s = Head(inbox[r]), Drops(r)
      PROVE  /\ inbox' \in [Replicas -> Seq(Lanes)]
             /\ phase' \in [Replicas -> {"wait", "spawn", "start", "stamp", "veto"}]
             /\ \A u : (\E q \in Replicas : Among(inbox[q], u)) =>
                  u = s \/ \E q \in Replicas : Among(inbox'[q], u)
  <2>1. /\ Tail(inbox[r]) \in Seq(Lanes)
        /\ \A u : Among(inbox[r], u) => u = s \/ Among(Tail(inbox[r]), u)
    BY <1>1, <1>4, AmongTail
  <2>2. inbox' = [inbox EXCEPT ![r] = Tail(inbox[r])]
    BY <1>4 DEF Drops
  <2>3. inbox' \in [Replicas -> Seq(Lanes)] /\ inbox'[r] = Tail(inbox[r])
        /\ \A q \in Replicas : q # r => inbox'[q] = inbox[q]
    BY <1>1, <2>1, <2>2
  <2>4. phase' \in [Replicas -> {"wait", "spawn", "start", "stamp", "veto"}]
    BY <1>1, <1>4 DEF Drops
  <2> QED
    BY <2>1, <2>3, <2>4
<1>5. CASE Read(r)
  <2>1. /\ inbox[r] = <<>> /\ stream' = <<>>
        /\ inbox' \in [Replicas -> Seq(Lanes)] /\ inbox'[r] = stream
        /\ \A q \in Replicas : q # r => inbox'[q] = inbox[q]
    BY <1>1, <1>5 DEF Read
  <2>2. FanTypeOK'
    BY <1>2, <1>5, <2>1 DEF FanInv, FanTypeOK, Read, workerVars, laneVars
  <2>3. \A u \in Lanes : Known(u) => (Known(u))'
    BY <1>2, <1>5, <2>1 DEF Known, Read
  <2>4. UNCHANGED <<reg, sent, faults, crashes>>
    BY <1>5 DEF Read, workerVars
  <2> QED
    BY <2>2, <2>3, <2>4, HeardStays DEF FanInv, Unbroken
<1>6. CASE Look(r)
  <2>1. \E p \in {"spawn", "start", "stamp", "veto"} : Moves(r, p)
    BY <1>6 DEF Look
  <2>2. /\ inbox' = inbox
        /\ phase' \in [Replicas -> {"wait", "spawn", "start", "stamp", "veto"}]
    BY <1>3, <2>1
  <2>3. FanTypeOK'
    BY <1>6, <2>2 DEF FanInv, FanTypeOK, Look, workerVars, laneVars
  <2>4. UNCHANGED <<reg, sent, faults, crashes, stream, inbox, watch, told>>
    BY <1>6, <2>2 DEF Look, workerVars
  <2>5. \A u \in Lanes : Known(u) => (Known(u))'
    BY <2>4 DEF Known
  <2> QED
    BY <2>3, <2>4, <2>5, HeardStays DEF FanInv, Unbroken
<1>7. ASSUME NEW s \in Lanes, Acquire(r, s) \/ Start(r, s) PROVE FanInv'
  <2>1. \E p \in {"spawn", "start", "stamp", "veto"} : Moves(r, p)
    BY <1>7 DEF Acquire, Start
  <2>2. /\ inbox' = inbox
        /\ phase' \in [Replicas -> {"wait", "spawn", "start", "stamp", "veto"}]
    BY <1>3, <2>1
  <2>3. FanTypeOK'
    BY <1>7, <2>2 DEF FanInv, FanTypeOK, Acquire, Start, Rows, workerVars
  <2>4. UNCHANGED <<reg, sent, faults, crashes, stream, inbox, watch, told>>
    BY <1>7, <2>2 DEF Acquire, Start, workerVars
  <2>5. \A u \in Lanes : Known(u) => (Known(u))'
    BY <2>4 DEF Known
  <2> QED
    BY <2>3, <2>4, <2>5, HeardStays DEF FanInv, Unbroken
<1>8. ASSUME NEW s \in Lanes, Stamped(r, s), Drops(r) PROVE FanInv'
  <2>1. /\ inbox[r] # <<>> /\ s = Head(inbox[r])
        /\ UNCHANGED <<reg, sent, faults, crashes, stream, told>>
    BY <1>8 DEF Stamped, AtHead, workerVars
  <2>2. Moves(r, "veto") => inbox' = inbox
    BY DEF Moves
  <2>3. \/ Rows(s, "open") /\ watch' = [watch EXCEPT ![s] = r]
        \/ UNCHANGED <<laneRow, watch, inbox>>
    BY <1>8, <2>2 DEF Stamped
  <2>4. FanTypeOK'
    <3>1. /\ laneRow' \in [Lanes -> {"none", "open", "closed"}]
          /\ watch' \in [Lanes -> Replicas \cup {NoReplica}]
      <4>1. /\ laneRow \in [Lanes -> {"none", "open", "closed"}]
            /\ watch \in [Lanes -> Replicas \cup {NoReplica}]
        BY DEF FanInv, FanTypeOK
      <4>2. CASE UNCHANGED <<laneRow, watch, inbox>>
        BY <4>1, <4>2
      <4>3. CASE Rows(s, "open") /\ watch' = [watch EXCEPT ![s] = r]
        BY <4>1, <4>3 DEF Rows
      <4> QED
        BY <2>3, <4>2, <4>3
    <3>2. UNCHANGED <<workerVars, mail, stream, told, child, over, faults, crashes>>
      BY <1>8 DEF Stamped
    <3>3. stamping' \subseteq Lanes
      BY <1>8 DEF Stamped, FanInv, FanTypeOK
    <3>4. /\ inbox' \in [Replicas -> Seq(Lanes)]
          /\ phase' \in [Replicas -> {"wait", "spawn", "start", "stamp", "veto"}]
      BY <1>4, <1>8, <2>1
    <3> QED
      BY <3>1, <3>2, <3>3, <3>4 DEF FanInv, FanTypeOK, workerVars
  <2>5. \A u \in Lanes : Known(u) => (Known(u))'
    <3>1. CASE watch' = [watch EXCEPT ![s] = r]
      <4>1. r # NoReplica /\ watch \in [Lanes -> Replicas \cup {NoReplica}]
        BY DEF FanOutAssumption, FanInv, FanTypeOK
      <4>2. watch'[s] # NoReplica /\ \A u \in Lanes : watch[u] # NoReplica => watch'[u] # NoReplica
        BY <3>1, <4>1
      <4> QED
        BY <1>4, <1>8, <2>1, <4>2 DEF Known
    <3>2. CASE UNCHANGED <<laneRow, watch, inbox>>
      BY <2>1, <3>2 DEF Known
    <3> QED
      BY <2>3, <3>1, <3>2
  <2> QED
    BY <2>1, <2>4, <2>5, HeardStays DEF FanInv, Unbroken
<1>9. ASSUME NEW s \in Lanes, Stamped(r, s), Moves(r, "veto"), UNCHANGED <<laneRow, watch>>
      PROVE  FanInv'
  <2>1. /\ inbox' = inbox
        /\ phase' \in [Replicas -> {"wait", "spawn", "start", "stamp", "veto"}]
    BY <1>3, <1>9
  <2>2. FanTypeOK'
    BY <1>9, <2>1 DEF FanInv, FanTypeOK, Stamped, workerVars
  <2>3. UNCHANGED <<reg, sent, faults, crashes, stream, inbox, watch, told>>
    BY <1>9, <2>1 DEF Stamped, workerVars
  <2>4. \A u \in Lanes : Known(u) => (Known(u))'
    BY <2>3 DEF Known
  <2> QED
    BY <2>2, <2>3, <2>4, HeardStays DEF FanInv, Unbroken
<1>10. ASSUME NEW s \in Lanes, Veto(r, s) PROVE FanInv'
  <2>1. /\ inbox[r] # <<>> /\ s = Head(inbox[r]) /\ Drops(r)
        /\ UNCHANGED <<reg, sent, crashes, stream, watch>>
    BY <1>10 DEF Veto, AtHead, workerVars
  <2>2. \/ /\ told' = [told EXCEPT ![s] = "vetoed"] /\ mail' \in {mail \cup {s}, mail}
           /\ faults' = faults
        \/ faults < MaxFaults /\ faults' = faults + 1 /\ told' = told /\ mail' = mail
    BY <1>10 DEF Veto, Reports, FanFault
  <2>3. FanTypeOK'
    <3>1. faults' \in 0..MaxFaults
      BY <2>2 DEF FanInv, FanTypeOK, FanOutAssumption
    <3>2. told' \in [Lanes -> {"none", "vetoed", "ended", "timed_out"}] /\ mail' \subseteq Lanes
      BY <2>2 DEF FanInv, FanTypeOK
    <3>3. UNCHANGED <<workerVars, stream, watch, laneVars, over, crashes>>
      BY <1>10 DEF Veto
    <3>4. /\ inbox' \in [Replicas -> Seq(Lanes)]
          /\ phase' \in [Replicas -> {"wait", "spawn", "start", "stamp", "veto"}]
      BY <1>4, <2>1
    <3> QED
      BY <3>1, <3>2, <3>3, <3>4 DEF FanInv, FanTypeOK, workerVars, laneVars
  <2>4. Heard'
    <3>1. CASE told' = [told EXCEPT ![s] = "vetoed"] /\ faults' = faults
      <4>1. told'[s] # "none" /\ \A u \in Lanes : told[u] # "none" => told'[u] # "none"
        BY <3>1 DEF FanInv, FanTypeOK
      <4>2. \A u \in Lanes : Known(u) => (Known(u))'
        BY <1>4, <2>1, <4>1 DEF Known
      <4> QED
        BY <2>1, <3>1, <4>2, HeardStays DEF Unbroken
    <3>2. CASE faults' = faults + 1
      BY <3>2 DEF FanInv, FanTypeOK, Heard, Unbroken
    <3> QED
      BY <2>2, <3>1, <3>2
  <2> QED
    BY <2>3, <2>4 DEF FanInv
<1>11. \A s \in Lanes : Stamped(r, s) =>
         Drops(r) \/ (Moves(r, "veto") /\ UNCHANGED <<laneRow, watch>>)
  BY DEF Stamped
<1> QED
  BY <1>5, <1>6, <1>7, <1>8, <1>9, <1>10, <1>11 DEF Bridge

\* Who lets go of a child has reported on it.
LEMMA FanWatch ==
  ASSUME FanOutAssumption, FanInv, NEW s \in Lanes, Watch(s)
  PROVE  FanInv'
<1>1. UNCHANGED <<reg, sent, crashes, stream, inbox, phase, stamping, over>> /\ UNCHANGED workerVars
  BY DEF Watch, Ended, Overdue, workerVars, laneVars
<1>2. watch' = [watch EXCEPT ![s] = NoReplica]
  BY DEF Watch, Ended, Overdue
<1>3. \/ \E status \in {"ended", "timed_out"} :
           told' = [told EXCEPT ![s] = status] /\ mail' \in {mail \cup {s}, mail}
      \/ /\ faults < MaxFaults /\ faults' = faults + 1 /\ told' = told /\ mail' = mail
  BY DEF Watch, Ended, Overdue, Reports, FanFault
<1>4. faults' = faults \/ (faults < MaxFaults /\ faults' = faults + 1)
  BY DEF Watch, Ended, Overdue, FanFault
<1>5. /\ laneRow' \in [Lanes -> {"none", "open", "closed"}]
      /\ child' \in [Lanes -> {"none", "up", "gone"}]
  BY DEF Watch, Ended, Overdue, Rows, laneVars, FanInv, FanTypeOK
<1>6. FanTypeOK'
  <2>1. faults' \in 0..MaxFaults
    BY <1>4 DEF FanOutAssumption, FanInv, FanTypeOK
  <2>2. /\ watch' \in [Lanes -> Replicas \cup {NoReplica}]
        /\ told' \in [Lanes -> {"none", "vetoed", "ended", "timed_out"}] /\ mail' \subseteq Lanes
    BY <1>2, <1>3 DEF FanInv, FanTypeOK
  <2> QED
    BY <1>1, <1>5, <2>1, <2>2 DEF FanInv, FanTypeOK, workerVars
<1>7. Heard'
  <2>1. CASE \E status \in {"ended", "timed_out"} : told' = [told EXCEPT ![s] = status]
    <3>1. /\ told'[s] # "none" /\ \A u \in Lanes : told[u] # "none" => told'[u] # "none"
          /\ \A u \in Lanes : u # s => watch'[u] = watch[u]
      BY <1>2, <2>1 DEF FanInv, FanTypeOK
    <3>2. \A u \in Lanes : Known(u) => (Known(u))'
      BY <1>1, <3>1 DEF Known
    <3>3. Unbroken' => Unbroken
      BY <1>1, <1>4 DEF Unbroken, FanInv, FanTypeOK
    <3> QED
      BY <1>1, <3>2, <3>3, HeardStays
  <2>2. CASE faults' = faults + 1
    BY <2>2 DEF FanInv, FanTypeOK, Heard, Unbroken
  <2> QED
    BY <1>3, <2>1, <2>2
<1> QED
  BY <1>6, <1>7 DEF FanInv

\* Containers, runs and processes: a process that ends takes its requests along.
LEMMA FanRest ==
  ASSUME FanOutAssumption, FanInv,
         \/ \E s \in Lanes : Exit(s) \/ Mirror(s)
         \/ RunEnds
         \/ \E r \in Replicas : Dies(r) \/ \E s \in Lanes : StartFails(r, s)
         \/ UNCHANGED fanVars
  PROVE  FanInv'
<1>1. CASE \/ \E s \in Lanes : Exit(s) \/ Mirror(s)
           \/ RunEnds \/ UNCHANGED fanVars
  <2>1. UNCHANGED <<workerVars, mail, bridgeVars, stamping, faults, crashes>>
    BY <1>1 DEF Exit, Mirror, RunEnds, fanVars, laneVars
  <2>2. /\ laneRow' \in [Lanes -> {"none", "open", "closed"}]
        /\ child' \in [Lanes -> {"none", "up", "gone"}] /\ over' \in BOOLEAN
    <3>1. ASSUME NEW s \in Lanes, Exit(s)
        PROVE  /\ laneRow' \in [Lanes -> {"none", "open", "closed"}]
               /\ child' \in [Lanes -> {"none", "up", "gone"}] /\ over' \in BOOLEAN
      BY <3>1 DEF Exit, FanInv, FanTypeOK
    <3>2. ASSUME NEW s \in Lanes, Mirror(s)
        PROVE  /\ laneRow' \in [Lanes -> {"none", "open", "closed"}]
               /\ child' \in [Lanes -> {"none", "up", "gone"}] /\ over' \in BOOLEAN
      BY <3>2 DEF Mirror, Rows, FanInv, FanTypeOK
    <3>3. CASE RunEnds
      BY <3>3 DEF RunEnds, FanInv, FanTypeOK
    <3>4. CASE UNCHANGED fanVars
      BY <3>4 DEF fanVars, laneVars, FanInv, FanTypeOK
    <3> QED
      BY <1>1, <3>1, <3>2, <3>3, <3>4
  <2>3. FanTypeOK'
    BY <2>1, <2>2 DEF FanInv, FanTypeOK, workerVars, bridgeVars
  <2>4. Heard'
    BY <2>1 DEF FanInv, Heard, Known, Unbroken, workerVars, bridgeVars
  <2> QED
    BY <2>3, <2>4 DEF FanInv
<1>2. ASSUME NEW r \in Replicas, Dies(r) PROVE FanInv'
  <2>1. <<>> \in Seq(Lanes)
    BY EmptySeq
  <2>2. /\ inbox' \in [Replicas -> Seq(Lanes)]
        /\ phase' \in [Replicas -> {"wait", "spawn", "start", "stamp", "veto"}]
    BY <1>2, <2>1 DEF Dies, FanInv, FanTypeOK
  <2>3. /\ watch' \in [Lanes -> Replicas \cup {NoReplica}]
        /\ stamping' \subseteq Lanes /\ crashes' \in 0..MaxCrashes
    BY <1>2 DEF Dies, FanInv, FanTypeOK, FanOutAssumption
  <2>4. FanTypeOK'
    BY <1>2, <2>2, <2>3 DEF Dies, FanInv, FanTypeOK, workerVars
  <2>5. ~Unbroken'
    BY <1>2 DEF Dies, FanInv, FanTypeOK, Unbroken
  <2> QED
    BY <2>4, <2>5 DEF FanInv, Heard
<1>3. ASSUME NEW r \in Replicas, NEW s \in Lanes, StartFails(r, s) PROVE FanInv'
  <2>1. FanTypeOK'
    BY <1>3 DEF StartFails, FanFault, Rows, Moves, FanInv, FanTypeOK, FanOutAssumption, workerVars
  <2>2. ~Unbroken'
    BY <1>3 DEF StartFails, FanFault, FanInv, FanTypeOK, Unbroken
  <2> QED
    BY <2>1, <2>2 DEF FanInv, Heard
<1> QED
  BY <1>1, <1>2, <1>3

LEMMA FanStep == FanOutAssumption /\ FanInv /\ [FanNext]_fanVars => FanInv'
<1> SUFFICES ASSUME FanOutAssumption, FanInv, [FanNext]_fanVars PROVE FanInv'
  OBVIOUS
<1>1. CASE \/ \E S \in SUBSET Lanes : Call(S)
           \/ Publishing \/ ParentEnds
           \/ \E s \in Lanes : SendFails(s) \/ LocalTimeout(s) \/ Hear(s)
  BY <1>1, FanWorker
<1>2. ASSUME NEW r \in Replicas, Bridge(r) PROVE FanInv'
  BY <1>2, FanBridge
<1>3. ASSUME NEW s \in Lanes, Watch(s) PROVE FanInv'
  BY <1>3, FanWatch
<1>4. CASE \/ \E s \in Lanes : Exit(s) \/ Mirror(s)
           \/ RunEnds
           \/ \E r \in Replicas : Dies(r) \/ \E s \in Lanes : StartFails(r, s)
           \/ UNCHANGED fanVars
  BY <1>4, FanRest
<1> QED
  BY <1>1, <1>2, <1>3, <1>4 DEF FanNext

\* The variables of the worker's registry, of the bridges and of the lanes keep their
\* types, whatever faults and crashes there are.
THEOREM FanTypeCorrect == ASSUME FanOutAssumption PROVE FanSpec => []FanTypeOK
<1>1. FanInit => FanInv
  BY FanBegin
<1>2. FanInv /\ [FanNext]_fanVars => FanInv'
  BY FanStep
<1>3. FanInv => FanTypeOK
  BY DEF FanInv
<1> QED
  BY <1>1, <1>2, <1>3, PTL DEF FanSpec

\* As long as no process ended and no call raised, a lane that the registry calls
\* running is on the stream, with a bridge, under a watch, or reported: the parent
\* waits for nothing that the backend does not know of (fanout.py:72).
THEOREM NoneForgotten == ASSUME FanOutAssumption PROVE FanSpec => []NoPhantom
<1>1. FanInit => FanInv
  BY FanBegin
<1>2. FanInv /\ [FanNext]_fanVars => FanInv'
  BY FanStep
<1>3. FanInv => NoPhantom
  BY DEF FanInv, Heard, Unbroken, Known, Among, NoPhantom
<1> QED
  BY <1>1, <1>2, <1>3, PTL DEF FanSpec
=============================================================================
