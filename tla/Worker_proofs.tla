---------------------------- MODULE Worker_proofs ----------------------------
(***************************************************************************)
(* Proofs about a worker: the engine's turn, and the runner around it.     *)
(***************************************************************************)
EXTENDS EngineTurn, WorkerRunner, Compaction, SequenceTheorems, FiniteSetTheorems,
        WellFoundedInduction, TLAPS

Kinds == {"idle", "goal", "agent", "gate", "card", "tools", "compaction", "failed"}
Closed == {"idle", "failed"}

Outs == [done : BOOLEAN, force : BOOLEAN, ask : BOOLEAN, tasks : BOOLEAN, stuck : BOOLEAN,
         got : Nat, fails : [Tools -> Nat]]

\* The walk over the calls counts the results it has, and every other node finds
\* it at its beginning.
Placed == out.got + 1 = at /\ (node # "tools" => at = 1)

Typed == TurnTypeOK /\ out \in Outs

\* TypeOK in parts: what is true or false, and the rest.
Flags ==
  /\ open \in BOOLEAN /\ torn \in BOOLEAN /\ pending \in BOOLEAN /\ tasks \in BOOLEAN
  /\ done \in BOOLEAN /\ blocked \in BOOLEAN /\ error \in BOOLEAN
  /\ needs \in BOOLEAN /\ force \in BOOLEAN

Talk ==
  /\ calls \in Seq(Tools) /\ verdict \in [DOMAIN calls -> {"none", "yes", "no"}]
  /\ ran \in [DOMAIN calls -> Nat] /\ journal \in [DOMAIN calls -> {"none", "ok", "bad"}]
  /\ at \in 1..(Len(calls) + 1)

Counts ==
  /\ denied \in Nat /\ retries \in Nat /\ spins \in Nat /\ critic \in 0..3
  /\ fails \in [Tools -> Nat] /\ lapses \in Nat
  /\ goalStage \in {"intake", "clarify", "explore", "plan", "implement", "blocked"}
  /\ sent \in Nat /\ nudges \in Nat /\ turnFaults \in Nat

LEMMA Scripted == \A cs \in Scripts : cs \in Seq(Tools)
<1>1. <<>> \in Seq(Tools)
  OBVIOUS
<1>2. \A t \in Tools : <<t>> \in Seq(Tools)
  OBVIOUS
<1>3. \A t, u \in Tools : <<t, u>> \in Seq(Tools)
  OBVIOUS
<1>4. ASSUME NEW cs \in Scripts
      PROVE  \/ cs = <<>>
             \/ \E t \in Tools : cs = <<t>>
             \/ \E t, u \in Tools : cs = <<t, u>>
  BY DEF Scripts
<1> QED
  BY <1>1, <1>2, <1>3, <1>4

LEMMA FreshOut == \A f \in [Tools -> Nat] : Tally(f) \in Outs /\ Tally(f).got = 0 /\ Tally(f).fails = f
BY DEF Tally, Outs

LEMMA Blanks ==
  ASSUME NEW cs \in Seq(Tools), NEW X, NEW x \in X
  PROVE  Blank(cs, x) \in [DOMAIN cs -> X]
BY DEF Blank

LEMMA EmptyMap ==
  ASSUME NEW X
  PROVE  <<>> \in [DOMAIN <<>> -> X] /\ <<>> \in Seq(Tools) /\ Len(<<>>) = 0
OBVIOUS

-----------------------------------------------------------------------------
(* The flow from node to node.                                             *)

\* A turn that has run too many nodes is cut; otherwise the next node runs.
LEMMA Flows ==
  ASSUME TurnTypeOK, NEW next \in Kinds \ Closed, Onto(next)
  PROVE  /\ node' \in Kinds /\ steps' \in Nat /\ cuts' \in Nat
         /\ \/ node' = next /\ cuts' = cuts
            \/ node' \in Closed /\ cuts' = cuts + 1
<1>1. CASE steps + 1 >= Limit
  BY <1>1 DEF Onto, TurnOver, TurnTypeOK, Kinds, Closed
<1>2. CASE ~(steps + 1 >= Limit)
  BY <1>2 DEF Onto, TurnTypeOK, Kinds, Closed
<1> QED
  BY <1>1, <1>2

-----------------------------------------------------------------------------
(* Types.                                                                  *)

LEMMA TypesInit == TurnAssumption /\ TurnInit => Typed
<1> SUFFICES ASSUME TurnAssumption, TurnInit PROVE Typed
  OBVIOUS
<1>1. fails \in [Tools -> Nat] /\ out \in Outs
  BY FreshOut DEF TurnInit
<1>2. calls \in Seq(Tools) /\ Len(calls) = 0 /\ at \in 1..(Len(calls) + 1)
  BY EmptyMap DEF TurnInit
<1>3. /\ verdict \in [DOMAIN calls -> {"none", "yes", "no"}]
      /\ ran \in [DOMAIN calls -> Nat]
      /\ journal \in [DOMAIN calls -> {"none", "ok", "bad"}]
  BY EmptyMap DEF TurnInit
<1>4. /\ node \in Kinds \ Closed /\ goalStage = "intake" /\ critic \in 0..3
      /\ denied \in Nat /\ retries \in Nat /\ spins \in Nat /\ lapses \in Nat /\ cuts \in Nat
      /\ steps \in Nat /\ sent \in Nat /\ nudges \in Nat /\ turnFaults \in Nat
  BY DEF TurnInit, EntryNode, Kinds, Closed
<1>5. /\ open \in BOOLEAN /\ torn \in BOOLEAN /\ pending \in BOOLEAN /\ tasks \in BOOLEAN
      /\ done \in BOOLEAN /\ blocked \in BOOLEAN /\ error \in BOOLEAN
      /\ needs \in BOOLEAN /\ force \in BOOLEAN
  BY DEF TurnInit
<1> QED
  BY <1>1, <1>2, <1>3, <1>4, <1>5 DEF Kinds, Closed, Typed, TurnTypeOK

LEMMA TypesAgent ==
  ASSUME TurnAssumption, Typed, Placed, Agent
  PROVE  Typed'
<1>1. CASE \E cs \in Scripts : Answers(cs)
  <2> PICK cs \in Scripts : Answers(cs)
    BY <1>1
  <2>1. cs \in Seq(Tools)
    BY Scripted
  <2>2. /\ calls' \in Seq(Tools)
        /\ verdict' \in [DOMAIN calls' -> {"none", "yes", "no"}]
        /\ ran' \in [DOMAIN calls' -> Nat]
        /\ journal' \in [DOMAIN calls' -> {"none", "ok", "bad"}]
    BY <2>1, Blanks DEF Answers
  <2>3. node' \in Kinds /\ steps' \in Nat /\ cuts' \in Nat
    <3>1. CASE cs = <<>> /\ ~Goal
      BY <3>1 DEF Answers, TurnOver, Typed, TurnTypeOK, Kinds
    <3>2. ASSUME NEW next \in Kinds \ Closed, Onto(next)
          PROVE  node' \in Kinds /\ steps' \in Nat /\ cuts' \in Nat
      BY <3>2, Flows DEF Typed
    <3> QED
      BY <3>1, <3>2 DEF Answers, TurnAssumption, Kinds, Closed
  <2>4. at' \in 1..(Len(calls') + 1)
    BY <2>2 DEF Answers, Placed
  <2>5. Flags' /\ out' \in Outs
    BY DEF Answers, Typed, TurnTypeOK, Flags, goalVars, flags
  <2>6. Counts'
    BY DEF Answers, Typed, TurnTypeOK, Counts, goalVars, flags
  <2> QED
    BY <2>2, <2>3, <2>4, <2>5, <2>6 DEF Typed, TurnTypeOK, Flags, Counts, Kinds
<1>2. CASE Overflows
  BY <1>2, Flows DEF Overflows, Typed, TurnTypeOK, Kinds, Closed, talkVars, goalVars, toolVars, boundVars, flags
<1>3. CASE AgentFails
  BY <1>3 DEF AgentFails, TurnOver, Typed, TurnTypeOK, talkVars, goalVars, packVars, toolVars, boundVars
<1> QED
  BY <1>1, <1>2, <1>3 DEF Agent

LEMMA TypesGate ==
  ASSUME TurnAssumption, Typed, Gate
  PROVE  Typed'
<1>1. ASSUME NEW ok \in BOOLEAN, GateDecides(ok)
      PROVE  Typed'
  <2>1. verdict' \in [DOMAIN calls -> {"none", "yes", "no"}]
    BY <1>1 DEF GateDecides, Typed, TurnTypeOK
  <2>2. denied' \in Nat
    BY <1>1 DEF GateDecides, Streak, Typed, TurnTypeOK
  <2>3. node' \in Kinds /\ steps' \in Nat /\ cuts' \in Nat
    <3>1. CASE denied' >= 3
      BY <1>1, <3>1 DEF GateDecides, TurnOver, Typed, TurnTypeOK, Kinds
    <3>2. ASSUME NEW next \in {"gate", "tools"}, Onto(next)
          PROVE  node' \in Kinds /\ steps' \in Nat /\ cuts' \in Nat
      BY <3>2, Flows DEF Typed, Kinds, Closed
    <3> QED
      BY <1>1, <3>1, <3>2 DEF GateDecides
  <2>4. Flags'
    BY <1>1 DEF GateDecides, Typed, TurnTypeOK, Flags, goalVars, packVars, flags
  <2>5. /\ calls' = calls /\ ran' = ran /\ journal' = journal /\ at' = at /\ out' = out
        /\ retries' = retries /\ spins' = spins /\ critic' = critic /\ fails' = fails
        /\ lapses' = lapses /\ goalStage' = goalStage /\ sent' = sent /\ nudges' = nudges
        /\ turnFaults' = turnFaults
    BY <1>1 DEF GateDecides, goalVars, packVars, toolVars, boundVars
  <2> QED
    BY <2>1, <2>2, <2>3, <2>4, <2>5 DEF Typed, TurnTypeOK, Flags, Kinds
<1>2. CASE GatePasses
  <2>1. verdict' \in [DOMAIN calls -> {"none", "yes", "no"}]
    BY <1>2 DEF GatePasses, Typed, TurnTypeOK
  <2>2. denied' \in Nat
    BY <1>2 DEF GatePasses, Streak, Typed, TurnTypeOK
  <2> QED
    BY <1>2, <2>1, <2>2, Flows DEF GatePasses, Typed, TurnTypeOK, Kinds, Closed, goalVars, packVars, toolVars, boundVars, flags
<1>3. CASE GateAsks
  BY <1>3 DEF GateAsks, Typed, TurnTypeOK, talkVars, goalVars, packVars, toolVars, boundVars, flags
<1> QED
  BY <1>1, <1>2, <1>3 DEF Gate, GateDenies, CardDecided

LEMMA Resulting ==
  ASSUME Typed, at \in DOMAIN calls, NEW ok \in BOOLEAN, Counted(ok)
  PROVE  out' \in Outs /\ out'.got = out.got + 1
<1>1. calls[at] \in Tools
  BY DEF Typed, TurnTypeOK
<1>2. (IF ok THEN 0 ELSE out.fails[calls[at]] + 1) \in Nat
  BY <1>1 DEF Typed, Outs
<1> QED
  BY <1>1, <1>2 DEF Counted, Typed, Outs

LEMMA TypesTools ==
  ASSUME TurnAssumption, Typed, ToolsNode
  PROVE  Typed'
<1>1. ASSUME AtCall, NEW ok \in BOOLEAN, Result(ok),
             ran' \in [DOMAIN calls -> Nat],
             journal' \in [DOMAIN calls -> {"none", "ok", "bad"}], lapses' = lapses
      PROVE  Typed'
  <2>1. out' \in Outs
    BY <1>1, Resulting DEF AtCall, Result
  <2>2. at' \in 1..(Len(calls) + 1)
    BY <1>1 DEF AtCall, Result, Typed, TurnTypeOK
  <2> QED
    BY <1>1, <2>1, <2>2 DEF Result, Typed, TurnTypeOK, flowVars, talkVars, goalVars, packVars, boundVars, flags
<1>2. CASE ToolDenied
  BY <1>1, <1>2 DEF ToolDenied, Typed, TurnTypeOK
<1>3. CASE ToolReplays
  BY <1>1, <1>3 DEF ToolReplays, Typed, TurnTypeOK
<1>4. ASSUME NEW ok \in BOOLEAN, RunsTool(ok)
      PROVE  ran' \in [DOMAIN calls -> Nat]
  BY <1>4 DEF RunsTool, AtCall, Typed, TurnTypeOK
<1>5. ASSUME NEW ok \in BOOLEAN, ToolRuns(ok) PROVE Typed'
  <2>1. journal' \in [DOMAIN calls -> {"none", "ok", "bad"}]
    BY <1>5 DEF ToolRuns, Typed, TurnTypeOK
  <2> QED
    BY <1>1, <1>4, <1>5, <2>1 DEF ToolRuns, RunsTool
<1>6. Tally(fails) \in Outs /\ 1 \in 1..(Len(calls) + 1)
  BY FreshOut DEF Typed, TurnTypeOK
<1>7. ASSUME NEW ok \in BOOLEAN, ToolCut(ok) PROVE Typed'
  BY <1>4, <1>6, <1>7 DEF ToolCut, TurnFault, Typed, TurnTypeOK, flowVars, talkVars, goalVars, packVars, flags
<1>8. ASSUME NEW ok \in BOOLEAN, RecordFails(ok) PROVE Typed'
  BY <1>4, <1>6, <1>8 DEF RecordFails, TurnOver, TurnFault, Typed, TurnTypeOK, talkVars, goalVars, packVars, flags
<1>9. CASE ToolsCrash
  BY <1>6, <1>9 DEF ToolsCrash, TurnFault, Typed, TurnTypeOK, flowVars, talkVars, goalVars, packVars, flags
<1>10. CASE ToolsEnd
  <2>1. out \in Outs /\ fails' \in [Tools -> Nat] /\ out' \in Outs
    BY <1>10, FreshOut DEF ToolsEnd, Typed, Outs
  <2>2. /\ done' \in BOOLEAN /\ blocked' \in BOOLEAN /\ error' \in BOOLEAN /\ open' \in BOOLEAN
        /\ force' \in BOOLEAN /\ pending' \in BOOLEAN /\ tasks' \in BOOLEAN
    BY <1>10, <2>1 DEF ToolsEnd, Typed, TurnTypeOK, Outs
  <2> QED
    BY <1>6, <1>10, <2>1, <2>2, Flows DEF ToolsEnd, Typed, TurnTypeOK, Kinds, Closed, boundVars
<1> QED
  BY <1>2, <1>3, <1>5, <1>7, <1>8, <1>9, <1>10 DEF ToolsNode

LEMMA TypesRest ==
  ASSUME TurnAssumption, Typed, Placed, CriticBounded,
         Router \/ Nudge \/ \E pruned \in BOOLEAN : Compacts(pruned)
  PROVE  Typed'
<1>1. CASE \E vague \in BOOLEAN : Intake(vague)
  BY <1>1, Flows DEF Intake, Typed, TurnTypeOK, Kinds, Closed, talkVars, packVars, toolVars, boundVars, flags
<1>2. CASE GoalEnds
  BY <1>2 DEF GoalEnds, TurnOver, Typed, TurnTypeOK, talkVars, goalVars, packVars, toolVars, boundVars
<1>3. CASE GoalAdvances
  <2>0. pending' \in BOOLEAN
    BY <1>3 DEF GoalAdvances, Typed, TurnTypeOK
  <2>1. goalStage' \in {"explore", "plan"} /\ critic' \in 0..3
    BY <1>3 DEF GoalAdvances, Typed, TurnTypeOK
  <2>2. node' \in Kinds /\ steps' \in Nat /\ cuts' \in Nat
    BY <1>3, Flows DEF GoalAdvances, Typed, Kinds, Closed
  <2> QED
    BY <1>3, <2>0, <2>1, <2>2
    DEF GoalAdvances, Typed, TurnTypeOK, Kinds, talkVars, packVars, toolVars, boundVars, flags
<1>4. CASE PlanRefused
  <2>1. critic' \in 0..3
    BY <1>4 DEF PlanRefused, Critic, CriticBounded, Typed, TurnTypeOK
  <2>2. node' \in Kinds /\ steps' \in Nat /\ cuts' \in Nat
    BY <1>4, Flows DEF PlanRefused, TurnOver, Typed, TurnTypeOK, Kinds, Closed
  <2> QED
    BY <1>4, <2>1, <2>2
    DEF PlanRefused, Typed, TurnTypeOK, Kinds, talkVars, packVars, toolVars, boundVars
<1>5. CASE Nudge
  <2>1. /\ calls' \in Seq(Tools) /\ Len(calls') = 0
        /\ verdict' \in [DOMAIN calls' -> {"none", "yes", "no"}]
        /\ ran' \in [DOMAIN calls' -> Nat]
        /\ journal' \in [DOMAIN calls' -> {"none", "ok", "bad"}]
    BY <1>5, EmptyMap DEF Nudge
  <2>2. Flags' /\ out' \in Outs
    BY <1>5 DEF Nudge, Typed, TurnTypeOK, Flags, goalVars
  <2>3. Counts'
    BY <1>5 DEF Nudge, Typed, TurnTypeOK, Counts, goalVars
  <2>4. node' \in Kinds /\ steps' \in Nat /\ cuts' \in Nat
    BY <1>5 DEF Nudge, EntryNode, Typed, TurnTypeOK, Kinds
  <2>5. at' \in 1..(Len(calls') + 1)
    BY <1>5, <2>1 DEF Nudge, Placed
  <2> QED
    BY <2>1, <2>2, <2>3, <2>4, <2>5 DEF Typed, TurnTypeOK, Flags, Counts, Kinds
<1>6. CASE \E pruned \in BOOLEAN : Compacts(pruned)
  <2> PICK pruned \in BOOLEAN : Compacts(pruned)
    BY <1>6
  <2>1. node' \in Kinds /\ steps' \in Nat /\ cuts' \in Nat
    BY Flows DEF Compacts, TurnOver, Typed, TurnTypeOK, Kinds, Closed
  <2>2. Flags' /\ out' \in Outs
    BY DEF Compacts, Typed, TurnTypeOK, Flags, goalVars, toolVars, flags
  <2>3. Counts'
    BY DEF Compacts, Packed, Typed, TurnTypeOK, Counts, goalVars, toolVars, boundVars
  <2>4. Talk'
    BY DEF Compacts, Typed, TurnTypeOK, Talk, toolVars
  <2> QED
    BY <2>1, <2>2, <2>3, <2>4 DEF Typed, TurnTypeOK, Flags, Counts, Talk, Kinds
<1> QED
  BY <1>1, <1>2, <1>3, <1>4, <1>5, <1>6 DEF Router

-----------------------------------------------------------------------------
(* The inductive invariant.                                                *)

\* Whatever reaches the tools has been decided, or needs no decision.
Settled == node = "tools" => \A i \in DOMAIN calls : verdict[i] = "none" => Passes(calls[i])

\* Each effect of a protected call is in the journal, or a fault has left it out.
Recorded ==
  \A i \in DOMAIN calls :
    calls[i] \in Journaled => ran[i] <= lapses + (IF journal[i] = "none" THEN 0 ELSE 1)

\* Only the gate and the tools, or a turn that was cut there, have open calls.
OpenAt ==
  /\ open => node \in {"gate", "card", "tools"} \/ (node \in Closed /\ cuts > 0)
  /\ torn => cuts > 0

\* An overflow uses up the one retry.
Spun ==
  /\ spins <= 1
  /\ spins = 1 => retries >= 1 \/ (force /\ node = "compaction") \/ node \in Closed

\* A card waits for a call that cannot pass by itself.
Carded == node = "card" => Stoppers # {}

Holds ==
  /\ Typed /\ Placed /\ CriticBounded /\ Settled /\ OnlyDecidedRun /\ Recorded /\ OpenAt /\ Spun
  /\ Carded

\* The least element of a set of numbers.
LEMMA Below ==
  ASSUME NEW S, S \subseteq Nat, NEW R, NEW x \in S,
         \A y \in S : y < x => <<y, x>> \in R,
         \A y \in S : <<y, x>> \notin R
  PROVE  \A y \in S : x <= y
<1> TAKE y \in S
<1>1. ~(y < x)
  OBVIOUS
<1>2. x \in Nat /\ y \in Nat
  OBVIOUS
<1> QED
  BY <1>1, <1>2, SMT

LEMMA Least ==
  ASSUME NEW S, S \subseteq Nat, S # {}
  PROVE  Min(S) \in S /\ \A y \in S : Min(S) <= y
<1>1. \A x, y \in Nat : x < y => <<x, y>> \in OpToRel(<, Nat)
  BY DEF OpToRel
<1>2. \E x \in S : \A y \in S : <<y, x>> \notin OpToRel(<, Nat)
  BY NatLessThanWellFounded, WFMin, Zenon
<1>3. \E x \in S : \A y \in S : x <= y
  BY <1>1, <1>2, Below, Zenon
<1> QED
  BY <1>3 DEF Min

\* The call the gate stops at is one that is undecided and cannot pass.
LEMMA FirstStops ==
  ASSUME Typed, Stoppers # {}
  PROVE  First \in Stoppers
<1>1. Stoppers \subseteq Nat
  BY DEF Stoppers, Undecided, Typed, TurnTypeOK
<1> QED
  BY <1>1, Least DEF First

\* Only the gate goes to the card.
LEMMA NoCard ==
  ASSUME TurnAssumption,
         Agent \/ ToolsNode \/ Router \/ Nudge \/ (\E pruned \in BOOLEAN : Compacts(pruned)),
         Holds
  PROVE  Carded'
<1> SUFFICES node' # "card"
  BY DEF Carded
<1>1. ASSUME NEW next \in {"goal", "agent", "gate", "tools", "compaction"}, Onto(next)
      PROVE  node' # "card"
  BY <1>1 DEF Onto, TurnOver
<1>2. CASE Agent
  <2>1. ASSUME NEW cs \in Scripts, Answers(cs) PROVE node' # "card"
    BY <1>1, <2>1 DEF Answers, TurnOver, TurnAssumption
  <2> QED
    BY <1>1, <1>2, <2>1 DEF Agent, Overflows, AgentFails, TurnOver
<1>3. CASE ToolsNode
  BY <1>1, <1>3
  DEF ToolsNode, ToolDenied, ToolReplays, ToolsCrash, ToolsEnd, ToolRuns, ToolCut, RecordFails, Result,
      RunsTool, AtCall, TurnOver, flowVars
<1>4. CASE Router
  BY <1>1, <1>4 DEF Router, Intake, GoalEnds, GoalAdvances, PlanRefused, TurnOver
<1>5. CASE Nudge
  BY <1>5 DEF Nudge, EntryNode
<1>6. CASE \E pruned \in BOOLEAN : Compacts(pruned)
  BY <1>1, <1>6 DEF Compacts, TurnOver
<1> QED
  BY <1>2, <1>3, <1>4, <1>5, <1>6

\* What an action may write into the cut of the turn.
LEMMA CutsGrow ==
  ASSUME Holds, cuts' \in {cuts, cuts + 1}
  PROVE  cuts' \in Nat /\ (cuts > 0 => cuts' > 0)
BY DEF Holds, Typed, TurnTypeOK

LEMMA HoldsInit == TurnAssumption /\ TurnInit => Holds
<1> SUFFICES ASSUME TurnAssumption, TurnInit PROVE Holds
  OBVIOUS
<1>1. Typed
  BY TypesInit
<1>2. Placed /\ CriticBounded /\ OpenAt /\ Spun /\ Carded
  BY FreshOut DEF TurnInit, EntryNode, Placed, CriticBounded, OpenAt, Spun, Carded
<1>3. DOMAIN calls = {} /\ node # "tools"
  BY EmptyMap DEF TurnInit, EntryNode
<1>4. Settled /\ OnlyDecidedRun /\ Recorded
  BY <1>3 DEF Settled, OnlyDecidedRun, Recorded
<1> QED
  BY <1>1, <1>2, <1>4 DEF Holds

LEMMA HoldsAgent ==
  ASSUME TurnAssumption, Holds, Agent
  PROVE  Holds'
<1>0. Carded'
  BY NoCard
<1>1. Typed'
  BY TypesAgent DEF Holds
<1>2. CASE \E cs \in Scripts : Answers(cs)
  <2> PICK cs \in Scripts : Answers(cs)
    BY <1>2
  <2>1. cs \in Seq(Tools)
    BY Scripted
  <2>2. \A i \in DOMAIN calls' : /\ calls'[i] = cs[i] /\ cs[i] \in Tools /\ ran'[i] = 0
                                 /\ verdict'[i] = "none" /\ journal'[i] = "none"
    BY <2>1 DEF Answers, Blank
  <2>3. OnlyDecidedRun' /\ Recorded'
    BY <2>2 DEF Answers, OnlyDecidedRun, Recorded, Holds, Typed, TurnTypeOK
  <2>4. Settled'
    <3>1. node' = "tools" => ~Gated(cs)
      <4>1. ASSUME NEW next, Onto(next), node' = "tools" PROVE next = "tools"
        BY <4>1 DEF Onto, TurnOver
      <4>2. CASE cs = <<>>
        BY <4>1, <4>2 DEF Answers, TurnOver, TurnAssumption
      <4>3. CASE cs # <<>> /\ Gated(cs)
        BY <4>1, <4>3 DEF Answers
      <4> QED
        BY <4>2, <4>3
    <3>2. ~Gated(cs) => \A i \in DOMAIN cs : Passes(cs[i])
      BY <2>1 DEF Gated, RulesActive, Passes, TurnAssumption
    <3> QED
      BY <2>2, <3>1, <3>2 DEF Answers, Settled, Passes
  <2>5. Placed'
    BY Flows DEF Answers, TurnOver, Placed, Holds
  <2>6. OpenAt'
    <3>1. cs # <<>> => \/ node' \in {"gate", "tools"}
                       \/ node' \in Closed /\ cuts' = cuts + 1
      BY Flows DEF Answers, Holds, Typed, Kinds, Closed
    <3> QED
      BY <3>1 DEF Answers, OpenAt, Holds, Typed, TurnTypeOK
  <2>7. CriticBounded' /\ Spun'
    BY DEF Answers, CriticBounded, Spun, goalVars, flags, Holds
  <2> QED
    BY <1>0, <1>1, <2>3, <2>4, <2>5, <2>6, <2>7 DEF Holds
<1>3. CASE Overflows
  <2>1. /\ node = "agent" /\ retries = 0 /\ spins' = spins + 1 /\ force' /\ retries' = retries
        /\ UNCHANGED <<talkVars, goalVars, toolVars, boundVars, flags, lapses>>
    BY <1>3 DEF Overflows, Holds, Typed, TurnTypeOK
  <2>2. /\ node' \in {"compaction"} \cup Closed /\ cuts' \in {cuts, cuts + 1}
    BY <1>3, Flows DEF Overflows, Holds, Typed, Kinds, Closed
  <2>3. Placed' /\ CriticBounded' /\ Recorded' /\ OpenAt'
    BY <2>1, <2>2, CutsGrow DEF Placed, CriticBounded, Recorded, OpenAt, Closed, talkVars, goalVars, toolVars, flags, Holds
  <2>4. Settled' /\ OnlyDecidedRun'
    BY <2>1, <2>2 DEF Settled, OnlyDecidedRun, Passes, Closed, talkVars, toolVars, Holds
  <2>5. Spun'
    BY <2>1, <2>2 DEF Spun, Closed, Holds, Typed, TurnTypeOK
  <2> QED
    BY <1>0, <1>1, <2>3, <2>4, <2>5 DEF Holds
<1>4. CASE AgentFails
  <2>1. /\ node = "agent" /\ node' \in Closed
        /\ UNCHANGED <<cuts, talkVars, goalVars, packVars, toolVars, boundVars, blocked, lapses>>
    BY <1>4 DEF AgentFails, TurnOver, Closed
  <2>2. Placed' /\ CriticBounded' /\ Recorded' /\ OpenAt' /\ Spun'
    BY <2>1 DEF Placed, CriticBounded, Recorded, OpenAt, Spun, Closed, talkVars, goalVars, packVars, toolVars, Holds
  <2>3. Settled' /\ OnlyDecidedRun'
    BY <2>1 DEF Settled, OnlyDecidedRun, Passes, Closed, talkVars, toolVars, Holds
  <2> QED
    BY <1>0, <1>1, <2>2, <2>3 DEF Holds
<1> QED
  BY <1>2, <1>3, <1>4 DEF Agent

\* The gate decides calls that have not been decided, and no others.
LEMMA HoldsGate ==
  ASSUME TurnAssumption, Holds, Gate
  PROVE  Holds'
<1>1. Typed'
  BY TypesGate DEF Holds
<1>2. ASSUME UNCHANGED <<calls, torn, open, goalVars, packVars, toolVars, lapses>>,
             blocked => blocked', node \in {"gate", "card"},
             node' \in Kinds \ {"compaction", "agent", "goal", "card"}, cuts' \in {cuts, cuts + 1},
             node' \in Closed => cuts' = cuts + 1,
             \A i \in DOMAIN calls : verdict[i] # "none" => verdict'[i] = verdict[i],
             node' = "tools" => \A i \in DOMAIN calls : verdict'[i] = "none" => Passes(calls[i])
      PROVE  Holds'
  <2>1. Placed' /\ CriticBounded' /\ Recorded' /\ Spun'
    BY <1>1, <1>2 DEF Placed, CriticBounded, Recorded, Spun, Closed, goalVars, packVars, toolVars, Holds, Typed, TurnTypeOK
  <2>2. OpenAt'
    BY <1>2, CutsGrow DEF OpenAt, Closed, Kinds, Holds, Typed, TurnTypeOK
  <2>3. Settled' /\ OnlyDecidedRun'
    BY <1>2 DEF Settled, OnlyDecidedRun, Passes, toolVars, Holds, Typed, TurnTypeOK
  <2>4. Carded'
    BY <1>2 DEF Carded
  <2> QED
    BY <1>1, <2>1, <2>2, <2>3, <2>4 DEF Holds
<1>3. ASSUME NEW ok \in BOOLEAN, GateDecides(ok), node \in {"gate", "card"}, Stoppers # {}
      PROVE  Holds'
  <2> DEFINE left == Undecided \ (PassedCalls \cup {First})
             again == left # {} /\ (RulesActive \/ \E i \in left : calls[i] \in Mutating)
  <2>0. \A i \in DOMAIN calls : verdict[i] # "none" => verdict'[i] = verdict[i]
    <3>1. First \in Undecided
      BY <1>3, FirstStops DEF Stoppers, Holds
    <3> QED
      BY <1>3, <3>1 DEF GateDecides, Undecided, PassedCalls
  <2>1. CASE denied' >= 3
    <3>1. node' = "idle" /\ cuts' = cuts + 1 /\ blocked'
      BY <1>3, <2>1 DEF GateDecides, TurnOver
    <3> QED
      BY <1>2, <1>3, <2>0, <3>1 DEF GateDecides, Kinds
  <2>2. CASE ~(denied' >= 3)
    <3>1. Onto(IF again THEN "gate" ELSE "tools") /\ UNCHANGED flags
      BY <1>3, <2>2 DEF GateDecides
    <3>2. /\ node' \in {"gate", "tools"} \cup Closed /\ cuts' \in {cuts, cuts + 1}
          /\ node' \in Closed => cuts' = cuts + 1
          /\ node' = "tools" => ~again
      BY <3>1, Flows DEF Holds, Typed, Kinds, Closed
    <3>4. ~again => \A i \in left : Passes(calls[i])
      BY DEF RulesActive, Passes, Undecided, TurnAssumption, Holds, Typed, TurnTypeOK
    <3>5. \A i \in DOMAIN calls : verdict'[i] = "none" => i \in left
      BY <1>3 DEF GateDecides, Undecided, PassedCalls
    <3> QED
      BY <1>2, <1>3, <2>0, <3>1, <3>2, <3>4, <3>5 DEF GateDecides, flags, Kinds, Closed
  <2> QED
    BY <2>1, <2>2
<1>4. CASE GatePasses
  <2>1. node' \in {"tools"} \cup Closed /\ cuts' \in {cuts, cuts + 1} /\ (node' \in Closed => cuts' = cuts + 1)
    BY <1>4, Flows DEF GatePasses, Holds, Typed, Kinds, Closed
  <2>2. \A i \in DOMAIN calls : verdict[i] # "none" => verdict'[i] = verdict[i]
    BY <1>4 DEF GatePasses, Undecided, PassedCalls
  <2>3. \A i \in DOMAIN calls : verdict'[i] # "none"
    BY <1>4 DEF GatePasses, Undecided, PassedCalls
  <2> QED
    BY <1>2, <1>4, <2>1, <2>2, <2>3 DEF GatePasses, flags, Kinds, Closed
<1>5. CASE GateAsks
  <2>1. Placed' /\ CriticBounded' /\ Recorded' /\ Spun' /\ OpenAt'
    BY <1>5 DEF GateAsks, Placed, CriticBounded, Recorded, Spun, OpenAt, Closed, talkVars, goalVars, packVars, toolVars, flags, Holds
  <2>2. Settled' /\ OnlyDecidedRun'
    BY <1>5 DEF GateAsks, Settled, OnlyDecidedRun, Passes, talkVars, toolVars, Holds
  <2>3. Carded'
    BY <1>5 DEF GateAsks, Carded, Stoppers, Undecided, Passes, talkVars
  <2> QED
    BY <1>1, <2>1, <2>2, <2>3 DEF Holds
<1> QED
  BY <1>3, <1>4, <1>5 DEF Gate, GateDenies, CardDecided, Carded, Holds

\* The tools run what was settled, and record what is protected.
LEMMA HoldsTools ==
  ASSUME TurnAssumption, Holds, ToolsNode
  PROVE  Holds'
<1>0. Carded'
  BY NoCard
<1>1. Typed'
  BY TypesTools DEF Holds
<1>2. ASSUME node = "tools", UNCHANGED <<calls, verdict, torn, open, goalVars, packVars, blocked>>,
             node' = "tools" \/ (node' \in Closed /\ cuts' = cuts + 1 /\ at' = 1),
             cuts' \in {cuts, cuts + 1}, out'.got + 1 = at'
      PROVE  Placed' /\ CriticBounded' /\ OpenAt' /\ Spun' /\ Settled'
  <2>1. Placed' /\ CriticBounded' /\ Spun'
    BY <1>2 DEF Placed, CriticBounded, Spun, Closed, goalVars, packVars, Holds
  <2>2. OpenAt'
    BY <1>2, CutsGrow DEF OpenAt, Closed, Holds, Typed, TurnTypeOK
  <2>3. Settled'
    BY <1>2 DEF Settled, Passes, Closed, Holds
  <2> QED
    BY <2>1, <2>2, <2>3
<1>3. ASSUME NEW ok \in BOOLEAN, AtCall, Result(ok)
      PROVE  Placed' /\ CriticBounded' /\ OpenAt' /\ Spun' /\ Settled'
  <2>1. out'.got = out.got + 1 /\ at' = at + 1
    BY <1>3, Resulting DEF AtCall, Result, Holds
  <2>2. out'.got + 1 = at'
    BY <2>1 DEF Holds, Placed, Typed, TurnTypeOK, Outs
  <2> QED
    BY <1>2, <1>3, <2>2 DEF AtCall, Result, flowVars, talkVars, goalVars, packVars, flags
<1>4. ASSUME NEW ok \in BOOLEAN, RunsTool(ok), UNCHANGED <<calls, verdict>>
      PROVE  OnlyDecidedRun'
  <2>1. verdict[at] # "no" /\ at \in DOMAIN calls /\ node = "tools"
    BY <1>4 DEF RunsTool, AtCall
  <2>2. Passes(calls[at]) \/ verdict[at] = "yes"
    BY <2>1 DEF Holds, Settled, Typed, TurnTypeOK
  <2> QED
    BY <1>4, <2>1, <2>2 DEF RunsTool, OnlyDecidedRun, Passes, Holds, Typed, TurnTypeOK
<1>5. ASSUME NEW ok \in BOOLEAN, RunsTool(ok), UNCHANGED calls,
             \/ lapses' = lapses + 1 /\ journal' = journal
             \/ /\ lapses' = lapses
                /\ \A i \in DOMAIN calls : i # at => journal'[i] = journal[i]
                /\ calls[at] \in Journaled => journal'[at] # "none"
      PROVE  Recorded'
  <2>1. /\ journal[at] = "none" /\ at \in DOMAIN calls
        /\ ran' = [ran EXCEPT ![at] = @ + 1]
    BY <1>5 DEF RunsTool, AtCall, Hit
  <2>2. /\ lapses \in Nat /\ ran \in [DOMAIN calls -> Nat]
    BY DEF Holds, Typed, TurnTypeOK
  <2>3. ASSUME NEW i \in DOMAIN calls, calls[i] \in Journaled
        PROVE  ran'[i] <= lapses' + (IF journal'[i] = "none" THEN 0 ELSE 1)
    <3>1. ran[i] <= lapses + (IF journal[i] = "none" THEN 0 ELSE 1)
      BY <2>3 DEF Holds, Recorded
    <3>2. CASE i = at
      <4>1. ran'[i] = ran[i] + 1 /\ ran[i] <= lapses
        BY <2>1, <2>2, <3>1, <3>2
      <4> QED
        BY <1>5, <2>2, <2>3, <3>2, <4>1
    <3>3. CASE i # at
      <4>1. ran'[i] = ran[i]
        BY <2>1, <2>2, <3>3
      <4> QED
        BY <1>5, <2>2, <3>1, <3>3, <4>1
    <3> QED
      BY <3>2, <3>3
  <2> QED
    BY <1>5, <2>3 DEF Recorded
<1>6. CASE ToolDenied
  BY <1>0, <1>1, <1>3, <1>6 DEF ToolDenied, Result, OnlyDecidedRun, Recorded, Passes, talkVars, Holds
<1>7. CASE ToolReplays
  BY <1>0, <1>1, <1>3, <1>7 DEF ToolReplays, Result, OnlyDecidedRun, Recorded, Passes, talkVars, Holds, Typed, TurnTypeOK
<1>8. ASSUME NEW ok \in BOOLEAN, ToolRuns(ok) PROVE Holds'
  <2>1. RunsTool(ok) /\ AtCall /\ Result(ok) /\ UNCHANGED <<calls, verdict>> /\ lapses' = lapses
    BY <1>8 DEF ToolRuns, RunsTool, Result, talkVars
  <2>2. /\ \A i \in DOMAIN calls : i # at => journal'[i] = journal[i]
        /\ calls[at] \in Journaled => journal'[at] # "none"
    BY <1>8, <2>1 DEF ToolRuns, AtCall, Holds, Typed, TurnTypeOK
  <2>3. Placed' /\ CriticBounded' /\ OpenAt' /\ Spun' /\ Settled'
    BY <1>3, <2>1
  <2>4. OnlyDecidedRun'
    BY <1>4, <2>1
  <2>5. Recorded'
    BY <1>5, <2>1, <2>2
  <2> QED
    BY <1>0, <1>1, <2>3, <2>4, <2>5 DEF Holds
<1>9. Tally(fails).got + 1 = 1
  BY FreshOut DEF Holds, Typed, TurnTypeOK
<1>10. ASSUME NEW ok \in BOOLEAN, ToolCut(ok) \/ RecordFails(ok) PROVE Holds'
  <2>1. /\ RunsTool(ok) /\ UNCHANGED <<calls, verdict, torn, open, goalVars, packVars, blocked>>
        /\ lapses' = lapses + 1 /\ journal' = journal /\ node = "tools"
        /\ at' = 1 /\ out' = Tally(fails)
    BY <1>10 DEF ToolCut, RecordFails, RunsTool, AtCall, talkVars, flags
  <2>2. /\ node' = "tools" \/ (node' \in Closed /\ cuts' = cuts + 1 /\ at' = 1)
        /\ cuts' \in {cuts, cuts + 1}
    BY <1>10, <2>1 DEF ToolCut, RecordFails, TurnOver, Closed, flowVars
  <2>3. Placed' /\ CriticBounded' /\ OpenAt' /\ Spun' /\ Settled'
    BY <1>2, <1>9, <2>1, <2>2
  <2>4. OnlyDecidedRun'
    BY <1>4, <2>1
  <2>5. Recorded'
    BY <1>5, <2>1
  <2> QED
    BY <1>0, <1>1, <2>3, <2>4, <2>5 DEF Holds
<1>11. CASE ToolsCrash
  <2>1. Placed' /\ CriticBounded' /\ OpenAt' /\ Spun' /\ Settled'
    BY <1>2, <1>9, <1>11 DEF ToolsCrash, flowVars, talkVars, flags
  <2>2. OnlyDecidedRun' /\ Recorded'
    BY <1>11 DEF ToolsCrash, OnlyDecidedRun, Recorded, Passes, talkVars, Holds
  <2> QED
    BY <1>0, <1>1, <2>1, <2>2 DEF Holds
<1>12. CASE ToolsEnd
  <2>1. node' \in {"compaction"} \cup Closed /\ cuts' \in {cuts, cuts + 1}
    BY <1>12, Flows DEF ToolsEnd, Holds, Typed, Kinds, Closed
  <2>2. ~open'
    <3>1. /\ at \in 1..(Len(calls) + 1) /\ Len(calls) \in Nat /\ at > Len(calls)
          /\ out.got + 1 = at /\ out.got \in Nat
      BY <1>12 DEF ToolsEnd, Holds, Placed, Typed, TurnTypeOK, Outs
    <3>2. ~(out.got < Len(calls))
      BY <3>1
    <3> QED
      BY <1>12, <3>2 DEF ToolsEnd
  <2>3. out'.got = 0 /\ at' = 1
    BY <1>12, FreshOut DEF ToolsEnd, Holds, Typed, Outs
  <2>4. Placed' /\ CriticBounded' /\ OpenAt'
    <3>1. Placed'
      BY <2>3 DEF Placed
    <3>2. CriticBounded'
      <4>1. blocked => blocked'
        BY <1>12 DEF ToolsEnd
      <4> QED
        BY <1>12, <4>1 DEF ToolsEnd, CriticBounded, Holds
    <3>3. OpenAt'
      BY <1>12, <2>1, <2>2, CutsGrow DEF ToolsEnd, OpenAt, Holds
    <3> QED
      BY <3>1, <3>2, <3>3
  <2>5. Spun'
    BY <1>12, <2>1 DEF ToolsEnd, Spun, Closed, Holds
  <2>6. Settled' /\ OnlyDecidedRun' /\ Recorded'
    BY <1>12, <2>1 DEF ToolsEnd, Settled, OnlyDecidedRun, Recorded, Passes, Closed, Holds
  <2> QED
    BY <1>0, <1>1, <2>4, <2>5, <2>6 DEF Holds
<1> QED
  BY <1>6, <1>7, <1>8, <1>10, <1>11, <1>12 DEF ToolsNode

LEMMA HoldsRest ==
  ASSUME TurnAssumption, Holds,
         Router \/ Nudge \/ \E pruned \in BOOLEAN : Compacts(pruned)
  PROVE  Holds'
<1>0. Carded'
  BY NoCard
<1>1. Typed'
  BY TypesRest DEF Holds
<1>2. CASE Nudge
  <2>1. DOMAIN calls' = {} /\ node' \in {"goal", "agent"}
    BY <1>2, EmptyMap DEF Nudge, EntryNode
  <2>2. Settled' /\ OnlyDecidedRun' /\ Recorded'
    BY <2>1 DEF Settled, OnlyDecidedRun, Recorded
  <2>3. Placed' /\ CriticBounded' /\ Spun'
    BY <1>2 DEF Nudge, Placed, CriticBounded, Spun, goalVars, Holds
  <2>4. OpenAt'
    BY <1>2 DEF Nudge, OpenAt, Holds
  <2> QED
    BY <1>0, <1>1, <2>2, <2>3, <2>4 DEF Holds
<1>3. CASE \E pruned \in BOOLEAN : Compacts(pruned)
  <2> PICK pruned \in BOOLEAN : Compacts(pruned)
    BY <1>3
  <2>1. node = "compaction" /\ node' \in {"agent"} \cup Closed /\ cuts' \in {cuts, cuts + 1}
    BY Flows DEF Compacts, TurnOver, Holds, Typed, Kinds, Closed
  <2>2. Placed' /\ CriticBounded' /\ OpenAt'
    BY <2>1, CutsGrow DEF Compacts, Placed, CriticBounded, OpenAt, Closed, goalVars, toolVars, flags, Holds
  <2>3. Spun'
    BY <2>1 DEF Compacts, Packed, Spun, Closed, Holds, Typed, TurnTypeOK
  <2>4. Settled' /\ OnlyDecidedRun' /\ Recorded'
    BY <2>1 DEF Compacts, Settled, OnlyDecidedRun, Recorded, Passes, Closed, toolVars, Holds
  <2> QED
    BY <1>0, <1>1, <2>2, <2>3, <2>4 DEF Holds
<1>4. CASE Router
  <2>1. /\ node = "goal" /\ node' \in {"agent"} \cup Closed /\ cuts' \in {cuts, cuts + 1}
        /\ UNCHANGED <<talkVars, packVars, toolVars, lapses>>
    BY <1>4, Flows
    DEF Router, Intake, GoalEnds, GoalAdvances, PlanRefused, TurnOver, Holds, Typed, Kinds, Closed
  <2>2. Placed' /\ OpenAt' /\ Spun'
    BY <2>1, CutsGrow DEF Placed, OpenAt, Spun, Closed, talkVars, packVars, toolVars, Holds
  <2>3. CriticBounded'
    <3>1. critic \in 0..3 /\ CriticBounded
      BY DEF Holds, Typed, TurnTypeOK
    <3>2. CASE \E vague \in BOOLEAN : Intake(vague)
      BY <3>1, <3>2 DEF Intake, CriticBounded, flags
    <3>3. CASE GoalEnds
      BY <3>1, <3>3 DEF GoalEnds, CriticBounded, goalVars
    <3>4. CASE GoalAdvances
      BY <3>1, <3>4 DEF GoalAdvances, CriticBounded, flags
    <3>5. CASE PlanRefused
      <4>1. CASE critic' >= 3
        <5>1. goalStage' = "blocked" /\ blocked'
          BY <3>5, <4>1 DEF PlanRefused
        <5> QED
          BY <4>1, <5>1 DEF CriticBounded
      <4>2. CASE ~(critic' >= 3)
        <5>1. critic' \in Nat
          BY <3>1, <3>5 DEF PlanRefused, Critic
        <5> QED
          BY <4>2, <5>1 DEF CriticBounded
      <4> QED
        BY <4>1, <4>2
    <3> QED
      BY <1>4, <3>2, <3>3, <3>4, <3>5 DEF Router
  <2>4. Settled' /\ OnlyDecidedRun' /\ Recorded'
    BY <2>1 DEF Settled, OnlyDecidedRun, Recorded, Passes, Closed, talkVars, toolVars, Holds
  <2> QED
    BY <1>0, <1>1, <2>2, <2>3, <2>4 DEF Holds
<1> QED
  BY <1>2, <1>3, <1>4

-----------------------------------------------------------------------------
(* The theorems.                                                           *)

\* The inductive invariant.
THEOREM Invariance == ASSUME TurnAssumption PROVE TurnSpec => []Holds
<1>1. TurnInit => Holds
  BY HoldsInit
<1>2. Holds /\ [TurnNext]_turnVars => Holds'
  <2> SUFFICES ASSUME Holds, [TurnNext]_turnVars PROVE Holds'
    OBVIOUS
  <2>1. CASE Agent
    BY <2>1, HoldsAgent
  <2>2. CASE Gate
    BY <2>2, HoldsGate
  <2>3. CASE ToolsNode
    BY <2>3, HoldsTools
  <2>4. CASE Router \/ Nudge \/ \E pruned \in BOOLEAN : Compacts(pruned)
    BY <2>4, HoldsRest
  <2>5. CASE UNCHANGED turnVars
    <3>1. UNCHANGED <<node, steps, cuts, calls, verdict, open, torn, denied, goalStage, critic, pending,
                      tasks, needs, force, retries, spins, at, out, ran, journal, fails, sent,
                      nudges, turnFaults, done, blocked, error, lapses>>
      BY <2>5 DEF turnVars, flowVars, talkVars, goalVars, packVars, toolVars, boundVars, flags
    <3>2. Typed'
      BY <3>1 DEF Typed, TurnTypeOK, Holds
    <3>3. (Placed /\ CriticBounded /\ Recorded /\ OpenAt /\ Spun)'
      BY <3>1 DEF Placed, CriticBounded, Recorded, OpenAt, Spun, Holds
    <3>4. (Settled /\ OnlyDecidedRun /\ Carded)'
      BY <3>1 DEF Settled, OnlyDecidedRun, Carded, Stoppers, Undecided, Passes, Holds
    <3> QED
      BY <3>2, <3>3, <3>4 DEF Holds
  <2> QED
    BY <2>1, <2>2, <2>3, <2>4, <2>5 DEF TurnNext
<1> QED
  BY <1>1, <1>2, PTL DEF TurnSpec

\* Types, for every set of tools, every ruleset and every bound.
THEOREM TurnTypeCorrect == ASSUME TurnAssumption PROVE TurnSpec => []TurnTypeOK
<1>1. Holds => TurnTypeOK
  BY DEF Holds, Typed
<1> QED
  BY <1>1, Invariance, PTL

\* What the rules deny or an owner must approve does not run undecided
\* (graph.py: _should_continue, approval_gate_node, _after_gate, tools_node).
THEOREM DecidedRun == ASSUME TurnAssumption PROVE TurnSpec => []OnlyDecidedRun
<1>1. Holds => OnlyDecidedRun
  BY DEF Holds
<1> QED
  BY <1>1, Invariance, PTL

\* A protected call runs once more than the crashes that lost its record
\* (checkpointer.py: the replay journal; graph.py: tools_node).
THEOREM OncePerRecord == ASSUME TurnAssumption PROVE TurnSpec => []RunsOnce
<1>1. Holds => RunsOnce
  <2> SUFFICES ASSUME Holds, NEW i \in DOMAIN calls, calls[i] \in Journaled
               PROVE  ran[i] <= 1 + lapses
    BY DEF RunsOnce
  <2>1. ran[i] \in Nat /\ lapses \in Nat
    BY DEF Holds, Typed, TurnTypeOK
  <2>2. ran[i] <= lapses + (IF journal[i] = "none" THEN 0 ELSE 1)
    BY DEF Holds, Recorded
  <2> QED
    BY <2>1, <2>2
<1> QED
  BY <1>1, Invariance, PTL

\* The model is asked with an open call only after a turn was cut
\* (graph.py: tools_node, _after_gate; runner.py: _inject_and_run).
THEOREM Answered == ASSUME TurnAssumption PROVE TurnSpec => []CallsAnswered
<1>1. Holds => CallsAnswered
  BY DEF Holds, OpenAt, CallsAnswered, Closed
<1> QED
  BY <1>1, Invariance, PTL

\* One retry for a context that is too long, in every turn (graph.py: agent_node,
\* compaction_node).
THEOREM OverflowsOnce == ASSUME TurnAssumption PROVE TurnSpec => []OverflowOnce
<1>1. Holds => OverflowOnce
  BY DEF Holds, Spun, OverflowOnce
<1> QED
  BY <1>1, Invariance, PTL

\* The critic of the plan gives up the third time (graph.py: goal_router_node).
THEOREM CriticLetsGo == ASSUME TurnAssumption PROVE TurnSpec => []CriticBounded
<1>1. Holds => CriticBounded
  BY DEF Holds
<1> QED
  BY <1>1, Invariance, PTL

-----------------------------------------------------------------------------
(* The runner: its coroutines share the stop flag and the turn.            *)

\* The stop flag is never taken back, so that it is set while the pump is at a
\* stop, and from the acknowledgement on.
StopStays == acked \/ pump \in Stopping => stop

\* Only a turn of the main coroutine is tracked.
OneTracked == first => main \in {"turn", "exited"}

\* The pump has waited for the tracked turn before it says "stopped": one that is
\* in flight from there on began with the flag set.
Awaited == Tracked /\ (acked \/ pump \in {"stamp", "ack"}) => doomed

Stopped == StopStays /\ OneTracked /\ Awaited /\ TrackedTurnStops

\* The pump and the turn are left alone by what only the flags and rows record.
LEMMA StoppedElsewhere ==
  ASSUME Stopped, stop => stop',
         UNCHANGED <<first, pump, acked, doomed, late>>,
         main' = main \/ (main # "turn" /\ main' # "turn" /\ ~first) \/ main' = "exited"
  PROVE  Stopped'
BY DEF Stopped, StopStays, OneTracked, Awaited, TrackedTurnStops, Tracked, Stopping

\* The steps of the main coroutine.
LEMMA StoppedMain ==
  ASSUME Stopped, Main \/ Inject \/ TurnBlips \/ BootFails \/ Asks
  PROVE  Stopped'
<1> USE DEF Stopped, StopStays, OneTracked, Awaited, TrackedTurnStops, Tracked, Stopping
<1>1. CASE Boot
  BY <1>1 DEF Boot, envVars
<1>2. CASE FirstTurn
  BY <1>2 DEF FirstTurn, taskVars, envVars
<1>3. CASE NoTurn \/ Top \/ GetTimesOut \/ Fails \/ Exit
  BY <1>3 DEF NoTurn, Top, GetTimesOut, Fails, Exit, taskVars, envVars
<1>4. CASE Decided
  <2>1. ASSUME acked, ~doomed PROVE ~first
    BY <1>4, <2>1 DEF Decided, Going
  <2>2. \/ late' = late \cup {}
        \/ late' = late \cup {"doomed"}
        \/ late' = late \cup {"nudge"}
    <3>1. CASE ~acked
      BY <1>4, <3>1 DEF Decided
    <3>2. CASE acked
      <4> DEFINE who == CASE doomed -> "doomed" [] first /\ ~doomed -> "tracked" [] OTHER -> "nudge"
      <4>1. who = "doomed" \/ who = "nudge"
        BY <2>1, <3>2
      <4>2. late' = late \cup {who}
        BY <1>4, <3>2 DEF Decided
      <4> QED
        BY <4>1, <4>2
    <3> QED
      BY <3>1, <3>2
  <2> QED
    BY <1>4, <2>2 DEF Decided, Going, taskVars, mainVars
<1>5. CASE TurnStarts \/ Asks
  BY <1>5 DEF TurnStarts, Asks, taskVars, envVars
<1>8. CASE TurnEnds \/ TurnCancelled \/ TurnBlips
  <2>1. /\ ~first' /\ UNCHANGED <<pump, stop, acked, doomed, late>>
    BY <1>8 DEF TurnEnds, TurnCancelled, TurnBlips, taskVars, envVars
  <2> QED
    BY <2>1
<1>6. ASSUME NEW word \in {"done", "blocked", "error"}, TurnResult(word) PROVE Stopped'
  BY <1>6 DEF TurnResult, Going, taskVars, envVars
<1>7. CASE Inject \/ BootFails
  BY <1>7 DEF Inject, BootFails, taskVars, envVars
<1> QED
  BY <1>1, <1>2, <1>3, <1>4, <1>5, <1>6, <1>7, <1>8 DEF Main, Turn

\* The steps of the pump.
LEMMA StoppedPump ==
  ASSUME Stopped, Pump \/ Drops \/ DrainTimesOut
  PROVE  Stopped'
<1> USE DEF Stopped, StopStays, OneTracked, Awaited, TrackedTurnStops, Tracked, Stopping
<1>1. CASE TakesNudge \/ TakesMode
  BY <1>1 DEF TakesNudge, TakesMode, Takes, Again, envVars
<1>2. CASE TakesKill
  BY <1>2 DEF TakesKill, Takes
<1>3. CASE TakesInterrupt
  BY <1>3 DEF TakesInterrupt, Takes, mainVars
<1>4. CASE Close \/ Drops
  BY <1>4 DEF Close, Drops, mainVars, envVars
<1>5. CASE Drained
  BY <1>5 DEF Drained, mainVars, envVars
<1>6. CASE PumpStamps
  BY <1>6 DEF PumpStamps, mainVars, envVars
<1>7. CASE Acks
  BY <1>7 DEF Acks, mainVars
<1>8. CASE DrainTimesOut
  BY <1>8 DEF DrainTimesOut, envVars
<1> QED
  BY <1>1, <1>2, <1>3, <1>4, <1>5, <1>6, <1>7, <1>8 DEF Pump

\* The signal, the watchdog, the beats and the backend.
LEMMA StoppedOthers ==
  ASSUME Stopped, Dog \/ SigTerm \/ SignalStamps \/ SigKill \/ BeatReads \/ BeatSays \/ Ages
                  \/ DogBlips \/ (\E type \in Messages : Sends(type)) \/ UNCHANGED vars
  PROVE  Stopped'
<1>1. /\ stop => stop'
      /\ UNCHANGED <<first, pump, acked, doomed, late>>
      /\ main' = main \/ main' = "exited"
  <2> USE DEF mainVars, taskVars, envVars
  <2>1. CASE Dog
    BY <2>1 DEF Dog, DogFires, DogSays
  <2>2. CASE SigTerm \/ SignalStamps \/ SigKill
    BY <2>2 DEF SigTerm, SignalStamps, SigKill
  <2>3. CASE BeatReads \/ BeatSays \/ Ages \/ DogBlips
    BY <2>3 DEF BeatReads, BeatSays, Ages, DogBlips
  <2>4. CASE (\E type \in Messages : Sends(type)) \/ UNCHANGED vars
    BY <2>4 DEF Sends, vars
  <2> QED
    BY <2>1, <2>2, <2>3, <2>4
<1> QED
  BY <1>1, StoppedElsewhere

\* The turn that was in flight when the stop came takes no decision once the stop
\* is acknowledged (runner.py: _request_stop, _control_pump).
THEOREM TrackedStops == Spec => []TrackedTurnStops
<1>1. Init => Stopped
  BY DEF Init, Stopped, StopStays, OneTracked, Awaited, TrackedTurnStops, Tracked, Stopping
<1>2. Stopped /\ [Next]_vars => Stopped'
  BY StoppedMain, StoppedPump, StoppedOthers DEF Next, Main, Others
<1>3. Stopped => TrackedTurnStops
  BY DEF Stopped
<1> QED
  BY <1>1, <1>2, <1>3, PTL DEF Spec

\* TypeOK in parts.
RunnerFlags ==
  /\ first \in BOOLEAN /\ cancel \in BOOLEAN /\ doomed \in BOOLEAN /\ stop \in BOOLEAN
  /\ old \in BOOLEAN /\ mode \in BOOLEAN /\ told \in BOOLEAN /\ acked \in BOOLEAN

RunnerPlaces ==
  /\ main \in {"boot", "ready", "turn", "failing", "loop", "get", "close", "exited"}
  /\ turn \in {"none", "start", "work", "card", "answered", "done", "blocked", "error"}
  /\ pump \in {"off", "get", "end"} \cup Stopping
  /\ signal \in {"none", "end"} \cup Stopping /\ dog \in {"watch", "say", "end"}

RunnerWords ==
  /\ status \in Statuses /\ row \in Statuses /\ beat \in Statuses \cup {"none"}

RunnerCounts ==
  /\ queued \in Nat /\ published \in Nat /\ cards \in Nat /\ blips \in Nat
  /\ inbox \in Seq(Messages)

LEMMA RunnerFlagsTyped == ASSUME RunnerFlags, [Next]_vars PROVE RunnerFlags'
<1> USE DEF RunnerFlags, mainVars, taskVars, envVars
<1>1. CASE Boot \/ FirstTurn \/ NoTurn \/ Top \/ GetTimesOut
  BY <1>1 DEF Boot, FirstTurn, NoTurn, Top, GetTimesOut
<1>2. CASE Inject \/ Fails \/ Exit
  BY <1>2 DEF Inject, Fails, Exit
<1>3. CASE TurnStarts \/ Decided
  BY <1>3 DEF TurnStarts, Decided
<1>4. CASE TurnEnds \/ TurnCancelled
  BY <1>4 DEF TurnEnds, TurnCancelled
<1>5. ASSUME NEW word \in {"done", "blocked", "error"}, TurnResult(word) PROVE RunnerFlags'
  BY <1>5 DEF TurnResult
<1>6. CASE TakesNudge \/ TakesMode
  BY <1>6 DEF TakesNudge, TakesMode, Takes, Again
<1>7. CASE TakesKill \/ TakesInterrupt
  BY <1>7 DEF TakesKill, TakesInterrupt, Takes, Tracked
<1>8. CASE Close \/ Drained \/ PumpStamps \/ Acks
  BY <1>8 DEF Close, Drained, PumpStamps, Acks
<1>9. CASE Dog
  BY <1>9 DEF Dog, DogFires, DogSays
<1>10. CASE BootFails \/ Asks \/ TurnBlips \/ Drops
  BY <1>10 DEF BootFails, Asks, TurnBlips, Drops, Blip
<1>11. CASE SigTerm \/ DrainTimesOut \/ SignalStamps \/ SigKill
  BY <1>11 DEF SigTerm, DrainTimesOut, SignalStamps, SigKill, Tracked
<1>12. CASE BeatReads \/ BeatSays \/ Ages \/ DogBlips
  BY <1>12 DEF BeatReads, BeatSays, Ages, DogBlips, Blip
<1>13. ASSUME NEW type \in Messages, Sends(type) PROVE RunnerFlags'
  BY <1>13 DEF Sends
<1>14. CASE UNCHANGED vars
  BY <1>14 DEF vars
<1> QED
  BY <1>1, <1>2, <1>3, <1>4, <1>5, <1>6, <1>7, <1>8, <1>9, <1>10, <1>11, <1>12, <1>13, <1>14
     DEF Next, Main, Turn, Pump, Others

LEMMA RunnerPlacesTyped == ASSUME RunnerPlaces, [Next]_vars PROVE RunnerPlaces'
<1> USE DEF RunnerPlaces, Stopping, mainVars, taskVars, envVars
<1>1. CASE Boot \/ FirstTurn
  BY <1>1 DEF Boot, FirstTurn
<1>15. CASE NoTurn \/ Top \/ GetTimesOut
  BY <1>15 DEF NoTurn, Top, GetTimesOut
<1>2. CASE Inject \/ Fails \/ Exit
  BY <1>2 DEF Inject, Fails, Exit
<1>3. CASE TurnStarts \/ Decided
  BY <1>3 DEF TurnStarts, Decided
<1>4. CASE TurnEnds \/ TurnCancelled
  BY <1>4 DEF TurnEnds, TurnCancelled
<1>5. ASSUME NEW word \in {"done", "blocked", "error"}, TurnResult(word) PROVE RunnerPlaces'
  BY <1>5 DEF TurnResult
<1>6. CASE TakesNudge \/ TakesMode
  BY <1>6 DEF TakesNudge, TakesMode, Takes, Again
<1>7. CASE TakesKill \/ TakesInterrupt
  BY <1>7 DEF TakesKill, TakesInterrupt, Takes, Tracked
<1>8. CASE Close \/ Drained \/ PumpStamps \/ Acks
  BY <1>8 DEF Close, Drained, PumpStamps, Acks
<1>9. CASE Dog
  BY <1>9 DEF Dog, DogFires, DogSays
<1>10. CASE BootFails \/ Asks \/ TurnBlips \/ Drops
  BY <1>10 DEF BootFails, Asks, TurnBlips, Drops, Blip
<1>11. CASE SigTerm \/ DrainTimesOut \/ SignalStamps \/ SigKill
  BY <1>11 DEF SigTerm, DrainTimesOut, SignalStamps, SigKill, Tracked
<1>12. CASE BeatReads \/ BeatSays \/ Ages \/ DogBlips
  BY <1>12 DEF BeatReads, BeatSays, Ages, DogBlips, Blip
<1>13. ASSUME NEW type \in Messages, Sends(type) PROVE RunnerPlaces'
  BY <1>13 DEF Sends
<1>14. CASE UNCHANGED vars
  BY <1>14 DEF vars
<1> QED
  BY <1>1, <1>2, <1>3, <1>4, <1>5, <1>6, <1>7, <1>8, <1>9, <1>10, <1>11, <1>12, <1>13, <1>14, <1>15
     DEF Next, Main, Turn, Pump, Others

LEMMA RunnerWordsTyped == ASSUME RunnerWords, [Next]_vars PROVE RunnerWords'
<1> USE DEF RunnerWords, Statuses, Heard, Says, mainVars, taskVars, envVars
<1>1. CASE Boot \/ FirstTurn \/ NoTurn \/ Top \/ GetTimesOut
  BY <1>1 DEF Boot, FirstTurn, NoTurn, Top, GetTimesOut
<1>2. CASE Inject \/ Fails \/ Exit
  BY <1>2 DEF Inject, Fails, Exit
<1>3. CASE TurnStarts \/ Decided
  BY <1>3 DEF TurnStarts, Decided
<1>4. CASE TurnEnds \/ TurnCancelled
  BY <1>4 DEF TurnEnds, TurnCancelled
<1>5. ASSUME NEW word \in {"done", "blocked", "error"}, TurnResult(word) PROVE RunnerWords'
  BY <1>5 DEF TurnResult
<1>6. CASE TakesNudge \/ TakesMode
  BY <1>6 DEF TakesNudge, TakesMode, Takes, Again
<1>7. CASE TakesKill \/ TakesInterrupt
  BY <1>7 DEF TakesKill, TakesInterrupt, Takes, Tracked
<1>8. CASE Close \/ Drained \/ PumpStamps \/ Acks
  BY <1>8 DEF Close, Drained, PumpStamps, Acks
<1>9. CASE Dog
  BY <1>9 DEF Dog, DogFires, DogSays
<1>10. CASE BootFails \/ Asks \/ TurnBlips \/ Drops
  BY <1>10 DEF BootFails, Asks, TurnBlips, Drops, Blip
<1>11. CASE SigTerm \/ DrainTimesOut \/ SignalStamps \/ SigKill
  BY <1>11 DEF SigTerm, DrainTimesOut, SignalStamps, SigKill, Tracked
<1>12. CASE BeatReads \/ BeatSays \/ Ages \/ DogBlips
  BY <1>12 DEF BeatReads, BeatSays, Ages, DogBlips, Blip
<1>13. ASSUME NEW type \in Messages, Sends(type) PROVE RunnerWords'
  BY <1>13 DEF Sends
<1>14. CASE UNCHANGED vars
  BY <1>14 DEF vars
<1> QED
  BY <1>1, <1>2, <1>3, <1>4, <1>5, <1>6, <1>7, <1>8, <1>9, <1>10, <1>11, <1>12, <1>13, <1>14
     DEF Next, Main, Turn, Pump, Others

LEMMA RunnerCountsTyped == ASSUME RunnerCounts, [Next]_vars PROVE RunnerCounts'
<1> USE DEF RunnerCounts, mainVars, taskVars, envVars
<1>1. CASE Boot \/ FirstTurn \/ NoTurn \/ Top \/ GetTimesOut
  BY <1>1 DEF Boot, FirstTurn, NoTurn, Top, GetTimesOut
<1>2. CASE Inject \/ Fails \/ Exit
  BY <1>2 DEF Inject, Fails, Exit
<1>3. CASE TurnStarts \/ Decided
  BY <1>3 DEF TurnStarts, Decided
<1>4. CASE TurnEnds \/ TurnCancelled
  BY <1>4 DEF TurnEnds, TurnCancelled
<1>5. ASSUME NEW word \in {"done", "blocked", "error"}, TurnResult(word) PROVE RunnerCounts'
  BY <1>5 DEF TurnResult
<1>6. CASE TakesNudge \/ TakesMode
  BY <1>6 DEF TakesNudge, TakesMode, Takes, Again
<1>7. CASE TakesKill \/ TakesInterrupt
  <2>1. Tail(inbox) \in Seq(Messages)
    BY <1>7 DEF TakesKill, TakesInterrupt, Takes
  <2> QED
    BY <1>7, <2>1 DEF TakesKill, TakesInterrupt, Takes
<1>8. CASE Close \/ Drained \/ PumpStamps \/ Acks
  BY <1>8 DEF Close, Drained, PumpStamps, Acks
<1>9. CASE Dog
  BY <1>9 DEF Dog, DogFires, DogSays
<1>10. CASE BootFails \/ Asks \/ TurnBlips \/ Drops
  BY <1>10 DEF BootFails, Asks, TurnBlips, Drops, Blip
<1>11. CASE SigTerm \/ DrainTimesOut \/ SignalStamps \/ SigKill
  BY <1>11 DEF SigTerm, DrainTimesOut, SignalStamps, SigKill, Tracked
<1>12. CASE BeatReads \/ BeatSays \/ Ages \/ DogBlips
  BY <1>12 DEF BeatReads, BeatSays, Ages, DogBlips, Blip
<1>13. ASSUME NEW type \in Messages, Sends(type) PROVE RunnerCounts'
  BY <1>13 DEF Sends
<1>14. CASE UNCHANGED vars
  BY <1>14 DEF vars
<1> QED
  BY <1>1, <1>2, <1>3, <1>4, <1>5, <1>6, <1>7, <1>8, <1>9, <1>10, <1>11, <1>12, <1>13, <1>14
     DEF Next, Main, Turn, Pump, Others

\* Only a decision records a turn as late.
LEMMA RunnerLateTyped ==
  ASSUME late \subseteq {"tracked", "nudge", "doomed"}, [Next]_vars
  PROVE  late' \subseteq {"tracked", "nudge", "doomed"}
<1>1. late' = late \/ Decided
  <2> USE DEF mainVars, taskVars, envVars
  <2>1. CASE Main
    <3>1. CASE Boot \/ FirstTurn \/ NoTurn \/ Top \/ GetTimesOut \/ Inject \/ Fails \/ Exit
      BY <3>1 DEF Boot, FirstTurn, NoTurn, Top, GetTimesOut, Inject, Fails, Exit
    <3>2. CASE TurnStarts \/ TurnEnds \/ TurnCancelled
      BY <3>2 DEF TurnStarts, TurnEnds, TurnCancelled
    <3>3. ASSUME NEW word \in {"done", "blocked", "error"}, TurnResult(word) PROVE late' = late
      BY <3>3 DEF TurnResult
    <3> QED
      BY <2>1, <3>1, <3>2, <3>3 DEF Main, Turn
  <2>2. CASE Pump
    BY <2>2 DEF Pump, TakesNudge, TakesMode, TakesKill, TakesInterrupt, Close, Drained, PumpStamps, Acks
  <2>3. CASE Dog \/ UNCHANGED vars
    BY <2>3 DEF Dog, DogFires, DogSays, vars
  <2>4. CASE Others
    BY <2>4 DEF Others, BootFails, Asks, TurnBlips, Drops, SigTerm, DrainTimesOut, SignalStamps,
                SigKill, BeatReads, BeatSays, Ages, DogBlips
  <2>5. ASSUME NEW type \in Messages, Sends(type) PROVE late' = late
    BY <2>5 DEF Sends
  <2> QED
    BY <2>1, <2>2, <2>3, <2>4, <2>5 DEF Next
<1>2. ASSUME Decided PROVE \E who \in {"tracked", "nudge", "doomed"} : late' = late \/ late' = late \cup {who}
  BY <1>2 DEF Decided
<1> QED
  BY <1>1, <1>2

\* Types, for every bound.
THEOREM RunnerTypeCorrect == Spec => []TypeOK
<1> DEFINE Halves == RunnerFlags /\ RunnerPlaces /\ RunnerWords /\ RunnerCounts
                  /\ late \subseteq {"tracked", "nudge", "doomed"}
<1>1. Init => Halves
  <2>1. Init => RunnerFlags
    BY DEF Init, RunnerFlags
  <2>2. Init => RunnerPlaces
    BY DEF Init, RunnerPlaces, Stopping
  <2>3. Init => RunnerWords
    BY DEF Init, RunnerWords, Statuses
  <2>4. Init => RunnerCounts
    BY DEF Init, RunnerCounts
  <2>5. Init => late \subseteq {"tracked", "nudge", "doomed"}
    BY DEF Init
  <2> QED
    BY <2>1, <2>2, <2>3, <2>4, <2>5
<1>2. Halves /\ [Next]_vars => Halves'
  BY RunnerFlagsTyped, RunnerPlacesTyped, RunnerWordsTyped, RunnerCountsTyped, RunnerLateTyped
<1>3. Halves => TypeOK
  BY DEF TypeOK, RunnerFlags, RunnerPlaces, RunnerWords, RunnerCounts
<1> QED
  BY <1>1, <1>2, <1>3, PTL DEF Spec

-----------------------------------------------------------------------------
(* The compaction of a conversation.                                       *)

LEMMA Inductive ==
  ASSUME NEW A, 0 \in A, \A n \in A \cap Nat : n + 1 \in A
  PROVE  Nat \subseteq A
<1> SUFFICES ASSUME Nat \ A # {} PROVE FALSE
  OBVIOUS
<1> DEFINE B == Nat \ A
<1>1. B \in SUBSET Nat /\ B # {}
  OBVIOUS
<1>2. \A n \in B : n - 1 \in B
  OBVIOUS
<1> HIDE DEF B
<1>3. \E n \in B : \A k \in B : <<k, n>> \notin OpToRel(<, Nat)
  BY <1>1, NatLessThanWellFounded, WFMin, Zenon
<1>4. \A x, y \in Nat : x < y => <<x, y>> \in OpToRel(<, Nat)
  BY DEF OpToRel
<1>5. PICK n \in B : \A k \in B : ~(k < n)
  BY <1>1, <1>3, <1>4, Zenon
<1> QED
  BY <1>1, <1>2, <1>5

-----------------------------------------------------------------------------
(* What a filter returns.                                                  *)

\* g filters the messages of s at the places of each D.
Picks(s, A, g, D) ==
  IF D = {} THEN <<>>
  ELSE IF s[Max(D)] \in A THEN Append(g[D \ {Max(D)}], s[Max(D)]) ELSE g[D \ {Max(D)}]

Few(n, m) == {D \in SUBSET (1..m) : Cardinality(D) <= n}
Filters(s, A, n, m, g) == g = [D \in Few(n, m) |-> Picks(s, A, g, D)]

LEMMA Places ==
  ASSUME NEW m \in Nat
  PROVE  \A D \in SUBSET (1..m) : IsFiniteSet(D) /\ Cardinality(D) \in Nat /\ Cardinality(D) <= m
<1>1. m \in Int /\ 1 \in Int
  OBVIOUS
<1>2. IsFiniteSet(1..m) /\ Cardinality(1..m) = (IF 1 > m THEN 0 ELSE m - 1 + 1)
  BY <1>1, FS_Interval
<1>3. Cardinality(1..m) = m
  BY <1>2
<1>4. \A D \in SUBSET (1..m) : IsFiniteSet(D) /\ Cardinality(D) <= Cardinality(1..m)
  BY <1>2, FS_Subset
<1> QED
  BY <1>3, <1>4, FS_CardinalityType

LEMMA MaxPlace ==
  ASSUME NEW m \in Nat, NEW D \in SUBSET (1..m), D # {}
  PROVE  Max(D) \in D /\ \A i \in D : i <= Max(D)
<1> DEFINE Peak(E) == \E i \in E : \A j \in E : j <= i
           A == {n \in Nat : \A E \in SUBSET (1..n) : E # {} => Peak(E)}
<1>1. 0 \in A
  <2>1. 1..0 = {}
    OBVIOUS
  <2> HIDE DEF Peak
  <2> QED
    BY <2>1
<1>2. ASSUME NEW n \in A \cap Nat PROVE n + 1 \in A
  <2>1. ASSUME NEW E \in SUBSET (1..(n + 1)), E # {} PROVE Peak(E)
    <3>1. CASE n + 1 \in E
      BY <3>1
    <3>2. CASE n + 1 \notin E
      <4>1. E \in SUBSET (1..n)
        BY <3>2
      <4> QED
        BY <2>1, <4>1
    <3> QED
      BY <3>1, <3>2
  <2> HIDE DEF Peak
  <2> QED
    BY <2>1
<1> HIDE DEF A
<1>3. m \in A
  BY <1>1, <1>2, Inductive
<1>4. Peak(D)
  BY <1>3 DEF A
<1> QED
  BY <1>4 DEF Max

LEMMA Fewer ==
  ASSUME NEW m \in Nat, NEW n \in Nat, NEW D \in Few(n + 1, m), D # {}
  PROVE  D \ {Max(D)} \in Few(n, m) /\ D \ {Max(D)} \in Few(n + 1, m)
<1>1. D \in SUBSET (1..m) /\ Cardinality(D) <= n + 1
  BY DEF Few
<1>2. Max(D) \in D
  BY <1>1, MaxPlace
<1>3. IsFiniteSet(D) /\ Cardinality(D) \in Nat
  BY <1>1, Places
<1>4. Cardinality(D \ {Max(D)}) = Cardinality(D) - 1
  BY <1>2, <1>3, FS_RemoveElement
<1>5. D \ {Max(D)} \in SUBSET (1..m)
  BY <1>1
<1>6. Cardinality(D \ {Max(D)}) <= n /\ Cardinality(D \ {Max(D)}) <= n + 1
  BY <1>1, <1>3, <1>4
<1> QED
  BY <1>5, <1>6 DEF Few

LEMMA FiltersExist ==
  ASSUME NEW s, NEW A, NEW m \in Nat
  PROVE  \A n \in Nat : \E g : Filters(s, A, n, m, g)
<1> DEFINE P == {n \in Nat : \E g : Filters(s, A, n, m, g)}
<1>1. 0 \in P
  <2> DEFINE g == [D \in Few(0, m) |-> <<>>]
  <2>1. \A D \in Few(0, m) : D = {}
    <3> SUFFICES ASSUME NEW D \in Few(0, m) PROVE D = {}
      OBVIOUS
    <3>1. IsFiniteSet(D) /\ Cardinality(D) \in Nat /\ Cardinality(D) <= 0
      BY Places DEF Few
    <3>2. Cardinality(D) = 0
      BY <3>1
    <3> QED
      BY <3>1, <3>2, FS_EmptySet
  <2>2. \A D \in Few(0, m) : Picks(s, A, g, D) = <<>>
    BY <2>1 DEF Picks
  <2>3. Filters(s, A, 0, m, g)
    BY <2>2 DEF Filters
  <2> QED
    BY <2>3
<1>2. ASSUME NEW n \in P \cap Nat PROVE n + 1 \in P
  <2>1. PICK h : Filters(s, A, n, m, h)
    OBVIOUS
  <2> DEFINE g == [D \in Few(n + 1, m) |-> Picks(s, A, h, D)]
  <2>2. \A D \in Few(n, m) : h[D] = Picks(s, A, h, D) /\ D \in Few(n + 1, m)
    <3>1. \A D \in Few(n, m) : h[D] = Picks(s, A, h, D)
      BY <2>1, Zenon DEF Filters
    <3>2. \A D \in SUBSET (1..m) : Cardinality(D) \in Nat
      BY Places
    <3> QED
      BY <3>1, <3>2 DEF Few
  <2>3. ASSUME NEW D \in Few(n + 1, m) PROVE Picks(s, A, h, D) = Picks(s, A, g, D)
    <3>1. CASE D = {}
      BY <3>1 DEF Picks
    <3>2. CASE D # {}
      <4>1. h[D \ {Max(D)}] = g[D \ {Max(D)}]
        BY <2>2, <3>2, Fewer
      <4> QED
        BY <3>2, <4>1 DEF Picks
    <3> QED
      BY <3>1, <3>2
  <2>4. Filters(s, A, n + 1, m, g)
    BY <2>3 DEF Filters
  <2> QED
    BY <2>4
<1> HIDE DEF P
<1>3. Nat \subseteq P
  BY <1>1, <1>2, Inductive
<1> QED
  BY <1>3 DEF P

\* The equation of a filter.
LEMMA AmongPicks ==
  ASSUME NEW T, NEW s \in Seq(T), NEW A
  PROVE  \E g : /\ Among(s, A) = g[1..Len(s)]
                /\ g = [D \in SUBSET (1..Len(s)) |-> Picks(s, A, g, D)]
<1>1. Len(s) \in Nat /\ DOMAIN s = 1..Len(s)
  OBVIOUS
<1>2. Few(Len(s), Len(s)) = SUBSET (1..Len(s))
  BY <1>1, Places DEF Few
<1>3. \E g : g = [D \in SUBSET (1..Len(s)) |-> Picks(s, A, g, D)]
  <2>1. \E g : Filters(s, A, Len(s), Len(s), g)
    BY <1>1, FiltersExist
  <2> QED
    BY <1>2, <2>1 DEF Filters
<1> DEFINE it == CHOOSE g : g = [D \in SUBSET (1..Len(s)) |-> Picks(s, A, g, D)]
<1>4. it = [D \in SUBSET (1..Len(s)) |-> Picks(s, A, it, D)]
  BY <1>3
<1>5. Among(s, A) = it[1..Len(s)]
  BY <1>1 DEF Among, FoldLeft, MapThenFoldSet, Picks
<1> QED
  BY <1>4, <1>5

\* e places each message of r among the first n of s: those of A, in their order.
Follows(e, r, s, A, n) ==
  /\ e \in [1..Len(r) -> 1..n]
  /\ \A i, j \in 1..Len(r) : i < j => e[i] < e[j]
  /\ \A i \in 1..Len(r) : r[i] = s[e[i]] /\ r[i] \in A
  /\ \A p \in 1..n : s[p] \in A => \E i \in 1..Len(r) : e[i] = p

LEMMA FollowsOn ==
  ASSUME NEW T, NEW s \in Seq(T), NEW A, NEW n \in Nat, n + 1 <= Len(s), NEW r \in Seq(T),
         NEW e, Follows(e, r, s, A, n)
  PROVE  LET q == IF s[n + 1] \in A THEN Append(r, s[n + 1]) ELSE r
         IN q \in Seq(T) /\ \E d : Follows(d, q, s, A, n + 1)
<1>1. s[n + 1] \in T /\ Len(r) \in Nat
  <2>1. n + 1 \in 1..Len(s)
    OBVIOUS
  <2> QED
    BY <2>1
<1>2. /\ e \in [1..Len(r) -> 1..n]
      /\ \A i, j \in 1..Len(r) : i < j => e[i] < e[j]
      /\ \A i \in 1..Len(r) : r[i] = s[e[i]] /\ r[i] \in A
      /\ \A p \in 1..n : s[p] \in A => \E i \in 1..Len(r) : e[i] = p
  BY DEF Follows
<1>3. CASE s[n + 1] \in A
  <2> DEFINE q == Append(r, s[n + 1])
             d == [i \in 1..Len(q) |-> IF i = Len(q) THEN n + 1 ELSE e[i]]
  <2>1. q \in Seq(T) /\ Len(q) = Len(r) + 1
    BY <1>1
  <2>2. q[Len(q)] = s[n + 1] /\ \A i \in 1..Len(r) : q[i] = r[i]
    BY <1>1, <2>1
  <2> HIDE DEF q
  <2>3. \A i \in 1..Len(q) : i \in 1..Len(r) \/ i = Len(q)
    BY <1>1, <2>1
  <2>4. \A i \in 1..Len(r) : i \in 1..Len(q) /\ i # Len(q) /\ e[i] \in 1..n
    BY <1>1, <1>2, <2>1
  <2>5. Len(q) \in 1..Len(q) /\ n + 1 \in 1..(n + 1) /\ 1..n \subseteq 1..(n + 1)
    BY <1>1, <2>1
  <2>6. (\A i \in 1..Len(r) : d[i] = e[i]) /\ d[Len(q)] = n + 1
    BY <2>4, <2>5
  <2>7. d \in [1..Len(q) -> 1..(n + 1)]
    BY <2>3, <2>4, <2>5
  <2> HIDE DEF d
  <2>8. \A i, j \in 1..Len(q) : i < j => d[i] < d[j]
    <3> SUFFICES ASSUME NEW i \in 1..Len(q), NEW j \in 1..Len(q), i < j PROVE d[i] < d[j]
      OBVIOUS
    <3>1. i \in 1..Len(r) /\ d[i] = e[i] /\ e[i] \in 1..n
      BY <1>1, <2>1, <2>4, <2>6
    <3>2. CASE j = Len(q)
      BY <2>6, <3>1, <3>2
    <3>3. CASE j \in 1..Len(r)
      BY <1>2, <2>6, <3>1, <3>3
    <3> QED
      BY <2>3, <3>2, <3>3
  <2>9. \A i \in 1..Len(q) : q[i] = s[d[i]] /\ q[i] \in A
    <3> SUFFICES ASSUME NEW i \in 1..Len(q) PROVE q[i] = s[d[i]] /\ q[i] \in A
      OBVIOUS
    <3>1. CASE i = Len(q)
      BY <1>3, <2>2, <2>6, <3>1
    <3>2. CASE i \in 1..Len(r)
      BY <1>2, <2>2, <2>6, <3>2
    <3> QED
      BY <2>3, <3>1, <3>2
  <2>10. \A p \in 1..(n + 1) : s[p] \in A => \E i \in 1..Len(q) : d[i] = p
    <3> SUFFICES ASSUME NEW p \in 1..(n + 1), s[p] \in A PROVE \E i \in 1..Len(q) : d[i] = p
      OBVIOUS
    <3>1. CASE p = n + 1
      BY <2>5, <2>6, <3>1
    <3>2. CASE p # n + 1
      <4>1. p \in 1..n
        BY <3>2
      <4>2. PICK i \in 1..Len(r) : e[i] = p
        BY <1>2, <4>1
      <4> QED
        BY <2>4, <2>6, <4>2
    <3> QED
      BY <3>1, <3>2
  <2>11. Follows(d, q, s, A, n + 1)
    BY <2>7, <2>8, <2>9, <2>10 DEF Follows
  <2> QED
    BY <1>3, <2>1, <2>11 DEF q
<1>4. CASE s[n + 1] \notin A
  <2>1. e \in [1..Len(r) -> 1..(n + 1)]
    <3>1. 1..n \subseteq 1..(n + 1)
      OBVIOUS
    <3> QED
      BY <1>2, <3>1
  <2>2. \A p \in 1..(n + 1) : s[p] \in A => p \in 1..n
    BY <1>4
  <2>3. Follows(e, r, s, A, n + 1)
    BY <1>2, <2>1, <2>2 DEF Follows
  <2> QED
    BY <1>4, <2>3
<1> QED
  BY <1>3, <1>4

LEMMA AmongFollows ==
  ASSUME NEW T, NEW s \in Seq(T), NEW A
  PROVE  Among(s, A) \in Seq(T) /\ \E e : Follows(e, Among(s, A), s, A, Len(s))
<1>1. PICK g : /\ Among(s, A) = g[1..Len(s)]
               /\ g = [D \in SUBSET (1..Len(s)) |-> Picks(s, A, g, D)]
  BY AmongPicks
<1>2. \A D \in SUBSET (1..Len(s)) : g[D] = Picks(s, A, g, D)
  BY <1>1, Zenon
<1>3. Len(s) \in Nat
  OBVIOUS
<1> DEFINE Good(n) == g[1..n] \in Seq(T) /\ \E e : Follows(e, g[1..n], s, A, n)
           P == {n \in Nat : n <= Len(s) => Good(n)}
<1>4. Good(0)
  <2>1. 1..0 = {} /\ {} \in SUBSET (1..Len(s))
    OBVIOUS
  <2>2. g[1..0] = <<>>
    BY <1>2, <2>1 DEF Picks
  <2> DEFINE e == [i \in 1..0 |-> 0]
             none == <<>>
  <2>3. none \in Seq(T) /\ Len(none) = 0
    OBVIOUS
  <2>4. e \in [1..0 -> 1..0]
    BY <2>1
  <2> HIDE DEF e, none
  <2>5. Follows(e, none, s, A, 0)
    BY <2>1, <2>3, <2>4 DEF Follows
  <2> QED
    BY <2>2, <2>3, <2>5 DEF none
<1>5. ASSUME NEW n \in Nat, n + 1 <= Len(s), Good(n) PROVE Good(n + 1)
  <2>1. 1..(n + 1) \in SUBSET (1..Len(s)) /\ 1..(n + 1) # {}
    <3> HIDE DEF Good
    <3>1. n + 1 \in 1..(n + 1) /\ \A i \in 1..(n + 1) : i \in 1..Len(s)
      BY <1>3, <1>5
    <3> QED
      BY <3>1
  <2>2. Max(1..(n + 1)) = n + 1
    <3>1. Max(1..(n + 1)) \in 1..(n + 1) /\ \A i \in 1..(n + 1) : i <= Max(1..(n + 1))
      BY <1>3, <2>1, MaxPlace
    <3> HIDE DEF Good
    <3> QED
      BY <3>1
  <2>3. (1..(n + 1)) \ {n + 1} = 1..n
    OBVIOUS
  <2>4. g[1..(n + 1)] = IF s[n + 1] \in A THEN Append(g[1..n], s[n + 1]) ELSE g[1..n]
    BY <1>2, <2>1, <2>2, <2>3 DEF Picks
  <2>5. g[1..n] \in Seq(T) /\ \E e : Follows(e, g[1..n], s, A, n)
    BY <1>5
  <2> HIDE DEF Good
  <2>6. LET q == IF s[n + 1] \in A THEN Append(g[1..n], s[n + 1]) ELSE g[1..n]
        IN q \in Seq(T) /\ \E d : Follows(d, q, s, A, n + 1)
    BY <1>5, <2>5, FollowsOn
  <2>7. g[1..(n + 1)] \in Seq(T) /\ \E d : Follows(d, g[1..(n + 1)], s, A, n + 1)
    BY <2>4, <2>6
  <2> QED
    BY <2>7 DEF Good
<1> HIDE DEF Good
<1>6. 0 \in P /\ \A n \in P \cap Nat : n + 1 \in P
  BY <1>3, <1>4, <1>5
<1> HIDE DEF P
<1>7. Len(s) \in P
  BY <1>3, <1>6, Inductive
<1>8. Good(Len(s))
  BY <1>3, <1>7 DEF P
<1> QED
  BY <1>1, <1>8 DEF Good

-----------------------------------------------------------------------------
(* Conversations.                                                          *)

\* A result comes after its call.
InTurn(s) == \A i, j \in 1..Len(s) : s[i].answers \in s[j].calls => j < i

\* What is protected neither calls nor answers, who calls does not answer, and
\* calls are those of the first n messages.
Fit(s, n) ==
  \A i \in 1..Len(s) :
    /\ Protected(s[i]) => s[i].calls = {} /\ s[i].answers = NoAnswer
    /\ s[i].calls # {} => s[i].answers = NoAnswer
    /\ s[i].answers[1] <= n /\ \A c \in s[i].calls : c[1] <= n

\* Messages have names of their own, among the first n.
Named(s, n) ==
  /\ \A i \in 1..Len(s) : s[i].name <= n
  /\ \A i, j \in 1..Len(s) : i < j => s[i].name # s[j].name

\* No pair is split.
Mended(s) ==
  /\ CallsOf(s) \subseteq AnswersOf(s)
  /\ \A i \in 1..Len(s) : s[i].answers # NoAnswer =>
       \E k \in 1..(i - 1) : s[i].answers \in s[k].calls

LEMMA MessageCalls ==
  ASSUME NEW m \in Message
  PROVE  /\ m.answers \in Nat \X Nat /\ m.calls \in SUBSET ((Nat \ {0}) \X Nat)
         /\ m.name \in Nat
         /\ NoAnswer \notin m.calls
         /\ \A X : LET q == [m EXCEPT !.calls = @ \cap X]
                   IN /\ q \in Message /\ q.calls = m.calls \cap X /\ q.answers = m.answers
                      /\ q.origin = m.origin /\ q.name = m.name /\ (m.calls = {} => q = m)
<1>1. m.answers \in Nat \X Nat /\ m.calls \in SUBSET ((Nat \ {0}) \X Nat) /\ m.name \in Nat
  BY DEF Message
<1>2. NoAnswer \notin m.calls
  BY <1>1 DEF NoAnswer
<1>3. ASSUME NEW X
      PROVE  LET q == [m EXCEPT !.calls = @ \cap X]
             IN /\ q \in Message /\ q.calls = m.calls \cap X /\ q.answers = m.answers
                /\ q.origin = m.origin /\ q.name = m.name /\ (m.calls = {} => q = m)
  BY DEF Message
<1> QED
  BY <1>1, <1>2, <1>3

\* Calls and answers, by the place of the message.
LEMMA ByPlace ==
  ASSUME NEW s \in Seq(Message)
  PROVE  /\ \A i \in 1..Len(s) : s[i] \in Message /\ s[i].calls \subseteq CallsOf(s)
         /\ \A c \in CallsOf(s) : \E i \in 1..Len(s) : c \in s[i].calls
         /\ \A c : c \in AnswersOf(s) <=>
              c # NoAnswer /\ \E i \in 1..Len(s) : c = s[i].answers
         /\ \A m : m \in ToSet(s) <=> \E i \in 1..Len(s) : m = s[i]
<1>1. DOMAIN s = 1..Len(s) /\ \A i \in 1..Len(s) : s[i] \in Message
  OBVIOUS
<1>2. \A m : m \in ToSet(s) <=> \E i \in 1..Len(s) : m = s[i]
  BY <1>1 DEF ToSet
<1>3. \A i \in 1..Len(s) : s[i].calls \subseteq CallsOf(s)
  BY <1>2 DEF CallsOf
<1>4. \A c \in CallsOf(s) : \E i \in 1..Len(s) : c \in s[i].calls
  BY <1>2 DEF CallsOf
<1>5. \A c : c \in AnswersOf(s) <=> c # NoAnswer /\ \E i \in 1..Len(s) : c = s[i].answers
  BY <1>2 DEF AnswersOf
<1> QED
  BY <1>1, <1>2, <1>3, <1>4, <1>5

\* A filter keeps the order of calls and results.
LEMMA SiftedInTurn ==
  ASSUME NEW s \in Seq(Message), NEW r \in Seq(Message), NEW A, NEW e,
         Follows(e, r, s, A, Len(s)), InTurn(s)
  PROVE  InTurn(r)
<1> SUFFICES ASSUME NEW i \in 1..Len(r), NEW j \in 1..Len(r), r[i].answers \in r[j].calls
             PROVE  j < i
  BY DEF InTurn
<1>1. e[i] \in 1..Len(s) /\ e[j] \in 1..Len(s) /\ r[i] = s[e[i]] /\ r[j] = s[e[j]]
  BY DEF Follows
<1>2. e[j] < e[i]
  BY <1>1 DEF InTurn
<1>3. i < j => e[i] < e[j]
  BY DEF Follows
<1> QED
  BY <1>1, <1>2, <1>3

\* A filter keeps names apart.
LEMMA SiftedNamed ==
  ASSUME NEW s \in Seq(Message), NEW r \in Seq(Message), NEW A, NEW e, NEW n,
         Follows(e, r, s, A, Len(s)), Named(s, n)
  PROVE  Named(r, n)
<1>1. \A i \in 1..Len(r) : e[i] \in 1..Len(s) /\ r[i] = s[e[i]]
  BY DEF Follows
<1>2. \A i, j \in 1..Len(r) : i < j => e[i] < e[j]
  BY DEF Follows
<1>3. \A i \in 1..Len(r) : r[i].name <= n
  BY <1>1 DEF Named
<1>4. ASSUME NEW i \in 1..Len(r), NEW j \in 1..Len(r), i < j PROVE r[i].name # r[j].name
  <2>1. e[i] \in 1..Len(s) /\ e[j] \in 1..Len(s) /\ e[i] < e[j] /\ r[i] = s[e[i]] /\ r[j] = s[e[j]]
    BY <1>1, <1>2, <1>4
  <2>2. s[e[i]].name # s[e[j]].name
    BY <2>1 DEF Named
  <2> QED
    BY <2>1, <2>2
<1> QED
  BY <1>3, <1>4 DEF Named

\* What the repair returns, of a conversation whose order is right.
LEMMA RepairMends ==
  ASSUME NEW s \in Seq(Message), NEW n \in Nat, InTurn(s), Fit(s, n), Named(s, n)
  PROVE  LET q == Repaired(s)
         IN /\ q \in Seq(Message) /\ InTurn(q) /\ Fit(q, n) /\ Named(q, n)
            /\ CallsOf(q) # {} => Mended(q)
            /\ \A m \in ToSet(s) : Protected(m) => m \in ToSet(q)
<1>1. CASE CallsOf(s) = {}
  <2>1. Repaired(s) = s
    BY <1>1 DEF Repaired
  <2> QED
    BY <1>1, <2>1
<1>2. CASE CallsOf(s) # {}
  <2> DEFINE r == Among(s, Called(s))
             X == AnswersOf(r)
             q == [i \in 1..Len(r) |-> [r[i] EXCEPT !.calls = @ \cap X]]
  <2>1. Repaired(s) = q
    BY <1>2 DEF Repaired
  <2>2. r \in Seq(Message) /\ \E e : Follows(e, r, s, Called(s), Len(s))
    BY AmongFollows
  <2> HIDE DEF r
  <2>3. PICK e : Follows(e, r, s, Called(s), Len(s))
    BY <2>2
  <2>4. /\ \A i \in 1..Len(r) : e[i] \in 1..Len(s) /\ r[i] = s[e[i]] /\ r[i] \in Called(s)
        /\ \A p \in 1..Len(s) : s[p] \in Called(s) => \E k \in 1..Len(r) : r[k] = s[p]
    BY <2>3 DEF Follows
  <2>5. Len(r) \in Nat /\ \A i \in 1..Len(r) : r[i] \in Message
    BY <2>2
  <2> HIDE DEF X
  <2>6. \A i \in 1..Len(r) :
          /\ q[i] \in Message /\ q[i].calls = r[i].calls \cap X /\ q[i].answers = r[i].answers
          /\ q[i].origin = r[i].origin /\ q[i].name = r[i].name
          /\ (r[i].calls = {} => q[i] = r[i])
    BY <2>5, MessageCalls
  <2>7. q \in Seq(Message) /\ Len(q) = Len(r)
    BY <2>5, <2>6
  <2> HIDE DEF q
  <2>8. InTurn(q)
    <3>1. InTurn(r)
      BY <2>2, <2>3, SiftedInTurn
    <3> QED
      BY <2>6, <2>7, <3>1 DEF InTurn
  <2>9. Fit(q, n)
    <3> SUFFICES ASSUME NEW i \in 1..Len(q)
                 PROVE  /\ Protected(q[i]) => q[i].calls = {} /\ q[i].answers = NoAnswer
                        /\ q[i].calls # {} => q[i].answers = NoAnswer
                        /\ q[i].answers[1] <= n /\ \A c \in q[i].calls : c[1] <= n
      BY DEF Fit
    <3>1. /\ Protected(r[i]) => r[i].calls = {} /\ r[i].answers = NoAnswer
          /\ r[i].calls # {} => r[i].answers = NoAnswer
          /\ r[i].answers[1] <= n /\ \A c \in r[i].calls : c[1] <= n
      <4>1. PICK p \in 1..Len(s) : r[i] = s[p]
        BY <2>4, <2>7
      <4> QED
        BY <4>1 DEF Fit
    <3> QED
      BY <2>6, <2>7, <3>1 DEF Protected
  <2>10. \A c : c \in AnswersOf(q) <=> c \in X
    <3>1. \A c : c \in X <=> c # NoAnswer /\ \E i \in 1..Len(r) : c = r[i].answers
      BY <2>2, ByPlace DEF X
    <3>2. \A c : c \in AnswersOf(q) <=> c # NoAnswer /\ \E i \in 1..Len(q) : c = q[i].answers
      BY <2>7, ByPlace
    <3> QED
      BY <2>6, <2>7, <3>1, <3>2
  <2>11. CallsOf(q) \subseteq AnswersOf(q)
    BY <2>6, <2>7, <2>10, ByPlace
  <2>12. ASSUME NEW p \in 1..Len(s), s[p].answers = NoAnswer
         PROVE  \E k \in 1..Len(r) : r[k] = s[p]
    <3>1. s[p] \in ToSet(s)
      BY ByPlace
    <3> QED
      BY <2>4, <2>12, <3>1 DEF Called
  <2>13. ASSUME NEW i \in 1..Len(q), q[i].answers # NoAnswer
         PROVE  \E k \in 1..(i - 1) : q[i].answers \in q[k].calls
    <3>1. r[i] \in Called(s) /\ r[i].answers = q[i].answers
      BY <2>4, <2>6, <2>7
    <3>2. q[i].answers \in CallsOf(s)
      BY <2>13, <3>1 DEF Called
    <3>3. PICK p \in 1..Len(s) : q[i].answers \in s[p].calls
      BY <3>2, ByPlace
    <3>4. PICK k \in 1..Len(r) : r[k] = s[p]
      BY <2>12, <3>3 DEF Fit
    <3>5. q[i].answers \in X
      <4>1. q[i].answers \in AnswersOf(q)
        BY <2>7, <2>13, ByPlace
      <4> QED
        BY <2>10, <4>1
    <3>6. k \in 1..Len(q) /\ q[i].answers \in q[k].calls
      <4>1. q[k].calls = r[k].calls \cap X
        BY <2>6
      <4> QED
        BY <2>7, <3>3, <3>4, <3>5, <4>1
    <3>7. k < i
      BY <2>8, <3>6 DEF InTurn
    <3> QED
      BY <2>5, <2>7, <3>6, <3>7
  <2>14. ASSUME NEW m \in ToSet(s), Protected(m) PROVE m \in ToSet(q)
    <3>1. PICK p \in 1..Len(s) : m = s[p]
      BY ByPlace
    <3>2. m.calls = {} /\ m.answers = NoAnswer
      BY <2>14, <3>1 DEF Fit
    <3>3. PICK k \in 1..Len(r) : r[k] = m
      BY <2>12, <3>1, <3>2
    <3>4. q[k] = m /\ k \in 1..Len(q)
      BY <2>6, <2>7, <3>2, <3>3
    <3> QED
      BY <2>7, <3>4, ByPlace
  <2>15. Mended(q)
    BY <2>11, <2>13 DEF Mended
  <2>16. Named(q, n)
    <3>1. Named(r, n)
      BY <2>2, <2>3, SiftedNamed
    <3> QED
      BY <2>6, <2>7, <3>1 DEF Named
  <2> QED
    BY <2>1, <2>7, <2>8, <2>9, <2>14, <2>15, <2>16
<1> QED
  BY <1>1, <1>2

\* The recent window begins in the conversation.
LEMMA StartsInside ==
  ASSUME CompactionAssumption, NEW s \in Seq(Message), Len(s) > Window
  PROVE  RecentStart(s) \in 1..Len(s)
<1>1. Len(s) \in Nat /\ Window \in Nat \ {0}
  BY DEF CompactionAssumption
<1> DEFINE opens == {k \in 1..(Len(s) - Window + 1) : s[k].origin # "tool"}
<1>2. Len(s) - Window + 1 \in Nat /\ Len(s) - Window + 1 <= Len(s)
  BY <1>1
<1>3. opens \in SUBSET (1..(Len(s) - Window + 1))
  OBVIOUS
<1>4. CASE opens = {}
  BY <1>1, <1>4 DEF RecentStart
<1>5. CASE opens # {}
  <2> HIDE DEF opens
  <2>1. \E k \in opens : \A j \in opens : j <= k
    BY <1>2, <1>3, <1>5, MaxPlace
  <2>2. (CHOOSE k \in opens : \A j \in opens : j <= k) \in opens
    BY <2>1
  <2>3. RecentStart(s) = (CHOOSE k \in opens : \A j \in opens : j <= k)
    BY <1>5 DEF RecentStart, opens
  <2>4. RecentStart(s) \in 1..(Len(s) - Window + 1)
    BY <1>3, <2>2, <2>3
  <2> QED
    BY <1>1, <1>2, <2>4
<1> QED
  BY <1>4, <1>5

LEMMA FitMore ==
  ASSUME NEW s \in Seq(Message), NEW n \in Nat, NEW m \in Nat, n <= m, Fit(s, n)
  PROVE  Fit(s, m)
<1> SUFFICES ASSUME NEW i \in 1..Len(s)
             PROVE  s[i].answers[1] <= m /\ \A c \in s[i].calls : c[1] <= m
  BY DEF Fit
<1>1. s[i].answers[1] <= n /\ \A c \in s[i].calls : c[1] <= n
  BY DEF Fit
<1>2. s[i].answers \in Nat \X Nat /\ s[i].calls \in SUBSET ((Nat \ {0}) \X Nat)
  BY ByPlace, MessageCalls
<1>3. s[i].answers[1] \in Nat /\ \A c \in s[i].calls : c[1] \in Nat
  BY <1>2
<1> QED
  BY <1>1, <1>3

LEMMA Joined ==
  ASSUME NEW T, NEW a \in Seq(T), NEW b \in Seq(T)
  PROVE  /\ a \o b \in Seq(T) /\ Len(a \o b) = Len(a) + Len(b)
         /\ \A i \in 1..Len(a) : (a \o b)[i] = a[i]
         /\ \A i \in (Len(a) + 1)..(Len(a) + Len(b)) : (a \o b)[i] = b[i - Len(a)]
<1>1. Len(a) \in Nat /\ Len(b) \in Nat
  OBVIOUS
<1>2. /\ a \o b \in Seq(T) /\ Len(a \o b) = Len(a) + Len(b)
      /\ \A i \in 1..(Len(a) + Len(b)) :
           (a \o b)[i] = IF i <= Len(a) THEN a[i] ELSE b[i - Len(a)]
  BY ConcatProperties
<1>3. \A i \in 1..Len(a) : (a \o b)[i] = a[i]
  BY <1>1, <1>2
<1>4. \A i \in (Len(a) + 1)..(Len(a) + Len(b)) : (a \o b)[i] = b[i - Len(a)]
  BY <1>1, <1>2
<1> QED
  BY <1>2, <1>3, <1>4

\* A summary in the place of some messages of the beginning, of which the protected
\* ones stay: the order is kept.
LEMMA SummaryFits ==
  ASSUME NEW s \in Seq(Message), NEW n \in Nat, InTurn(s), Fit(s, n), NEW k \in 1..Len(s),
         NEW A, \A i \in 1..(k - 1) : Protected(s[i]) => s[i] \in A,
         NEW mem \in Message, mem.calls = {}, mem.answers = NoAnswer, ~Protected(mem),
         Named(s, n), mem.name = n + 1
  PROVE  LET w == Append(Among(SubSeq(s, 1, k - 1), A), mem) \o SubSeq(s, k, Len(s))
         IN /\ w \in Seq(Message) /\ InTurn(w) /\ Fit(w, n) /\ Named(w, n + 1)
            /\ \A m \in ToSet(s) : Protected(m) => m \in ToSet(w)
<1> DEFINE span == SubSeq(s, 1, k - 1)
           recent == SubSeq(s, k, Len(s))
           kept == Among(span, A)
           w == Append(kept, mem) \o recent
           l == Len(kept)
<1>1. /\ Len(s) \in Nat /\ k \in Nat /\ 1 <= k /\ k <= Len(s)
      /\ \A i \in 1..Len(s) : s[i] \in Message
  OBVIOUS
<1>2. span \in Seq(Message) /\ Len(span) = k - 1 /\ \A i \in 1..(k - 1) : span[i] = s[i]
  BY <1>1
<1>3. /\ recent \in Seq(Message) /\ Len(recent) = Len(s) - k + 1
      /\ \A i \in 1..(Len(s) - k + 1) : recent[i] = s[k + i - 1]
  BY <1>1
<1> HIDE DEF span, recent
<1>4. kept \in Seq(Message) /\ \E e : Follows(e, kept, span, A, k - 1)
  BY <1>2, AmongFollows
<1> HIDE DEF kept
<1>5. PICK e : Follows(e, kept, span, A, k - 1)
  BY <1>4
<1>6. l \in Nat
  BY <1>4
<1>7. Append(kept, mem) \in Seq(Message) /\ Len(Append(kept, mem)) = l + 1
      /\ Append(kept, mem)[l + 1] = mem /\ \A i \in 1..l : Append(kept, mem)[i] = kept[i]
  BY <1>4
<1> DEFINE front == Append(kept, mem)
<1>15. front \in Seq(Message) /\ recent \in Seq(Message) /\ w = front \o recent
  BY <1>3, <1>7
<1>16. Len(front) = l + 1 /\ front[l + 1] = mem /\ \A i \in 1..l : front[i] = kept[i]
  BY <1>7
<1> HIDE DEF w, l, front
<1>17. /\ w \in Seq(Message) /\ Len(w) = Len(front) + Len(recent)
       /\ \A i \in 1..Len(front) : w[i] = front[i]
       /\ \A i \in (Len(front) + 1)..(Len(front) + Len(recent)) :
            w[i] = recent[i - Len(front)]
  BY <1>15, Joined
<1>8. w \in Seq(Message) /\ Len(w) = l + 1 + (Len(s) - k + 1)
  BY <1>1, <1>3, <1>6, <1>16, <1>17
<1>9. /\ \A i \in 1..(l + 1) : w[i] = front[i]
      /\ \A i \in (l + 2)..Len(w) : w[i] = recent[i - (l + 1)]
  <2>1. Len(front) = l + 1 /\ l + 1 + 1 = l + 2 /\ Len(front) + Len(recent) = Len(w)
    BY <1>6, <1>16, <1>17
  <2>2. \A i \in (l + 2)..Len(w) : w[i] = recent[i - (l + 1)]
    BY <1>17, <2>1
  <2> QED
    BY <1>17, <2>1, <2>2
<1>10. /\ \A i \in 1..l : e[i] \in 1..(k - 1) /\ w[i] = s[e[i]]
       /\ w[l + 1] = mem
       /\ \A i \in (l + 2)..Len(w) : w[i] = s[k + i - l - 2] /\ k + i - l - 2 \in k..Len(s)
  <2>1. \A i \in 1..l : e[i] \in 1..(k - 1) /\ w[i] = s[e[i]]
    <3>1. \A i \in 1..l : e[i] \in 1..(k - 1) /\ kept[i] = span[e[i]]
      BY <1>5 DEF Follows, l
    <3> QED
      BY <1>2, <1>6, <1>9, <1>16, <3>1
  <2>2. w[l + 1] = mem
    BY <1>6, <1>9, <1>16
  <2>3. \A i \in (l + 2)..Len(w) : w[i] = s[k + i - l - 2] /\ k + i - l - 2 \in k..Len(s)
    <3> SUFFICES ASSUME NEW i \in (l + 2)..Len(w)
                 PROVE  w[i] = s[k + i - l - 2] /\ k + i - l - 2 \in k..Len(s)
      OBVIOUS
    <3>1. i - (l + 1) \in 1..(Len(s) - k + 1) /\ k + (i - (l + 1)) - 1 = k + i - l - 2
      BY <1>1, <1>6, <1>8
    <3> QED
      BY <1>1, <1>3, <1>6, <1>8, <1>9, <3>1
  <2> QED
    BY <2>1, <2>2, <2>3
<1> DEFINE d == [i \in 1..Len(w) |-> IF i <= l THEN e[i] ELSE k + i - l - 2]
<1>11. \A i \in 1..Len(w) : i # l + 1 => d[i] \in 1..Len(s) /\ w[i] = s[d[i]]
  <2> SUFFICES ASSUME NEW i \in 1..Len(w), i # l + 1
               PROVE  d[i] \in 1..Len(s) /\ w[i] = s[d[i]]
    OBVIOUS
  <2>1. CASE i \in 1..l
    BY <1>1, <1>6, <1>10, <2>1
  <2>2. CASE i \in (l + 2)..Len(w)
    BY <1>1, <1>6, <1>10, <2>2
  <2> QED
    BY <1>6, <1>8, <2>1, <2>2
<1>12. \A i, j \in 1..Len(w) : i # l + 1 /\ j # l + 1 /\ i < j => d[i] < d[j]
  <2> SUFFICES ASSUME NEW i \in 1..Len(w), NEW j \in 1..Len(w), i # l + 1, j # l + 1, i < j
               PROVE  d[i] < d[j]
    OBVIOUS
  <2>1. CASE j <= l
    <3>1. e[i] < e[j] /\ i <= l
      BY <1>5, <1>6, <1>8, <2>1 DEF Follows, l
    <3> QED
      BY <2>1, <3>1
  <2>2. CASE i <= l /\ j > l
    <3>1. d[i] = e[i] /\ e[i] \in 1..(k - 1) /\ d[j] = k + j - l - 2 /\ j >= l + 2
      BY <1>6, <1>8, <1>10, <2>2
    <3> HIDE DEF d
    <3> QED
      BY <1>1, <1>6, <3>1
  <2>3. CASE i > l
    BY <1>1, <1>6, <1>8, <2>3
  <2> QED
    BY <1>6, <1>8, <2>1, <2>2, <2>3
<1> HIDE DEF d
<1>13. InTurn(w)
  <2> SUFFICES ASSUME NEW i \in 1..Len(w), NEW j \in 1..Len(w), w[i].answers \in w[j].calls
               PROVE  j < i
    BY DEF InTurn
  <2>1. j # l + 1 /\ i # l + 1
    <3>1. NoAnswer \notin w[j].calls
      BY <1>8, ByPlace, MessageCalls
    <3> QED
      BY <1>10, <3>1
  <2>2. d[j] < d[i]
    BY <1>11, <2>1 DEF InTurn
  <2>3. i < j => d[i] < d[j]
    BY <1>12, <2>1
  <2>4. d[i] \in 1..Len(s) /\ d[j] \in 1..Len(s)
    BY <1>11, <2>1
  <2> QED
    BY <1>6, <1>8, <2>2, <2>3, <2>4
<1>14. Fit(w, n)
  <2> SUFFICES ASSUME NEW i \in 1..Len(w)
               PROVE  /\ Protected(w[i]) => w[i].calls = {} /\ w[i].answers = NoAnswer
                      /\ w[i].calls # {} => w[i].answers = NoAnswer
                      /\ w[i].answers[1] <= n /\ \A c \in w[i].calls : c[1] <= n
    BY DEF Fit
  <2>1. CASE i = l + 1
    BY <1>10, <2>1 DEF NoAnswer
  <2>2. CASE i # l + 1
    <3>1. PICK p \in 1..Len(s) : w[i] = s[p]
      BY <1>11, <2>2
    <3> QED
      BY <3>1 DEF Fit
  <2> QED
    BY <2>1, <2>2
<1>18. ASSUME NEW m \in ToSet(s), Protected(m) PROVE m \in ToSet(w)
  <2>1. PICK p \in 1..Len(s) : m = s[p]
    BY ByPlace
  <2>2. CASE p < k
    <3>1. span[p] \in A /\ p \in 1..(k - 1) /\ span[p] = m
      BY <1>1, <1>2, <1>18, <2>1, <2>2
    <3>2. PICK i \in 1..l : e[i] = p
      BY <1>5, <3>1 DEF Follows, l
    <3>3. i \in 1..Len(w) /\ w[i] = m
      BY <1>1, <1>6, <1>8, <1>10, <2>1, <3>2
    <3> QED
      BY <1>8, <3>3, ByPlace
  <2>3. CASE p >= k
    <3> DEFINE i == p - k + l + 2
    <3>1. i \in (l + 2)..Len(w) /\ i \in 1..Len(w) /\ k + i - l - 2 = p
      BY <1>1, <1>6, <1>8, <2>3
    <3> HIDE DEF i
    <3>2. w[i] = m
      BY <1>10, <2>1, <3>1
    <3> QED
      BY <1>8, <3>1, <3>2, ByPlace
  <2> QED
    BY <1>1, <2>2, <2>3
<1>19. Named(w, n + 1)
  <2>1. \A i \in 1..Len(w) : i # l + 1 => w[i].name <= n
    BY <1>11 DEF Named
  <2>2. ASSUME NEW i \in 1..Len(w), NEW j \in 1..Len(w), i < j
        PROVE  w[i].name # w[j].name
    <3>1. CASE i # l + 1 /\ j # l + 1
      <4>1. d[i] \in 1..Len(s) /\ d[j] \in 1..Len(s) /\ d[i] < d[j]
        BY <1>11, <1>12, <2>2, <3>1
      <4>2. w[i] = s[d[i]] /\ w[j] = s[d[j]]
        BY <1>11, <3>1
      <4> QED
        BY <4>1, <4>2 DEF Named
    <3>2. CASE i = l + 1 \/ j = l + 1
      <4>1. w[i].name \in Nat /\ w[j].name \in Nat
        BY <1>8, ByPlace, MessageCalls
      <4> QED
        BY <1>6, <1>8, <1>10, <2>1, <2>2, <3>2, <4>1
    <3> QED
      BY <3>1, <3>2
  <2>3. \A i \in 1..Len(w) : w[i].name <= n + 1
    <3> SUFFICES ASSUME NEW i \in 1..Len(w) PROVE w[i].name <= n + 1
      OBVIOUS
    <3>1. w[i].name \in Nat
      BY <1>8, ByPlace, MessageCalls
    <3> QED
      BY <1>10, <2>1, <3>1
  <2> QED
    BY <2>2, <2>3 DEF Named
<1> QED
  BY <1>8, <1>13, <1>14, <1>18, <1>19 DEF w, front, kept, span, recent

LEMMA TaggedMessage ==
  ASSUME NEW n \in Nat, NEW o \in Origins
  PROVE  /\ Tagged(n, o) \in Message
         /\ Tagged(n, o).calls = {} /\ Tagged(n, o).answers = NoAnswer
         /\ Tagged(n, o).origin = o /\ Tagged(n, o).name = n /\ NoAnswer[1] = 0
  BY DEF Tagged, Message, NoAnswer

\* A message with calls.
LEMMA Calling ==
  ASSUME NEW m \in Message, NEW X \in SUBSET ((Nat \ {0}) \X Nat),
         NEW q, q = [m EXCEPT !.calls = X]
  PROVE  /\ q \in Message /\ q.calls = X /\ q.answers = m.answers /\ q.origin = m.origin
         /\ q.name = m.name
  BY DEF Message

\* A message that answers.
Replying(m, c, b) == [m EXCEPT !.answers = c, !.critical = b]

LEMMA Answering ==
  ASSUME NEW m \in Message, NEW c \in Nat \X Nat, NEW b \in BOOLEAN
  PROVE  /\ Replying(m, c, b) \in Message /\ Replying(m, c, b).calls = m.calls
         /\ Replying(m, c, b).answers = c /\ Replying(m, c, b).origin = m.origin
         /\ Replying(m, c, b).name = m.name
<1> DEFINE p == [m EXCEPT !.answers = c]
           q == Replying(m, c, b)
<1>1. /\ p \in Message /\ p.calls = m.calls /\ p.answers = c /\ p.origin = m.origin
      /\ p.name = m.name
  BY DEF Message
<1>2. q = [p EXCEPT !.critical = b]
  BY DEF Replying
<1> HIDE DEF p, q
<1>3. /\ q \in Message /\ q.calls = m.calls /\ q.answers = c /\ q.origin = m.origin
      /\ q.name = m.name
  BY <1>1, <1>2 DEF Message
<1> QED
  BY <1>3 DEF q

\* What compact puts in the place of a conversation.
LEMMA SplicedMends ==
  ASSUME CompactionAssumption, NEW s \in Seq(Message), serial \in Nat,
         Len(s) > Window, InTurn(s), Fit(s, serial), Named(s, serial)
  PROVE  LET q == Spliced(s)
         IN /\ q \in Seq(Message) /\ InTurn(q) /\ Fit(q, serial + 1)
            /\ Named(q, serial + 1)
            /\ CallsOf(q) # {} => Mended(q)
            /\ Honest(s, q)
<1> DEFINE k == RecentStart(s)
           span == SubSeq(s, 1, k - 1)
           recent == SubSeq(s, k, Len(s))
           stay == {m \in ToSet(span) : Stays(m)}
           pruned == Among(span, ToSet(span) \ stay)
           back == {m \in ToSet(span) : m.name \in Restored(Among(span, stay), pruned, recent)}
           mem == Tagged(serial + 1, "memory")
           w == Append(Among(span, stay \cup back), mem) \o recent
<1>1. Spliced(s) = Repaired(w)
  <2>1. Parts(s).kept = Among(span, stay \cup back) /\ Parts(s).recent = recent
    BY DEF Parts
  <2> HIDE DEF span, recent, stay, back, mem
  <2> QED
    BY <2>1 DEF Spliced, mem
<1>2. k \in 1..Len(s)
  BY StartsInside
<1>3. \A i \in 1..(k - 1) : Protected(s[i]) => s[i] \in stay
  <2> SUFFICES ASSUME NEW i \in 1..(k - 1), Protected(s[i]) PROVE s[i] \in stay
    OBVIOUS
  <2> HIDE DEF k
  <2>1. span \in Seq(Message) /\ i \in 1..Len(span) /\ span[i] = s[i]
    BY <1>2
  <2> HIDE DEF span
  <2>2. s[i] \in ToSet(span)
    BY <2>1, ByPlace
  <2> QED
    BY <2>2 DEF Stays
<1>4. mem \in Message /\ mem.calls = {} /\ mem.answers = NoAnswer /\ ~Protected(mem)
      /\ mem.name = serial + 1
  BY TaggedMessage DEF Origins, Protected
<1> DEFINE A == stay \cup back
<1>5. \A i \in 1..(k - 1) : Protected(s[i]) => s[i] \in A
  BY <1>3
<1> HIDE DEF mem, stay, back, A
<1>6. /\ w \in Seq(Message) /\ InTurn(w) /\ Fit(w, serial) /\ Named(w, serial + 1)
      /\ \A m \in ToSet(s) : Protected(m) => m \in ToSet(w)
  <2> HIDE DEF k
  <2>1. w = Append(Among(SubSeq(s, 1, k - 1), A), mem) \o SubSeq(s, k, Len(s))
    BY DEF A
  <2> QED
    BY <1>2, <1>4, <1>5, <2>1, SummaryFits
<1> HIDE DEF w
<1>7. Fit(w, serial + 1)
  <2>1. serial + 1 \in Nat /\ serial <= serial + 1
    OBVIOUS
  <2> QED
    BY <1>6, <2>1, FitMore
<1> DEFINE q == Repaired(w)
<1>8. /\ q \in Seq(Message) /\ InTurn(q) /\ Fit(q, serial + 1) /\ Named(q, serial + 1)
      /\ CallsOf(q) # {} => Mended(q)
      /\ \A m \in ToSet(w) : Protected(m) => m \in ToSet(q)
  <2>1. serial + 1 \in Nat
    OBVIOUS
  <2> QED
    BY <1>6, <1>7, <2>1, RepairMends
<1> HIDE DEF q
<1>9. Honest(s, q)
  BY <1>6, <1>8 DEF Honest
<1> QED
  BY <1>1, <1>8, <1>9 DEF q

\* What is added comes after what there was, and its calls are new.
LEMMA AddedFits ==
  ASSUME NEW s \in Seq(Message), NEW n \in Nat, InTurn(s), Fit(s, n),
         NEW t \in Seq(Message), NEW m \in Nat, n <= m, InTurn(t), Fit(t, m),
         \A i \in 1..Len(t) : t[i].name > n /\ \A c \in t[i].calls : c[1] > n,
         Named(s, n), Named(t, m)
  PROVE  s \o t \in Seq(Message) /\ InTurn(s \o t) /\ Fit(s \o t, m) /\ Named(s \o t, m)
<1> DEFINE w == s \o t
<1>1. /\ w \in Seq(Message) /\ Len(w) = Len(s) + Len(t)
      /\ \A i \in 1..Len(s) : w[i] = s[i]
      /\ \A i \in (Len(s) + 1)..(Len(s) + Len(t)) : w[i] = t[i - Len(s)]
  BY Joined
<1> HIDE DEF w
<1> DEFINE a == Len(s)
           b == Len(t)
<1>2. a \in Nat /\ b \in Nat
  OBVIOUS
<1>3. Fit(s, m)
  BY FitMore
<1>4. \A i \in 1..Len(w) : \/ i \in 1..a /\ w[i] = s[i]
                           \/ i > a /\ i - a \in 1..b /\ w[i] = t[i - a]
  BY <1>1, <1>2
<1>5. ASSUME NEW i \in 1..Len(s), NEW c \in Nat \X Nat, c[1] > n PROVE s[i].answers # c
  <2>1. s[i].answers[1] <= n /\ s[i].answers \in Nat \X Nat
    BY ByPlace, MessageCalls DEF Fit
  <2> QED
    BY <1>5, <2>1
<1> HIDE DEF a, b
<1>6. InTurn(w)
  <2> SUFFICES ASSUME NEW i \in 1..Len(w), NEW j \in 1..Len(w), w[i].answers \in w[j].calls
               PROVE  j < i
    BY DEF InTurn
  <2>1. CASE i \in 1..a /\ w[i] = s[i] /\ j \in 1..a /\ w[j] = s[j]
    BY <2>1 DEF InTurn, a
  <2>2. CASE i > a /\ j \in 1..a
    BY <1>2, <2>2
  <2>3. CASE /\ i > a /\ i - a \in 1..b /\ w[i] = t[i - a]
             /\ j > a /\ j - a \in 1..b /\ w[j] = t[j - a]
    <3>1. j - a < i - a
      BY <2>3 DEF InTurn, b
    <3> QED
      BY <1>2, <3>1
  <2>4. CASE i \in 1..a /\ w[i] = s[i] /\ j > a /\ j - a \in 1..b /\ w[j] = t[j - a]
    <3>1. w[i].answers \in Nat \X Nat
      BY <1>1, ByPlace, MessageCalls
    <3>2. w[i].answers[1] > n
      BY <2>4 DEF b
    <3> QED
      BY <1>5, <2>4, <3>1, <3>2 DEF a
  <2> QED
    BY <1>4, <2>1, <2>2, <2>3, <2>4
<1>7. Fit(w, m)
  <2> SUFFICES ASSUME NEW i \in 1..Len(w)
               PROVE  /\ Protected(w[i]) => w[i].calls = {} /\ w[i].answers = NoAnswer
                      /\ w[i].calls # {} => w[i].answers = NoAnswer
                      /\ w[i].answers[1] <= m /\ \A c \in w[i].calls : c[1] <= m
    BY DEF Fit
  <2>1. CASE i \in 1..a /\ w[i] = s[i]
    BY <1>3, <2>1 DEF Fit, a
  <2>2. CASE i - a \in 1..b /\ w[i] = t[i - a]
    BY <2>2 DEF Fit, b
  <2> QED
    BY <1>4, <2>1, <2>2
<1>8. Named(w, m)
  <2>1. ASSUME NEW i \in 1..Len(w)
        PROVE  /\ w[i].name \in Nat /\ w[i].name <= m
               /\ i \in 1..a => w[i].name <= n
               /\ i > a => w[i].name > n
    <3>1. w[i].name \in Nat
      BY <1>1, ByPlace, MessageCalls
    <3>2. CASE i \in 1..a /\ w[i] = s[i]
      <4>1. w[i].name <= n
        BY <3>2 DEF Named, a
      <4> QED
        BY <1>2, <3>1, <3>2, <4>1
    <3>3. CASE i > a /\ i - a \in 1..b /\ w[i] = t[i - a]
      <4>1. w[i].name <= m /\ w[i].name > n
        BY <3>3 DEF Named, b
      <4> QED
        BY <1>2, <3>1, <3>3, <4>1
    <3> QED
      BY <1>4, <3>2, <3>3
  <2>2. ASSUME NEW i \in 1..Len(w), NEW j \in 1..Len(w), i < j
        PROVE  w[i].name # w[j].name
    <3>1. CASE i \in 1..a /\ w[i] = s[i] /\ j \in 1..a /\ w[j] = s[j]
      BY <2>2, <3>1 DEF Named, a
    <3>2. CASE /\ i > a /\ i - a \in 1..b /\ w[i] = t[i - a]
               /\ j > a /\ j - a \in 1..b /\ w[j] = t[j - a]
      <4>1. i - a < j - a
        BY <1>2, <2>2
      <4>2. t[i - a].name # t[j - a].name
        BY <3>2, <4>1 DEF Named, b
      <4> QED
        BY <3>2, <4>2
    <3>3. CASE i \in 1..a /\ j > a
      <4>1. w[i].name <= n /\ w[j].name > n /\ w[i].name \in Nat /\ w[j].name \in Nat
        BY <2>1, <3>3
      <4> QED
        BY <4>1
    <3>4. CASE i > a /\ j \in 1..a
      BY <1>2, <2>2, <3>4
    <3> QED
      BY <1>4, <3>1, <3>2, <3>3, <3>4
  <2> QED
    BY <2>1, <2>2 DEF Named
<1> QED
  BY <1>1, <1>6, <1>7, <1>8 DEF w

-----------------------------------------------------------------------------
(* The conversation, step by step.                                         *)

Chat ==
  /\ conversation \in Seq(Message) /\ serial \in Nat /\ packed \in 0..MaxPacked
  /\ InTurn(conversation) /\ Fit(conversation, serial) /\ Named(conversation, serial)

\* One message that neither calls nor answers.
LEMMA OneMore ==
  ASSUME Chat, NEW o \in Origins, Add(<<Tagged(serial + 1, o)>>)
  PROVE  Chat'
<1> DEFINE a == Tagged(serial + 1, o)
           t == <<a>>
<1>1. /\ a \in Message /\ a.calls = {} /\ a.answers = NoAnswer /\ NoAnswer[1] = 0
      /\ a.name = serial + 1
  BY TaggedMessage DEF Chat
<1> HIDE DEF a
<1>2. t \in Seq(Message) /\ Len(t) = 1 /\ t[1] = a
  BY <1>1
<1> HIDE DEF t
<1>3. /\ InTurn(t) /\ Fit(t, serial + 1) /\ Named(t, serial + 1)
      /\ \A i \in 1..Len(t) : t[i].name > serial /\ \A c \in t[i].calls : c[1] > serial
  BY <1>1, <1>2 DEF InTurn, Fit, Named, Chat
<1>4. conversation' = conversation \o t /\ serial' = serial + 1 /\ packed' = packed
  BY <1>2 DEF Add, t, a
<1>5. serial + 1 \in Nat /\ serial <= serial + 1 /\ serial \in Nat
  BY DEF Chat
<1>6. /\ conversation \o t \in Seq(Message)
      /\ InTurn(conversation \o t) /\ Fit(conversation \o t, serial + 1)
      /\ Named(conversation \o t, serial + 1)
  BY <1>2, <1>3, <1>5, AddedFits DEF Chat
<1> QED
  BY <1>4, <1>5, <1>6 DEF Chat

\* An answer with calls, and the results.
LEMMA CallsMore ==
  ASSUME Chat, NEW n \in Nat \ {0}, NEW got \in 0..n, NEW critical, NEW nudged \in 0..got,
         CallTools(n, got, critical, nudged)
  PROVE  Chat'
<1> DEFINE caller == serial + 1
           Reply(j) == [Tagged(caller + j, "tool") EXCEPT
                           !.answers = <<caller, j>>, !.critical = j \in critical]
           results == [j \in 1..got |-> Reply(j)]
           rest == IF nudged = 0 THEN results
                   ELSE InsertAt(results, nudged + 1, Tagged(caller + got + 1, "nudge"))
           a == [Tagged(caller, "assistant") EXCEPT !.calls = {caller} \X (1..n)]
           t == <<a>> \o rest
           D == {m \in Message : /\ m.calls = {} /\ m.answers[1] <= caller
                                 /\ Protected(m) => m.answers = NoAnswer}
<1>1. serial \in Nat /\ caller \in Nat \ {0} /\ n \in Nat /\ got \in Nat /\ nudged \in Nat
  BY DEF Chat
<1>2. conversation' = conversation \o t /\ serial' = serial + Len(t) /\ packed' = packed
  BY DEF CallTools, Add
<1>3. /\ a \in Message /\ a.calls = {caller} \X (1..n) /\ a.answers = NoAnswer
      /\ a.origin = "assistant" /\ a.name = caller
  <2>1. {caller} \X (1..n) \in SUBSET ((Nat \ {0}) \X Nat)
    BY <1>1
  <2>2. /\ Tagged(caller, "assistant") \in Message
        /\ Tagged(caller, "assistant").answers = NoAnswer
        /\ Tagged(caller, "assistant").origin = "assistant"
        /\ Tagged(caller, "assistant").name = caller
    BY <1>1, TaggedMessage DEF Origins
  <2> DEFINE plain == Tagged(caller, "assistant")
             X == {caller} \X (1..n)
  <2>3. plain \in Message /\ X \in SUBSET ((Nat \ {0}) \X Nat) /\ a = [plain EXCEPT !.calls = X]
    BY <2>1, <2>2
  <2> HIDE DEF plain, X, caller, a
  <2>4. /\ a \in Message /\ a.calls = X /\ a.answers = plain.answers /\ a.origin = plain.origin
        /\ a.name = plain.name
    BY <2>3, Calling
  <2> QED
    BY <2>2, <2>4 DEF plain, X
<1>4. results \in Seq(D) /\ Len(results) = got /\ \A j \in 1..got : results[j].name = caller + j
  <2>1. ASSUME NEW j \in 1..got PROVE Reply(j) \in D /\ Reply(j).name = caller + j
    <3>1. caller + j \in Nat /\ j \in Nat
      BY <1>1
    <3>2. /\ Reply(j) \in Message /\ Reply(j).calls = {} /\ Reply(j).answers = <<caller, j>>
          /\ Reply(j).origin = "tool" /\ Reply(j).name = caller + j
      <4> DEFINE plain == Tagged(caller + j, "tool")
                 pair == <<caller, j>>
                 flag == j \in critical
      <4>1. pair \in Nat \X Nat /\ flag \in BOOLEAN
        BY <1>1, <3>1
      <4>2. plain \in Message /\ plain.calls = {} /\ plain.origin = "tool" /\ plain.name = caller + j
        BY <3>1, TaggedMessage DEF Origins
      <4>3. Reply(j) = Replying(plain, pair, flag)
        BY DEF Replying
      <4> HIDE DEF plain, pair, flag, Reply, caller
      <4>4. /\ Reply(j) \in Message /\ Reply(j).calls = plain.calls
            /\ Reply(j).answers = pair /\ Reply(j).origin = plain.origin
            /\ Reply(j).name = plain.name
        BY <4>1, <4>2, <4>3, Answering
      <4> QED
        BY <4>2, <4>4 DEF pair
    <3> HIDE DEF Reply
    <3> QED
      BY <1>1, <3>2 DEF Protected
  <2> HIDE DEF Reply, D
  <2> QED
    BY <1>1, <2>1
<1>5. /\ Tagged(caller + got + 1, "nudge") \in D
      /\ Tagged(caller + got + 1, "nudge").name = caller + got + 1
  <2>1. caller + got + 1 \in Nat
    BY <1>1
  <2> QED
    BY <1>1, <2>1, TaggedMessage DEF Origins
<1> DEFINE nudge == Tagged(caller + got + 1, "nudge")
<1> HIDE DEF D, results, nudge
<1>6. rest \in Seq(D)
  <2>1. CASE nudged = 0
    BY <1>4, <2>1
  <2>2. CASE nudged # 0
    <3> DEFINE before == SubSeq(results, 1, (nudged + 1) - 1)
               after == SubSeq(results, nudged + 1, Len(results))
    <3>1. before \in Seq(D) /\ after \in Seq(D)
      BY <1>1, <1>4
    <3>2. <<nudge>> \in Seq(D)
      BY <1>5 DEF nudge
    <3>3. rest = before \o <<nudge>> \o after
      <4>1. rest = InsertAt(results, nudged + 1, nudge)
        BY <2>2 DEF nudge
      <4> HIDE DEF rest
      <4> QED
        BY <4>1 DEF InsertAt
    <3> HIDE DEF before, after, rest
    <3>4. before \o <<nudge>> \in Seq(D)
      BY <3>1, <3>2
    <3> QED
      BY <3>1, <3>3, <3>4, Joined
  <2> QED
    BY <2>1, <2>2
<1>16. /\ \A i \in 1..Len(rest) : rest[i].name > caller /\ rest[i].name <= caller + Len(rest)
       /\ \A i, j \in 1..Len(rest) : i < j => rest[i].name # rest[j].name
  <2> HIDE DEF caller
  <2>1. CASE nudged = 0
    <3>1. rest = results /\ Len(rest) = got
      BY <1>4, <2>1
    <3> HIDE DEF rest
    <3> QED
      BY <1>1, <1>4, <3>1
  <2>2. CASE nudged # 0
    <3> DEFINE before == SubSeq(results, 1, (nudged + 1) - 1)
               after == SubSeq(results, nudged + 1, Len(results))
               one == <<nudge>>
               front == before \o one
    <3>1. /\ before \in Seq(D) /\ Len(before) = nudged
          /\ \A i \in 1..nudged : before[i].name = caller + i
      <4>1. (nudged + 1) - 1 = nudged /\ nudged <= got
        BY <1>1
      <4>2. before \in Seq(D) /\ Len(before) = nudged /\ \A i \in 1..nudged : before[i] = results[i]
        BY <1>1, <1>4, <4>1
      <4> HIDE DEF before
      <4> QED
        BY <1>1, <1>4, <4>1, <4>2
    <3>2. /\ after \in Seq(D) /\ Len(after) = got - nudged
          /\ \A i \in 1..(got - nudged) : after[i].name = caller + nudged + i
      <4>1. /\ after \in Seq(D) /\ Len(after) = got - nudged
            /\ \A i \in 1..(got - nudged) : after[i] = results[nudged + i]
        BY <1>1, <1>4
      <4>2. \A i \in 1..(got - nudged) : nudged + i \in 1..got /\ caller + (nudged + i) = caller + nudged + i
        BY <1>1
      <4> HIDE DEF after
      <4> QED
        BY <1>4, <4>1, <4>2
    <3>3. one \in Seq(D) /\ Len(one) = 1 /\ one[1].name = caller + got + 1
      BY <1>5 DEF nudge
    <3>4. rest = front \o after
      <4>1. rest = InsertAt(results, nudged + 1, nudge)
        BY <2>2 DEF nudge
      <4> HIDE DEF rest
      <4> QED
        BY <4>1 DEF InsertAt
    <3> HIDE DEF before, after, one, rest
    <3>5. /\ front \in Seq(D) /\ Len(front) = Len(before) + Len(one)
          /\ \A i \in 1..Len(before) : front[i] = before[i]
          /\ \A i \in (Len(before) + 1)..(Len(before) + Len(one)) : front[i] = one[i - Len(before)]
      BY <3>1, <3>3, Joined
    <3> HIDE DEF front
    <3>6. /\ Len(front) = nudged + 1 /\ \A i \in 1..nudged : front[i].name = caller + i
          /\ front[nudged + 1].name = caller + got + 1
      BY <1>1, <3>1, <3>3, <3>5
    <3>7. /\ Len(rest) = Len(front) + Len(after)
          /\ \A i \in 1..Len(front) : rest[i] = front[i]
          /\ \A i \in (Len(front) + 1)..(Len(front) + Len(after)) : rest[i] = after[i - Len(front)]
      <4>1. front \in Seq(D) /\ after \in Seq(D)
        BY <3>2, <3>5
      <4> QED
        BY <3>4, <4>1, Joined
    <3>8. Len(rest) = got + 1
      BY <1>1, <3>2, <3>6, <3>7
    <3>9. \A i \in 1..Len(rest) :
            rest[i].name = IF i <= nudged THEN caller + i
                           ELSE IF i = nudged + 1 THEN caller + got + 1 ELSE caller + i - 1
      <4> SUFFICES ASSUME NEW i \in 1..Len(rest)
                   PROVE  rest[i].name = IF i <= nudged THEN caller + i
                                         ELSE IF i = nudged + 1 THEN caller + got + 1
                                         ELSE caller + i - 1
        OBVIOUS
      <4>1. CASE i <= nudged + 1
        BY <1>1, <3>6, <3>7, <3>8, <4>1
      <4>2. CASE i > nudged + 1
        <5>1. i - (nudged + 1) \in 1..(got - nudged) /\ rest[i] = after[i - (nudged + 1)]
          BY <1>1, <3>2, <3>6, <3>7, <3>8, <4>2
        <5>2. rest[i].name = caller + nudged + (i - (nudged + 1))
          BY <3>2, <5>1
        <5> QED
          BY <1>1, <3>8, <4>2, <5>2
      <4> QED
        BY <1>1, <3>8, <4>1, <4>2
    <3>10. ASSUME NEW i \in 1..Len(rest)
           PROVE  rest[i].name > caller /\ rest[i].name <= caller + Len(rest)
      BY <1>1, <3>8, <3>9
    <3>11. ASSUME NEW i \in 1..Len(rest), NEW j \in 1..Len(rest), i < j
           PROVE  rest[i].name # rest[j].name
      BY <1>1, <3>8, <3>9, <3>11
    <3> QED
      BY <3>10, <3>11
  <2> QED
    BY <2>1, <2>2
<1> HIDE DEF a, rest, caller
<1>7. \A i \in 1..Len(rest) : /\ rest[i] \in Message /\ rest[i].calls = {}
                              /\ rest[i].answers[1] <= caller
                              /\ Protected(rest[i]) => rest[i].answers = NoAnswer
  <2>1. \A i \in 1..Len(rest) : rest[i] \in D
    BY <1>6
  <2> QED
    BY <2>1 DEF D
<1>8. /\ t \in Seq(Message) /\ Len(t) = 1 + Len(rest) /\ Len(rest) \in Nat /\ t[1] = a
      /\ \A i \in 2..Len(t) : t[i] = rest[i - 1] /\ i - 1 \in 1..Len(rest)
  <2>1. <<a>> \in Seq(Message) /\ Len(<<a>>) = 1 /\ <<a>>[1] = a
    BY <1>3
  <2>2. rest \in Seq(Message) /\ Len(rest) \in Nat
    BY <1>6, <1>7
  <2> DEFINE head == <<a>>
  <2> HIDE DEF head
  <2>3. /\ head \o rest \in Seq(Message) /\ Len(head \o rest) = Len(head) + Len(rest)
        /\ \A i \in 1..Len(head) : (head \o rest)[i] = head[i]
        /\ \A i \in (Len(head) + 1)..(Len(head) + Len(rest)) : (head \o rest)[i] = rest[i - Len(head)]
    BY <2>1, <2>2, Joined DEF head
  <2>4. t = head \o rest /\ Len(head) = 1 /\ head[1] = a
    BY <2>1 DEF head
  <2> HIDE DEF t
  <2> QED
    BY <2>2, <2>3, <2>4
<1> HIDE DEF t
<1>9. NoAnswer[1] = 0 /\ NoAnswer \notin a.calls /\ \A c \in a.calls : c[1] = caller
  BY <1>1, <1>3 DEF NoAnswer
<1>10. \A i \in 1..Len(t) :
         \/ i = 1 /\ t[i] = a
         \/ i > 1 /\ t[i].calls = {} /\ t[i].answers[1] <= caller
            /\ (Protected(t[i]) => t[i].answers = NoAnswer)
  <2> SUFFICES ASSUME NEW i \in 1..Len(t), i # 1
               PROVE  i > 1 /\ t[i].calls = {} /\ t[i].answers[1] <= caller
                      /\ (Protected(t[i]) => t[i].answers = NoAnswer)
    BY <1>8
  <2>1. i \in 2..Len(t)
    BY <1>8
  <2>2. t[i] = rest[i - 1] /\ i - 1 \in 1..Len(rest)
    BY <1>8, <2>1
  <2> QED
    BY <1>7, <2>1, <2>2
<1>11. InTurn(t)
  <2> SUFFICES ASSUME NEW i \in 1..Len(t), NEW j \in 1..Len(t), t[i].answers \in t[j].calls
               PROVE  j < i
    BY DEF InTurn
  <2>1. j = 1 /\ t[j] = a
    BY <1>10
  <2>2. i # 1
    BY <1>3, <1>9, <2>1
  <2> QED
    BY <1>10, <2>1, <2>2
<1> DEFINE m == serial + Len(t)
<1>12. m \in Nat /\ serial <= m /\ caller <= m /\ caller > serial
  BY <1>1, <1>8 DEF caller
<1> HIDE DEF m
<1>13. Fit(t, m)
  <2> SUFFICES ASSUME NEW i \in 1..Len(t)
               PROVE  /\ Protected(t[i]) => t[i].calls = {} /\ t[i].answers = NoAnswer
                      /\ t[i].calls # {} => t[i].answers = NoAnswer
                      /\ t[i].answers[1] <= m /\ \A c \in t[i].calls : c[1] <= m
    BY DEF Fit
  <2>1. CASE i = 1 /\ t[i] = a
    BY <1>3, <1>9, <1>12, <2>1 DEF Protected
  <2>2. CASE i > 1 /\ t[i].calls = {} /\ t[i].answers[1] <= caller
             /\ (Protected(t[i]) => t[i].answers = NoAnswer)
    <3>1. t[i].answers[1] \in Nat
      BY <1>8, ByPlace, MessageCalls
    <3> QED
      BY <1>1, <1>12, <2>2, <3>1
  <2> QED
    BY <1>10, <2>1, <2>2
<1>17. \A i \in 1..Len(t) : t[i].name >= caller /\ t[i].name <= m
  <2> SUFFICES ASSUME NEW i \in 1..Len(t) PROVE t[i].name >= caller /\ t[i].name <= m
    OBVIOUS
  <2>1. t[i].name \in Nat
    BY <1>8, ByPlace, MessageCalls
  <2>2. CASE i = 1
    BY <1>1, <1>3, <1>8, <1>12, <2>2
  <2>3. CASE i # 1
    <3>1. i - 1 \in 1..Len(rest) /\ t[i] = rest[i - 1]
      BY <1>8, <2>3
    <3>2. rest[i - 1].name > caller /\ rest[i - 1].name <= caller + Len(rest)
      BY <1>16, <3>1
    <3>3. caller + Len(rest) = m
      BY <1>1, <1>8 DEF caller, m
    <3> QED
      BY <1>1, <2>1, <3>1, <3>2, <3>3
  <2> QED
    BY <2>2, <2>3
<1>18. Named(t, m)
  <2> SUFFICES ASSUME NEW i \in 1..Len(t), NEW j \in 1..Len(t), i < j
               PROVE  t[i].name # t[j].name
    BY <1>17 DEF Named
  <2>1. j # 1 /\ t[j] = rest[j - 1] /\ j - 1 \in 1..Len(rest)
    BY <1>8
  <2>2. CASE i = 1
    <3>1. rest[j - 1].name > caller /\ t[i].name = caller
      BY <1>3, <1>8, <1>16, <2>1, <2>2
    <3> QED
      BY <1>1, <2>1, <3>1
  <2>3. CASE i # 1
    <3>1. t[i] = rest[i - 1] /\ i - 1 \in 1..Len(rest) /\ i - 1 < j - 1
      BY <1>8, <2>3
    <3> QED
      BY <1>16, <2>1, <3>1
  <2> QED
    BY <2>2, <2>3
<1>14. \A i \in 1..Len(t) : t[i].name > serial /\ \A c \in t[i].calls : c[1] > serial
  <2>1. \A i \in 1..Len(t) : t[i].name \in Nat
    BY <1>8, ByPlace, MessageCalls
  <2> QED
    BY <1>1, <1>9, <1>10, <1>12, <1>17, <2>1
<1>15. /\ conversation \o t \in Seq(Message)
       /\ InTurn(conversation \o t) /\ Fit(conversation \o t, m) /\ Named(conversation \o t, m)
  BY <1>1, <1>8, <1>11, <1>12, <1>13, <1>14, <1>18, AddedFits DEF Chat
<1> QED
  BY <1>2, <1>12, <1>15 DEF Chat, m

\* A compaction.
LEMMA CompactMore ==
  ASSUME CompactionAssumption, Chat, NEW forced \in BOOLEAN, Compact(forced)
  PROVE  /\ Chat' /\ (CallsOf(conversation') # {} => Mended(conversation'))
         /\ conversation' = Spliced(conversation)
<1>1. Window \in Nat /\ Floor \in Nat /\ Len(conversation) \in Nat /\ serial \in Nat
  BY DEF CompactionAssumption, Chat
<1>2. Len(conversation) > Window
  BY <1>1 DEF Compact, ShouldCompact
<1> DEFINE q == Spliced(conversation)
<1>3. /\ q \in Seq(Message) /\ InTurn(q) /\ Fit(q, serial + 1) /\ Named(q, serial + 1)
      /\ CallsOf(q) # {} => Mended(q)
      /\ Honest(conversation, q)
  BY <1>1, <1>2, SplicedMends DEF Chat
<1>4. conversation' = q /\ serial' = serial + 1 /\ packed' = packed + 1
  BY <1>3 DEF Compact
<1> HIDE DEF q
<1>5. packed' \in 0..MaxPacked /\ serial' \in Nat
  BY <1>1, <1>4 DEF Chat, Compact, CompactionAssumption
<1> QED
  BY <1>3, <1>4, <1>5 DEF Chat, q

LEMMA ChatStarts == ASSUME CompactionAssumption, CompactInit PROVE Chat
<1>1. conversation = <<Tagged(1, "user")>> /\ serial = 1 /\ packed = 0
  BY DEF CompactInit
<1>2. Tagged(1, "user") \in Message /\ Tagged(1, "user").calls = {}
      /\ Tagged(1, "user").answers = NoAnswer /\ NoAnswer[1] = 0 /\ Tagged(1, "user").name = 1
  BY TaggedMessage DEF Origins
<1>3. conversation \in Seq(Message) /\ Len(conversation) = 1 /\ conversation[1] = Tagged(1, "user")
  BY <1>1, <1>2
<1> QED
  BY <1>1, <1>2, <1>3 DEF Chat, InTurn, Fit, Named, CompactionAssumption

\* Every step keeps the order, and a compaction leaves no pair split.
LEMMA ChatStep ==
  ASSUME CompactionAssumption, Chat, [CompactNext]_compactVars
  PROVE  /\ Chat'
         /\ Compacted /\ CallsOf(conversation') # {} => Mended(conversation')
         /\ Compacted => conversation' = Spliced(conversation)
<1>1. CASE UNCHANGED compactVars
  BY <1>1 DEF compactVars, Chat, Compacted, InTurn, Fit, Named
<1>2. ASSUME NEW origin \in {"user", "nudge"}, UserTurn(origin)
      PROVE  Chat' /\ ~Compacted
  BY <1>2, OneMore DEF UserTurn, Add, Compacted, Origins
<1>3. CASE Answer
  BY <1>3, OneMore DEF Answer, Add, Compacted, Origins
<1>4. ASSUME NEW n \in 1..MaxCalls, NEW got \in 0..n, NEW critical \in SUBSET (1..got),
             NEW nudged \in 0..got, CallTools(n, got, critical, nudged)
      PROVE  Chat' /\ ~Compacted
  <2>1. n \in Nat \ {0}
    BY DEF CompactionAssumption
  <2>2. Chat'
    BY <1>4, <2>1, CallsMore
  <2>3. ~Compacted
    BY <1>4 DEF CallTools, Add, Compacted
  <2> QED
    BY <2>2, <2>3
<1>5. ASSUME NEW forced \in BOOLEAN, Compact(forced)
      PROVE  /\ Chat' /\ (CallsOf(conversation') # {} => Mended(conversation'))
             /\ conversation' = Spliced(conversation)
  BY <1>5, CompactMore
<1> QED
  BY <1>1, <1>2, <1>3, <1>4, <1>5 DEF CompactNext

\* The inductive invariant of the conversation: Chat.
LEMMA Chatting == ASSUME CompactionAssumption PROVE CompactSpec => []Chat
<1>1. CompactInit => Chat
  BY ChatStarts
<1>2. Chat /\ [CompactNext]_compactVars => Chat'
  BY ChatStep
<1> QED
  BY <1>1, <1>2, PTL DEF CompactSpec

\* Compaction's state is well typed, and no two messages have one name, by which the
\* floor restores them.
THEOREM CompactTypeCorrect == ASSUME CompactionAssumption PROVE CompactSpec => []CompactTypeOK
<1>1. Chat => CompactTypeOK
  <2> SUFFICES ASSUME Chat PROVE CompactTypeOK
    OBVIOUS
  <2>1. Len(conversation) \in Nat
    BY DEF Chat
  <2>2. ASSUME NEW i \in 1..Len(conversation), NEW j \in 1..Len(conversation), i # j
        PROVE  conversation[i].name # conversation[j].name
    <3>1. i < j \/ j < i
      BY <2>1, <2>2
    <3> QED
      BY <3>1 DEF Chat, Named
  <2> QED
    BY <2>2 DEF Chat, CompactTypeOK
<1> QED
  BY <1>1, Chatting, PTL

\* PairsMended holds: no compaction splits a pair of a call and its result.
THEOREM NoSplitPair == ASSUME CompactionAssumption PROVE CompactSpec => PairsMended
<1> DEFINE Whole == Compacted /\ CallsOf(conversation') # {} => Mended(conversation')
<1>1. Chat /\ [CompactNext]_compactVars => [Whole]_compactVars
  BY ChatStep
<1>2. CompactSpec => [][Whole]_compactVars
  BY <1>1, Chatting, PTL DEF CompactSpec
<1> QED
  BY <1>2 DEF PairsMended, Mended

\* NeverRolledBack holds: what compact puts together always passes its own check.
THEOREM NoRollback == ASSUME CompactionAssumption PROVE CompactSpec => NeverRolledBack
<1> DEFINE Taken == Compacted => conversation' = Spliced(conversation)
<1>1. Chat /\ [CompactNext]_compactVars => [Taken]_compactVars
  BY ChatStep
<1>2. CompactSpec => [][Taken]_compactVars
  BY <1>1, Chatting, PTL DEF CompactSpec
<1> QED
  BY <1>2 DEF NeverRolledBack
=============================================================================
