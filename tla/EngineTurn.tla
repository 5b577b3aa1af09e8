----------------------------- MODULE EngineTurn -----------------------------
(***************************************************************************)
(* The graph a worker runs its turns on (engine/graph.py): the model, the  *)
(* approval gate, the tools, compaction, and the stage machine of goal     *)
(* mode.  A node reads the checkpointed state and writes it when it ends;  *)
(* the tools node alone does things on the way that a crash does not undo, *)
(* which the replay journal remembers (engine/checkpointer.py).            *)
(*                                                                         *)
(* Of the conversation the model keeps the calls of the last message of    *)
(* the model, whether they have been answered, and whether an earlier      *)
(* message was left with a call that never was.  Goal stages after `plan`  *)
(* are left out: nothing writes the tracker that leads there.              *)
(***************************************************************************)
EXTENDS Naturals, Sequences, FiniteSetsExt

CONSTANTS
  Tools,        \* the tools the model may call
  Mutating,     \* those that need a card under the thread's autonomy
  Journaled,    \* those the journal protects
  Flaky,        \* those that may fail
  Rule,         \* the ruleset: each tool's effect, or "none"
  Goal,         \* whether the thread is in goal mode
  ForceStop,    \* _STREAK_FORCE_STOP
  Limit,        \* recursion_limit, in nodes
  MaxMessages,  \* bound: answers of the model
  MaxNudges,    \* bound: further turns
  MaxTurnFaults \* bound: crashes and journal writes that fail

TurnAssumption ==
  /\ Mutating \subseteq Tools /\ Journaled \subseteq Tools /\ Flaky \subseteq Tools
  /\ Rule \in [Tools -> {"none", "allow", "ask", "deny"}]
  /\ Goal \in BOOLEAN /\ ForceStop \in Nat \ {0}
  /\ Limit \in Nat /\ MaxMessages \in Nat /\ MaxNudges \in Nat /\ MaxTurnFaults \in Nat

VARIABLES
  node,         \* the node to run next; "card": the gate waits for a decision
  calls,        \* tool calls of the last answer
  verdict,      \* approved_calls, of these
  open, torn,   \* the last answer's calls have no results; an earlier one's never had
  denied,       \* denial_streak
  fails,        \* tool_streak, of each tool
  done, blocked, error,
  needs, force, retries,              \* compaction
  goalStage, critic, pending, tasks,  \* goal mode; tasks: steps are tracked
  at, out,      \* the tools node: the call it is at, and what it will write
  ran, journal, \* effects of each call, and what the journal holds of it
  steps, sent, nudges, turnFaults,
  spins,        \* overflows of the turn since its last answer
  cuts,         \* turns that ended between a call and its result
  lapses        \* effects that a fault left without a record

talkVars == <<calls, verdict, open, torn>>
goalVars == <<goalStage, critic, pending, tasks>>
packVars == <<needs, force, retries, spins>>
toolVars == <<at, out, ran, journal, fails>>
boundVars == <<sent, nudges, turnFaults>>
flags == <<done, blocked, error>>
flowVars == <<node, steps, cuts>>
turnVars == <<flowVars, talkVars, denied, goalVars, packVars, toolVars, boundVars, flags, lapses>>

Tally(f) ==
  [done |-> FALSE, force |-> FALSE, ask |-> FALSE, tasks |-> FALSE, stuck |-> FALSE,
   got |-> 0, fails |-> f]
Blank(cs, x) == [i \in DOMAIN cs |-> x]

TurnTypeOK ==
  /\ node \in {"idle", "goal", "agent", "gate", "card", "tools", "compaction", "failed"}
  /\ calls \in Seq(Tools) /\ verdict \in [DOMAIN calls -> {"none", "yes", "no"}]
  /\ open \in BOOLEAN /\ torn \in BOOLEAN /\ pending \in BOOLEAN /\ tasks \in BOOLEAN
  /\ done \in BOOLEAN /\ blocked \in BOOLEAN /\ error \in BOOLEAN
  /\ needs \in BOOLEAN /\ force \in BOOLEAN
  /\ denied \in Nat /\ retries \in Nat /\ spins \in Nat /\ critic \in 0..3
  /\ fails \in [Tools -> Nat] /\ lapses \in Nat /\ cuts \in Nat
  /\ goalStage \in {"intake", "clarify", "explore", "plan", "implement", "blocked"}
  /\ at \in 1..(Len(calls) + 1)
  /\ ran \in [DOMAIN calls -> Nat] /\ journal \in [DOMAIN calls -> {"none", "ok", "bad"}]
  /\ steps \in Nat /\ sent \in Nat /\ nudges \in Nat /\ turnFaults \in Nat

EntryNode == IF Goal THEN "goal" ELSE "agent"

\* The first turn of a fresh thread.
TurnInit ==
  /\ node = EntryNode /\ steps = 0 /\ cuts = 0
  /\ calls = <<>> /\ verdict = <<>> /\ open = FALSE /\ torn = FALSE
  /\ denied = 0
  /\ goalStage = "intake" /\ critic = 0 /\ pending = FALSE /\ tasks = FALSE
  /\ needs = FALSE /\ force = FALSE /\ retries = 0 /\ spins = 0
  /\ fails = [t \in Tools |-> 0] /\ at = 1 /\ out = Tally(fails) /\ ran = <<>> /\ journal = <<>>
  /\ sent = 0 /\ nudges = 0 /\ turnFaults = 0 /\ lapses = 0
  /\ done = FALSE /\ blocked = FALSE /\ error = FALSE

\* The turn is over, well or not: a first turn that fails ends the thread.
TurnOver(failed) == node' = (IF failed /\ nudges = 0 THEN "failed" ELSE "idle") /\ steps' = 0

\* The next node of the graph, unless the turn has run as many as it may.
Onto(next) ==
  IF steps + 1 >= Limit
  THEN TurnOver(TRUE) /\ cuts' = cuts + 1
  ELSE node' = next /\ steps' = steps + 1 /\ UNCHANGED cuts

TurnFault == turnFaults < MaxTurnFaults /\ turnFaults' = turnFaults + 1

-----------------------------------------------------------------------------
(* agent_node and _should_continue.                                        *)

RulesActive == \E t \in Tools : Rule[t] # "none"

\* Mutant: the ruleset is not consulted on the way to the tools (C-05).
GatedMutant(cs) == \E i \in DOMAIN cs : cs[i] \in Mutating

Gated(cs) == RulesActive \/ \E i \in DOMAIN cs : cs[i] \in Mutating

\* The calls of an answer.
Scripts == {<<>>} \cup {<<t>> : t \in Tools} \cup {<<t, u>> : t, u \in Tools}

Answers(cs) ==
  /\ node = "agent" /\ ~torn /\ sent < MaxMessages /\ sent' = sent + 1
  /\ calls' = cs /\ open' = (cs # <<>>)
  /\ verdict' = Blank(cs, "none") /\ ran' = Blank(cs, 0) /\ journal' = Blank(cs, "none")
  /\ retries' = 0 /\ spins' = 0
  /\ CASE cs = <<>> /\ ~Goal        -> TurnOver(FALSE) /\ UNCHANGED cuts
       [] cs = <<>> /\ Goal         -> Onto("goal")
       [] cs # <<>> /\ Gated(cs)    -> Onto("gate")
       [] cs # <<>> /\ ~Gated(cs)   -> Onto("tools")
  /\ UNCHANGED <<torn, denied, goalVars, needs, force, at, out, fails, nudges, turnFaults, flags,
                 lapses>>

\* The context is too long: compact, and try once again.
Overflows ==
  /\ node = "agent" /\ retries < 1
  /\ needs' = TRUE /\ force' = TRUE /\ spins' = spins + 1
  /\ Onto("compaction")
  /\ UNCHANGED <<talkVars, denied, goalVars, retries, toolVars, boundVars, flags, lapses>>

\* Any other error; the gateway refuses every conversation in which a call has no
\* result.
AgentFails ==
  /\ node = "agent"
  /\ error' = TRUE /\ done' = TRUE
  /\ TurnOver(TRUE) /\ UNCHANGED cuts
  /\ UNCHANGED <<talkVars, denied, goalVars, packVars, toolVars, boundVars, blocked, lapses>>

-----------------------------------------------------------------------------
(* approval_gate_node and _after_gate.                                     *)

Passes(t) == Rule[t] = "allow" \/ (Rule[t] = "none" /\ t \notin Mutating)
Undecided == {i \in DOMAIN calls : verdict[i] = "none"}
Stoppers == {i \in Undecided : ~Passes(calls[i])}
First == Min(Stoppers)
PassedCalls == {i \in Undecided : Stoppers = {} \/ i < First}

\* denial_streak after the calls that pass by themselves.
Streak == IF PassedCalls = {} THEN denied ELSE 0

\* One execution of the node: the calls before the first stopper pass, and that
\* one is decided.  Three denials in a row end the turn before its tools.
GateDecides(ok) ==
  LET left == Undecided \ (PassedCalls \cup {First})
      again == left # {} /\ (RulesActive \/ \E i \in left : calls[i] \in Mutating)
  IN /\ verdict' = [i \in DOMAIN calls |->
                      CASE i \in PassedCalls -> "yes"
                        [] i = First       -> IF ok THEN "yes" ELSE "no"
                        [] OTHER           -> verdict[i]]
     /\ denied' = IF ok THEN 0 ELSE Streak + 1
     /\ IF denied' >= 3
        THEN /\ done' = TRUE /\ blocked' = TRUE /\ UNCHANGED error
             /\ TurnOver(FALSE) /\ cuts' = cuts + 1
        ELSE UNCHANGED flags /\ Onto(IF again THEN "gate" ELSE "tools")
     /\ UNCHANGED <<calls, open, torn, goalVars, packVars, toolVars, boundVars, lapses>>

GatePasses ==
  /\ node = "gate" /\ Stoppers = {}
  /\ verdict' = [i \in DOMAIN calls |-> IF i \in PassedCalls THEN "yes" ELSE verdict[i]]
  /\ denied' = Streak
  /\ Onto("tools")
  /\ UNCHANGED <<calls, open, torn, goalVars, packVars, toolVars, boundVars, flags, lapses>>

GateDenies == node = "gate" /\ Stoppers # {} /\ Rule[calls[First]] = "deny" /\ GateDecides(FALSE)

\* interrupt(): the card is checkpointed and outlives the container.
GateAsks ==
  /\ node = "gate" /\ Stoppers # {} /\ Rule[calls[First]] # "deny"
  /\ node' = "card"
  /\ UNCHANGED <<steps, cuts, talkVars, denied, goalVars, packVars, toolVars, boundVars, flags, lapses>>

\* The node runs again, in an invocation of its own, and finds the decision.
CardDecided(ok) == node = "card" /\ GateDecides(ok)

-----------------------------------------------------------------------------
(* tools_node: the calls in their order.                                   *)

AtCall == node = "tools" /\ at \in DOMAIN calls

\* What a result leaves for the end of the node; a failure is counted, and the
\* count of a call that succeeds is dropped.
Counted(ok) ==
  LET t == calls[at]
      count == IF ok THEN 0 ELSE out.fails[t] + 1
      stuck == count >= ForceStop
  IN out' = [done  |-> out.done \/ stuck \/ (ok /\ t = "ask_user"),
             force |-> out.force \/ (ok /\ t = "compact"),
             ask   |-> out.ask \/ (ok /\ t = "ask_user"),
             tasks |-> out.tasks \/ (ok /\ t = "update_tasks"),
             stuck |-> out.stuck \/ stuck,
             got   |-> out.got + 1,
             fails |-> [out.fails EXCEPT ![t] = count]]

Result(ok) ==
  /\ Counted(ok) /\ at' = at + 1
  /\ UNCHANGED <<flowVars, talkVars, denied, goalVars, packVars, fails, boundVars, flags>>

\* Denied at the gate: the model reads why, and nothing runs.
ToolDenied ==
  /\ AtCall /\ verdict[at] = "no"
  /\ Result(FALSE) /\ UNCHANGED <<ran, journal, lapses>>

\* Mutant: the journal is written and never read.
HitMutant == FALSE

Hit == journal[at] # "none"

ToolReplays ==
  /\ AtCall /\ verdict[at] # "no" /\ Hit
  /\ Result(journal[at] = "ok") /\ UNCHANGED <<ran, journal, lapses>>

RunsTool(ok) ==
  /\ AtCall /\ verdict[at] # "no" /\ ~Hit
  /\ ok \/ calls[at] \in Flaky
  /\ ran' = [ran EXCEPT ![at] = @ + 1]

ToolRuns(ok) ==
  /\ RunsTool(ok) /\ Result(ok)
  /\ journal' = IF calls[at] \in Journaled
                THEN [journal EXCEPT ![at] = IF ok THEN "ok" ELSE "bad"] ELSE journal
  /\ UNCHANGED lapses

\* The container dies before the record: its successor runs the node again.
ToolCut(ok) ==
  /\ RunsTool(ok) /\ TurnFault /\ lapses' = lapses + 1
  /\ at' = 1 /\ out' = Tally(fails)
  /\ UNCHANGED <<flowVars, talkVars, denied, goalVars, packVars, journal, fails, sent, nudges, flags>>

\* The record cannot be written, and neither can the line of the log: the node
\* raises, and with it the turn.
RecordFails(ok) ==
  /\ RunsTool(ok) /\ calls[at] \in Journaled /\ TurnFault /\ lapses' = lapses + 1
  /\ at' = 1 /\ out' = Tally(fails)
  /\ TurnOver(TRUE) /\ cuts' = cuts + 1
  /\ UNCHANGED <<talkVars, denied, goalVars, packVars, journal, fails, sent, nudges, flags>>

\* The container dies between two calls.
ToolsCrash ==
  /\ node = "tools" /\ at > 1 /\ TurnFault
  /\ at' = 1 /\ out' = Tally(fails)
  /\ UNCHANGED <<flowVars, talkVars, denied, goalVars, packVars, ran, journal, fails, sent, nudges,
                 flags, lapses>>

\* The node ends, and its update is checkpointed.
ToolsEnd ==
  /\ node = "tools" /\ at > Len(calls)
  /\ open' = (out.got < Len(calls)) /\ fails' = out.fails
  /\ done' = out.done /\ blocked' = (blocked \/ out.stuck) /\ error' = out.stuck
  /\ force' = (force \/ out.force) /\ pending' = (pending \/ out.ask) /\ tasks' = (tasks \/ out.tasks)
  /\ at' = 1 /\ out' = Tally(out.fails)
  /\ Onto("compaction")
  /\ UNCHANGED <<calls, verdict, torn, denied, goalStage, critic, needs, retries, spins, ran,
                 journal, boundVars, lapses>>

-----------------------------------------------------------------------------
(* compaction_node and _after_compaction.                                  *)

\* What is left of the retries: a pass that was forced counts, and so does one that raises.
Packed(pruned) == IF force THEN {retries + 1} ELSE {retries} \cup (IF pruned THEN {} ELSE {retries + 1})

\* A pass that prunes also repairs the pairs of calls and results; one that raises is
\* skipped.
Compacts(pruned) ==
  /\ node = "compaction"
  /\ needs' = FALSE /\ force' = FALSE /\ retries' \in Packed(pruned)
  /\ torn' = (torn /\ ~pruned)
  /\ IF done \/ error THEN TurnOver(error) /\ UNCHANGED cuts ELSE Onto("agent")
  /\ UNCHANGED <<calls, verdict, open, denied, goalVars, spins, toolVars, boundVars, flags, lapses>>

-----------------------------------------------------------------------------
(* goal_router_node: at the entry of a turn, and when the model has ended one. *)

AtEntry == steps = 0

\* A story that is clear, or one that needs questions.
Intake(vague) ==
  /\ node = "goal" /\ goalStage = "intake"
  /\ goalStage' = (IF vague THEN "clarify" ELSE "explore") /\ Onto("agent")
  /\ UNCHANGED <<talkVars, denied, critic, pending, tasks, packVars, toolVars, boundVars, flags, lapses>>

GoalEnds ==
  /\ node = "goal"
  /\ goalStage = "blocked" \/ (goalStage = "clarify" /\ ~(pending /\ AtEntry))
  /\ done' = TRUE /\ TurnOver(FALSE) /\ UNCHANGED cuts
  /\ UNCHANGED <<talkVars, denied, goalVars, packVars, toolVars, boundVars, blocked, error, lapses>>

\* The owner has answered; or the exploration is over.
GoalAdvances ==
  /\ node = "goal"
  /\ \/ goalStage = "clarify" /\ pending /\ AtEntry /\ goalStage' = "explore" /\ pending' = FALSE
        /\ UNCHANGED critic
     \/ goalStage = "explore" /\ goalStage' = "plan" /\ critic' = 0 /\ UNCHANGED pending
  /\ Onto("agent")
  /\ UNCHANGED <<talkVars, denied, tasks, packVars, toolVars, boundVars, flags, lapses>>

Critic == critic + 1

\* The exit of the plan looks for a tracker of its own, which nothing writes: the
\* critic sends the plan back, and gives up the third time.
PlanRefused ==
  /\ node = "goal" /\ goalStage = "plan"
  /\ critic' = Critic
  /\ IF critic' >= 3
     THEN /\ goalStage' = "blocked" /\ done' = TRUE /\ blocked' = TRUE
          /\ TurnOver(FALSE) /\ UNCHANGED cuts
     ELSE UNCHANGED <<goalStage, done, blocked>> /\ Onto("agent")
  /\ UNCHANGED <<talkVars, denied, pending, tasks, packVars, toolVars, boundVars, error, lapses>>

-----------------------------------------------------------------------------
\* _inject_and_run: the owner's next message.
Nudge ==
  /\ node = "idle" /\ nudges < MaxNudges /\ nudges' = nudges + 1
  /\ done' = FALSE /\ error' = FALSE /\ needs' = FALSE
  /\ torn' = (torn \/ open) /\ open' = FALSE
  /\ calls' = <<>> /\ verdict' = <<>> /\ ran' = <<>> /\ journal' = <<>>
  /\ node' = EntryNode
  /\ spins' = 0
  /\ UNCHANGED <<steps, cuts, denied, goalVars, force, retries, at, out, fails, sent, turnFaults,
                 blocked, lapses>>

Agent == Overflows \/ AgentFails \/ \E cs \in Scripts : Answers(cs)
Gate == GatePasses \/ GateDenies \/ GateAsks \/ \E ok \in BOOLEAN : CardDecided(ok)
ToolsNode ==
  \/ ToolDenied \/ ToolReplays \/ ToolsCrash \/ ToolsEnd
  \/ \E ok \in BOOLEAN : ToolRuns(ok) \/ ToolCut(ok) \/ RecordFails(ok)
Router == GoalEnds \/ GoalAdvances \/ PlanRefused \/ \E vague \in BOOLEAN : Intake(vague)

TurnNext == Agent \/ Gate \/ ToolsNode \/ Router \/ Nudge \/ \E pruned \in BOOLEAN : Compacts(pruned)

TurnSpec == TurnInit /\ [][TurnNext]_turnVars

-----------------------------------------------------------------------------
(* Properties.                                                             *)

\* No call runs that the rules deny, or that needs an owner and was not let
\* through, whichever way leads to the tools, and however often a crash runs the
\* node again.
OnlyDecidedRun ==
  \A i \in DOMAIN calls : ran[i] > 0 => Passes(calls[i]) \/ verdict[i] = "yes"

\* A call that is protected runs once, but for the crashes between an effect and
\* its record.
RunsOnce ==
  \A i \in DOMAIN calls : calls[i] \in Journaled => ran[i] <= 1 + lapses

\* The model is asked only about conversations in which every call has its result:
\* the gateway refuses the others.  What tears one is a turn that was cut between
\* the calls and the tools.
CallsAnswered == (node = "agent" => ~open) /\ (torn => cuts > 0)

\* A context that overflows again and again does not keep a turn in compaction.
OverflowOnce == spins <= 1

\* The critic lets go after three rounds, and a blocked goal stays blocked.
CriticBounded ==
  (goalStage = "plan" => critic < 3) /\ (critic >= 3 => goalStage = "blocked" /\ blocked)

\* The plan stage asks for steps tracked with update_tasks: such a plan advances.
PlanAdvances == [][node = "goal" /\ goalStage = "plan" /\ tasks => goalStage' = "implement"]_turnVars
=============================================================================
