----------------------------- MODULE ThreadKeys -----------------------------
(***************************************************************************)
(* What a lane owns while it runs: its container, the session directory    *)
(* that is mounted in it, its key at the gateway and its share of the      *)
(* budget; and every path that takes them away again                       *)
(* (orchestrator/thread_manager.py, the per-lane requests of               *)
(* run_manager.py, the reaper of services/heartbeats.py).  The lanes are   *)
(* those of one run.  A lane is continued by a lane that mounts its        *)
(* directory: the one that replaces it, or the one that a message launches *)
(* on a lane that has ended, or a switch of mode or model on one that runs.*)
(*                                                                         *)
(* A slot runs one coroutine of the backend; it yields where the code      *)
(* awaits.  settle_cost reads the spend and writes it a second later: no   *)
(* other settlement of the lane fits in that second, and it is one step.   *)
(***************************************************************************)
EXTENDS Naturals, FiniteSets, FiniteSetsExt

CONSTANTS
  Threads,      \* lanes, in the order of their creation
  Words,        \* the statuses a worker ends with
  Slots,        \* coroutines at a time
  NoThread,
  Default,      \* default_thread_budget_usd, in the unit of the floor (0.25)
  MaxRoots,     \* bound: lanes with a session of their own
  MaxMoves      \* bound: requests, switches, calls that raise, ends of the backend

KeysAssumption ==
  /\ NoThread \notin Threads /\ IsFiniteSet(Threads)
  /\ Threads \subseteq Nat /\ Words \subseteq {"completed", "failed", "stopped"}
  /\ Default \in Nat /\ MaxRoots \in Nat /\ MaxMoves \in Nat

VARIABLES
  row, named, key, prior, via, budget, cost,  \* rows of threads: status,
                  \* whether container_id and gateway_key are set, the lane that
                  \* is continued and how it came to that
  box, spent,                             \* the container, and what it has spent
  gw,                                     \* the key at the gateway
  op,                                     \* each slot: its coroutine
  moves,        \* how many of these
  blind,        \* lanes closed while their container had no name to wait for
  lost          \* lanes whose key or bill a fault has left to the key's TTL

rowVars == <<row, named, key, prior, via, budget, cost>>
boxVars == <<box, spent>>
vars == <<rowVars, boxVars, gw, op, moves, blind, lost>>

ActiveRows == {"queued", "running", "idle"}
ClosedRows == {"completed", "failed", "stopped", "replaced"}
Pcs == {"none", "mint", "persist", "start", "stamp", "stop", "finish", "replace",
        "settle", "delete", "clear", "spawn"}

\* A coroutine; `id`: whether it has read a container_id to wait for; `then`:
\* what it does after the cleanup of `on`.
Op == [pc : Pcs, on : Threads \cup {NoThread}, id : BOOLEAN, then : {"none", "spawn"}]
NoOp == [pc |-> "none", on |-> NoThread, id |-> FALSE, then |-> "none"]

TypeOK ==
  /\ row \in [Threads -> ActiveRows \cup ClosedRows \cup {"none", "input_required"}]
  /\ named \subseteq Threads /\ key \subseteq Threads
  /\ prior \in [Threads -> Threads \cup {NoThread}]
  /\ via \in [Threads -> {"none", "message", "switch", "replace"}]
  /\ budget \in [Threads -> Nat] /\ cost \in [Threads -> Nat]
  /\ box \in [Threads -> {"none", "up", "gone"}] /\ spent \in [Threads -> Nat]
  /\ gw \in [Threads -> {"none", "live", "gone"}]
  /\ op \in [Slots -> Op]
  /\ moves \in Nat /\ blind \subseteq Threads /\ lost \subseteq Threads

Init ==
  /\ row = [t \in Threads |-> "none"] /\ named = {} /\ key = {}
  /\ prior = [t \in Threads |-> NoThread] /\ via = [t \in Threads |-> "none"]
  /\ budget = [t \in Threads |-> 0] /\ cost = [t \in Threads |-> 0]
  /\ box = [t \in Threads |-> "none"] /\ spent = [t \in Threads |-> 0]
  /\ gw = [t \in Threads |-> "none"]
  /\ op = [s \in Slots |-> NoOp]
  /\ moves = 0 /\ blind = {} /\ lost = {}

At(s, pc) == op[s].pc = pc
Goto(s, pc) == op' = [op EXCEPT ![s].pc = pc]
Ends(s) == op' = [op EXCEPT ![s] = NoOp]
Begins(s, pc, t, next) ==
  /\ op[s] = NoOp
  /\ op' = [op EXCEPT ![s] = [pc |-> pc, on |-> t, id |-> t \in named, then |-> next]]
Stamps(t, status) == row' = [row EXCEPT ![t] = status]
Move == moves < MaxMoves /\ moves' = moves + 1
Fault(t) == Move /\ lost' = lost \cup {t}
Open(t) == row[t] \notin ClosedRows \cup {"none"}

\* wait_for_container_exit or stop_container, where there is a name to wait for.
Kills(s) ==
  box' = [box EXCEPT ![op[s].on] = IF op[s].id /\ @ = "up" THEN "gone" ELSE @]

\* A request of the owner or of a blueprint that closes a lane.
Asks(s, pc, t, next) ==
  /\ Move /\ Begins(s, pc, t, next)
  /\ blind' = IF t \in named THEN blind ELSE blind \cup {t}
  /\ UNCHANGED <<rowVars, boxVars, gw, lost>>

-----------------------------------------------------------------------------
(* spawn, after the check of the capacity.                                 *)

Row(t, p, how, usd) ==
  /\ row[t] = "none" /\ \A u \in Threads : u < t => row[u] # "none"
  /\ Stamps(t, "queued")
  /\ prior' = [prior EXCEPT ![t] = p] /\ via' = [via EXCEPT ![t] = how]
  /\ budget' = [budget EXCEPT ![t] = usd]
  /\ UNCHANGED <<named, key, cost>>

\* How a blueprint that resumes lane p comes to it: a message to a lane that has
\* ended, or a switch of mode or model, which stops nothing.
Way(p) ==
  CASE p = NoThread          -> "none"
    [] row[p] \in ClosedRows -> "message"
    [] OTHER                 -> "switch"

\* A blueprint asks for a lane, with a session of its own or with that of lane p.
Launch(s, t, p) ==
  /\ IF p = NoThread
     THEN Cardinality({u \in Threads : row[u] # "none" /\ prior[u] = NoThread}) < MaxRoots
     ELSE row[p] # "none"
  /\ Begins(s, "mint", t, "none")
  /\ Row(t, p, Way(p), Default)
  /\ IF Way(p) = "switch" THEN Move ELSE UNCHANGED moves
  /\ UNCHANGED <<boxVars, gw, blind, lost>>

Mint(s) ==
  /\ At(s, "mint") /\ Goto(s, "persist")
  /\ gw' = [gw EXCEPT ![op[s].on] = "live"]
  /\ UNCHANGED <<rowVars, boxVars, moves, blind, lost>>

Persist(s) ==
  /\ At(s, "persist") /\ Goto(s, "start")
  /\ key' = key \cup {op[s].on}
  /\ UNCHANGED <<row, named, prior, via, budget, cost, boxVars, gw, moves, blind, lost>>

\* The gateway, the copy of the images or Docker raises; the reply of a key that
\* was minted may be what is lost.
SpawnFails(s) ==
  /\ op[s].pc \in {"mint", "persist", "start"}
  /\ Fault(op[s].on)
  /\ Stamps(op[s].on, "failed")
  /\ op' = [op EXCEPT ![s].pc = "settle", ![s].then = "none"]
  /\ UNCHANGED <<named, key, prior, via, budget, cost, boxVars, gw, blind>>

StartBox(s) ==
  /\ At(s, "start") /\ Goto(s, "stamp")
  /\ box' = [box EXCEPT ![op[s].on] = "up"]
  /\ UNCHANGED <<rowVars, spent, gw, moves, blind, lost>>

\* The last write of spawn, whatever the row says by then.
Running(s) ==
  /\ At(s, "stamp") /\ Ends(s)
  /\ Stamps(op[s].on, "running")
  /\ named' = named \cup {op[s].on} /\ key' = key \cup {op[s].on}
  /\ UNCHANGED <<prior, via, budget, cost, boxVars, gw, moves, blind, lost>>

-----------------------------------------------------------------------------
(* The paths that close a lane.                                            *)

\* stop_thread, and _stop_thread_container.
Stop(s, t) == row[t] # "none" /\ Asks(s, "stop", t, "none")

StopStamp(s) ==
  /\ At(s, "stop") /\ Goto(s, "settle")
  /\ Kills(s) /\ Stamps(op[s].on, "stopped")
  /\ UNCHANGED <<named, key, prior, via, budget, cost, spent, gw, moves, blind, lost>>

\* finish_thread: a lane that has ended keeps its word.
Finish(s, t) == Open(t) /\ Asks(s, "finish", t, "none")

FinishStamp(s) ==
  /\ At(s, "finish") /\ Goto(s, "settle")
  /\ Kills(s)
  /\ IF Open(op[s].on) THEN Stamps(op[s].on, "completed") ELSE UNCHANGED row
  /\ UNCHANGED <<named, key, prior, via, budget, cost, spent, gw, moves, blind, lost>>

\* The container survives the force-stop, and the row is stamped all the same.
StampUnverified(s) ==
  /\ op[s].pc \in {"stop", "finish"} /\ op[s].id /\ box[op[s].on] = "up"
  /\ Fault(op[s].on) /\ Goto(s, "settle")
  /\ CASE At(s, "stop")  -> Stamps(op[s].on, "stopped")
       [] Open(op[s].on) -> Stamps(op[s].on, "completed")
       [] OTHER          -> UNCHANGED row
  /\ UNCHANGED <<named, key, prior, via, budget, cost, boxVars, gw, blind>>

\* kill_replace_thread.
Replace(s, t) == Open(t) /\ Asks(s, "replace", t, "spawn")

\* Mutant: the stamp does not wait for the exit of the container (H-37).
ReplaceStampMutant(s) ==
  /\ At(s, "replace") /\ Goto(s, "settle")
  /\ Stamps(op[s].on, "replaced")
  /\ UNCHANGED <<named, key, prior, via, budget, cost, boxVars, gw, moves, blind, lost>>

ReplaceStamp(s) ==
  /\ At(s, "replace") /\ Goto(s, "settle")
  /\ Kills(s) /\ Stamps(op[s].on, "replaced")
  /\ UNCHANGED <<named, key, prior, via, budget, cost, spent, gw, moves, blind, lost>>

\* The container survives the force-stop: no replacement.
ReplaceAborts(s) ==
  /\ At(s, "replace") /\ op[s].id /\ box[op[s].on] = "up"
  /\ Fault(op[s].on) /\ Ends(s)
  /\ IF Open(op[s].on) THEN Stamps(op[s].on, "failed") ELSE UNCHANGED row
  /\ UNCHANGED <<named, key, prior, via, budget, cost, boxVars, gw, blind>>

\* The reaper, or the boot watchdog: the container is gone without a word.
Reap(s, t) ==
  /\ row[t] \in ActiveRows /\ t \in named /\ box[t] = "gone"
  /\ Begins(s, "settle", t, "none")
  /\ Stamps(t, "failed")
  /\ UNCHANGED <<named, key, prior, via, budget, cost, boxVars, gw, moves, blind, lost>>

\* Mutant: the sweep takes the lanes a request has closed, and not those that
\* ended by themselves.
SweepMutant(s, t) ==
  /\ row[t] \in {"stopped", "replaced"} /\ t \in key
  /\ Begins(s, "settle", t, "none")
  /\ UNCHANGED <<rowVars, boxVars, gw, moves, blind, lost>>

\* The key-leak sweep of the reaper.
Sweep(s, t) ==
  /\ row[t] \in ClosedRows /\ t \in key
  /\ Begins(s, "settle", t, "none")
  /\ UNCHANGED <<rowVars, boxVars, gw, moves, blind, lost>>

-----------------------------------------------------------------------------
(* _cleanup_terminal: settle_cost, release_key, the secret in the row.     *)

\* What the gateway says was spent; a key that is gone there (404) keeps the
\* cost of the last settlement.
Settled(t) == [cost EXCEPT ![t] = IF gw[t] = "live" THEN spent[t] ELSE @]

Onward(s) == IF op[s].then = "spawn" THEN Goto(s, "spawn") ELSE Ends(s)

Settle(s) ==
  /\ At(s, "settle")
  /\ IF op[s].on \in key
     THEN cost' = Settled(op[s].on) /\ Goto(s, "delete")
     ELSE UNCHANGED cost /\ Onward(s)
  /\ UNCHANGED <<row, named, key, prior, via, budget, boxVars, gw, moves, blind, lost>>

SettleFails(s) ==
  /\ At(s, "settle") /\ op[s].on \in key
  /\ Fault(op[s].on) /\ Goto(s, "delete")
  /\ UNCHANGED <<rowVars, boxVars, gw, blind>>

\* Another cleanup of the lane may have cleared the row first.
Delete(s) ==
  /\ At(s, "delete") /\ Goto(s, "clear")
  /\ gw' = IF op[s].on \in key THEN [gw EXCEPT ![op[s].on] = "gone"] ELSE gw
  /\ UNCHANGED <<rowVars, boxVars, moves, blind, lost>>

DeleteFails(s) ==
  /\ At(s, "delete") /\ Fault(op[s].on) /\ Goto(s, "clear")
  /\ UNCHANGED <<rowVars, boxVars, gw, blind>>

Clear(s) ==
  /\ At(s, "clear") /\ Onward(s)
  /\ key' = key \ {op[s].on}
  /\ UNCHANGED <<row, named, prior, via, budget, cost, boxVars, gw, moves, blind, lost>>

\* Mutant: the replacement gets the budget of the lane it replaces (F5).
RespawnMutant(s, t) ==
  /\ At(s, "spawn")
  /\ Row(t, op[s].on, "replace", budget[op[s].on])
  /\ op' = [op EXCEPT ![s] = [NoOp EXCEPT !.pc = "mint", !.on = t]]
  /\ UNCHANGED <<boxVars, gw, moves, blind, lost>>

\* The end of kill_replace_thread: what is left of the budget, at least 0.25.
Respawn(s, t) ==
  /\ At(s, "spawn")
  /\ LET old == op[s].on IN
     Row(t, old, "replace", IF budget[old] > cost[old] THEN budget[old] - cost[old] ELSE 1)
  /\ op' = [op EXCEPT ![s] = [NoOp EXCEPT !.pc = "mint", !.on = t]]
  /\ UNCHANGED <<boxVars, gw, moves, blind, lost>>

\* No slot: ThreadSpawnError.
Refused(s) ==
  /\ At(s, "spawn") /\ Ends(s)
  /\ UNCHANGED <<rowVars, boxVars, gw, moves, blind, lost>>

\* _settle_run_costs, at the end of a blueprint: interim, for the live lanes too.
SettleRun ==
  /\ Move
  /\ cost' = [t \in Threads |-> IF t \in key THEN Settled(t)[t] ELSE cost[t]]
  /\ UNCHANGED <<row, named, key, prior, via, budget, boxVars, gw, op, blind, lost>>

-----------------------------------------------------------------------------
(* The workers, the gateway, the backend process.                          *)

\* A call of the model; the gateway refuses it once the key's budget is spent.
Spend(t) ==
  /\ box[t] = "up" /\ gw[t] = "live" /\ spent[t] < budget[t]
  /\ spent' = [spent EXCEPT ![t] = @ + 1]
  /\ UNCHANGED <<rowVars, box, gw, op, moves, blind, lost>>

\* The worker says how it ended, and the consumer of the heartbeats mirrors it.
WorkerEnds(t, status) ==
  /\ box[t] = "up" /\ box' = [box EXCEPT ![t] = "gone"]
  /\ IF Open(t) THEN Stamps(t, status) ELSE UNCHANGED row
  /\ UNCHANGED <<named, key, prior, via, budget, cost, spent, gw, op, moves, blind, lost>>

Vanishes(t) ==
  /\ box[t] = "up" /\ box' = [box EXCEPT ![t] = "gone"]
  /\ UNCHANGED <<rowVars, spent, gw, op, moves, blind, lost>>

\* The key's TTL.
Expires(t) ==
  /\ gw[t] = "live" /\ Fault(t)
  /\ gw' = [gw EXCEPT ![t] = "gone"]
  /\ UNCHANGED <<rowVars, boxVars, op, blind>>

\* The backend ends and comes back.  reconcile_on_boot stamps the lanes of a run
\* with no sign of life; the cleanups it runs for them are those of the sweep.
Crash(swept) ==
  /\ Move
  /\ op' = [s \in Slots |-> NoOp]
  /\ lost' = lost \cup {op[s].on : s \in {u \in Slots : At(u, "persist")}}
  /\ swept => \A t \in named : Open(t) => box[t] # "up"
  /\ row' = [t \in Threads |-> IF swept /\ Open(t) THEN "stopped" ELSE row[t]]
  /\ blind' = blind \cup {t \in Threads \ named : swept /\ Open(t)}
  /\ UNCHANGED <<named, key, prior, via, budget, cost, boxVars, gw>>

Spawning(s) ==
  \/ Mint(s) \/ Persist(s) \/ StartBox(s) \/ Running(s)
  \/ Refused(s) \/ \E t \in Threads : Respawn(s, t)
Closing(s) == StopStamp(s) \/ FinishStamp(s) \/ ReplaceStamp(s)
Cleaning(s) == Settle(s) \/ Delete(s) \/ Clear(s)
Failing(s) ==
  SpawnFails(s) \/ StampUnverified(s) \/ ReplaceAborts(s) \/ SettleFails(s) \/ DeleteFails(s)

Next ==
  \/ \E s \in Slots : Spawning(s) \/ Closing(s) \/ Cleaning(s) \/ Failing(s)
  \/ \E s \in Slots, t \in Threads :
       \/ \E p \in Threads \cup {NoThread} : Launch(s, t, p)
       \/ Stop(s, t) \/ Finish(s, t) \/ Replace(s, t) \/ Reap(s, t) \/ Sweep(s, t)
  \/ \E t \in Threads :
       \/ Spend(t) \/ Vanishes(t) \/ Expires(t)
       \/ \E status \in Words : WorkerEnds(t, status)
  \/ SettleRun
  \/ \E swept \in BOOLEAN : Crash(swept)

Spec == Init /\ [][Next]_vars

\* The loop runs every coroutine that is not blocked, and the reaper comes round.
Fairness ==
  /\ \A s \in Slots : WF_vars(Spawning(s) \/ Closing(s) \/ Cleaning(s))
  /\ \A t \in Threads : WF_vars(\E s \in Slots : Sweep(s, t))

FairSpec == Spec /\ Fairness

-----------------------------------------------------------------------------
(* Properties.                                                             *)

\* The directory mounted at /session.
Volume(t) == IF prior[t] = NoThread THEN t ELSE prior[t]

\* Two requests replaced one lane.
Twins(t, u) == t # u /\ prior[t] = prior[u] /\ via[t] = "replace" /\ via[u] = "replace"

\* A lane does not run beside the lane that continues it, whose container mounts
\* its directory (manager.py:283): who replaces a lane, and who closes one that a
\* message may then continue, waits for its container.  There are three ways
\* around it: the lane was closed while its container had no name, the container
\* of a closed lane outlived its force-stop, or a switch left the lane running.
\* Nothing keeps apart two lanes that continue the same one.
SessionExclusive ==
  \A t, u \in Threads :
    box[t] = "up" /\ box[u] = "up" /\ prior[u] = t
      => \/ t \in blind
         \/ via[u] = "message" /\ t \in lost
         \/ via[u] = "switch"

\* A key that lives at the gateway is in the row, where the sweep finds it, unless
\* its mint has just been answered or a fault has left it to its TTL.
KeyAccounted ==
  \A t \in Threads :
    gw[t] = "live" /\ t \notin key
      => t \in lost \/ \E s \in Slots : At(s, "persist") /\ op[s].on = t

\* Replacing a lane again and again does not multiply its budget: the lanes spend
\* one budget for each that was launched, and one floor for each replacement.
SpendBounded ==
  lost = {} /\ blind = {} /\ (\A t, u \in Threads : ~Twins(t, u))
    => LET Launched == {t \in Threads : row[t] # "none" /\ via[t] # "replace"}
           Replacing == {t \in Threads : via[t] = "replace"}
       IN MapThenSumSet(LAMBDA t : spent[t], Threads)
            <= Default * Cardinality(Launched) + Cardinality(Replacing)

\* The key of a closed lane is deleted and its secret leaves the row.
KeysReleased ==
  \A t \in Threads : row[t] \in ClosedRows /\ t \in key ~> t \notin key \/ Open(t)

\* What wait_for_container_exit says of the volume: no two containers write it
\* (manager.py:350).
NoDoubleMount ==
  \A t, u \in Threads :
    box[t] = "up" /\ box[u] = "up" /\ t # u => Volume(t) # Volume(u)
=============================================================================
