------------------------------ MODULE Triggers ------------------------------
(***************************************************************************)
(* Triggers-as-data (services/triggers.py): webhooks about work items are  *)
(* logged once each, matched against trigger rows, and start a run, nudge  *)
(* the one at work, or queue behind an hourly cap.  A sweep drives again   *)
(* what a broken dispatch left behind, and starts what was queued.         *)
(*                                                                         *)
(* A dispatch is one task of the event loop, which others may overtake     *)
(* where it awaits: while a run is created, and while its row is told to   *)
(* the relay.  Time passes in the windows the code compares with.          *)
(***************************************************************************)
EXTENDS Naturals, Sequences, SequencesExt

CONSTANTS
  Events,       \* (work item, revision), one webhook each, or several
  ItemOf,       \* the work item of an event
  Changes,      \* who may have changed it, and which rows its new state matches
  Triggers,     \* enabled rows, each with a mode of its own
  SystemOwned,  \* those with owner_resolution "system"
  RateCap,      \* rate_limit_per_hour
  Grace, Flap, Hour,  \* ages at which a row is stuck, no flap, and off the cap
  Sweep,        \* the task of the sweep
  NoOwner, NoEvent, NoTrigger,
  MaxFaults     \* bound: dispatches that break, and crashes

ASSUME TriggersAssumption ==
  /\ ItemOf \in [Events -> {ItemOf[e] : e \in Events}] /\ SystemOwned \subseteq Triggers
  /\ Changes \in [Events -> SUBSET [by : {"user", "stranger", "self"}, for : SUBSET Triggers]]
  /\ Grace \in Nat \ {0} /\ Flap \in Grace..Hour /\ Hour \in Nat
  /\ RateCap \in Nat /\ MaxFaults \in Nat
  /\ Sweep \notin Events /\ NoEvent \notin Events /\ NoTrigger \notin Triggers

VARIABLES
  log,      \* trigger_events, with the verdicts of each
  run,      \* the runs that were started, in their order
  proc,     \* dispatches: one per webhook, and the sweep's
  sweep,    \* the sweep's phase, and the rows it has read
  faults, late,  \* a dispatch has outlived the grace window
  crashed

vars == <<log, run, proc, sweep, faults, late, crashed>>

Tasks == Events \cup {Sweep}

\* A user, nobody we know, or our own account.
Authors == {"user", "stranger", "self"}

NoRow == [st |-> "none", by |-> "stranger", for |-> {}, age |-> 0, owner |-> NoOwner,
          run |-> 0, verdicts |-> <<>>]
AtRest == [pc |-> "idle", ev |-> NoEvent, left |-> {}, now |-> NoTrigger, run |-> 0,
           owner |-> NoOwner, got |-> <<>>]

Owners == {"user", "system", NoOwner}

Verdict == [trigger : Triggers, st : {"failed", "nudged", "queued", "started"},
            owner : Owners, run : Nat]

LogRow == [st : {"none", "received", "recovering", "matched", "queued", "ignored", "failed"},
           by : Authors, for : SUBSET Triggers, age : 0..Hour,
           owner : Owners, run : Nat, verdicts : Seq(Verdict)]

RunRow == [ev : Events, trigger : Triggers, owner : Owners, on : BOOLEAN]

Dispatch == [pc : {"idle", "judging", "nudging", "creating", "telling"},
             ev : Events \cup {NoEvent}, left : SUBSET Triggers,
             now : Triggers \cup {NoTrigger}, run : Nat,
             owner : Owners, got : Seq(Verdict)]

ReadRow == [ev : Events, trigger : Triggers \cup {NoTrigger}, owner : Owners]

TypeOK ==
  /\ log \in [Events -> LogRow] /\ run \in Seq(RunRow)
  /\ proc \in [Tasks -> Dispatch]
  /\ sweep \in [phase : {"rest", "recover", "drain"}, todo : SUBSET ReadRow]
  /\ faults \in 0..MaxFaults /\ late \in BOOLEAN /\ crashed \in BOOLEAN

Init ==
  /\ log = [e \in Events |-> NoRow] /\ run = <<>>
  /\ proc = [p \in Tasks |-> AtRest]
  /\ sweep = [phase |-> "rest", todo |-> {}]
  /\ faults = 0 /\ late = FALSE /\ crashed = FALSE

\* resolve_descriptor, fail-closed, or the system by configuration.
Owner(t, by) ==
  IF t \in SystemOwned THEN "system" ELSE IF by = "user" THEN "user" ELSE NoOwner

\* Runs that this trigger started for this work item, as the rows tell it.
RecentActive(t, e) ==
  {i \in DOMAIN run : run[i].on /\
     \E f \in Events :
       /\ ItemOf[f] = ItemOf[e] /\ log[f].st = "matched" /\ log[f].age < Flap
       /\ log[f].run = i
       /\ \E k \in DOMAIN log[f].verdicts :
            LET v == log[f].verdicts[k] IN v.trigger = t /\ v.st = "started" /\ v.run = i}

\* Started verdicts of the last hour.
Limited(t) ==
  Len(SelectSeq(
    FlattenSeq([k \in 1..Len(SetToSeq(Events)) |->
      LET row == log[SetToSeq(Events)[k]] IN IF row.age < Hour THEN row.verdicts ELSE <<>>]),
    LAMBDA v : v.trigger = t /\ v.st = "started")) >= RateCap

-----------------------------------------------------------------------------
(* Dispatch.                                                               *)

\* _dispatch up to its first trigger, for a row with this content.
Begin(p, e, row) ==
  IF row.by = "self" \/ row.for = {}
  THEN /\ log' = [log EXCEPT ![e] = [row EXCEPT !.st = "ignored"]]
       /\ UNCHANGED proc
  ELSE /\ log' = [log EXCEPT ![e] = row]
       /\ proc' = [proc EXCEPT ![p] =
                     [AtRest EXCEPT !.pc = "judging", !.ev = e, !.left = row.for]]

\* A webhook: logged first, and a duplicate ends there.
Deliver(e) ==
  /\ log[e].st = "none"
  /\ \E c \in Changes[e] :
       Begin(e, e, [NoRow EXCEPT !.st = "received", !.by = c.by, !.for = c.for])
  /\ UNCHANGED <<run, sweep, faults, late, crashed>>

\* The status of the row says what became of all its verdicts.
Outcome(got) ==
  IF \A k \in DOMAIN got : got[k].st = "queued" THEN "queued"
  ELSE IF \A k \in DOMAIN got : got[k].st = "failed" THEN "failed" ELSE "matched"

StartedRun(got) ==
  LET started == {k \in DOMAIN got : got[k].st = "started"} IN
  IF started = {} THEN 0 ELSE got[Min(started)].run

\* The first owner among the verdicts.
Resolved(got) ==
  LET owned == {k \in DOMAIN got : got[k].owner # NoOwner} IN
  IF owned = {} THEN NoOwner ELSE got[Min(owned)].owner

\* One write with all the verdicts.
Settled(row, got) ==
  [row EXCEPT !.st = Outcome(got), !.verdicts = got, !.run = StartedRun(got),
              !.owner = Resolved(got)]

\* A verdict; the last one closes the dispatch.
Gets(p, t, status, i) ==
  LET e == proc[p].ev
      got == Append(proc[p].got, [trigger |-> t, st |-> status, run |-> i,
                                  owner |-> Owner(t, log[e].by)])
  IN IF proc[p].left = {t}
     THEN log' = [log EXCEPT ![e] = Settled(log[e], got)] /\ proc' = [proc EXCEPT ![p] = AtRest]
     ELSE /\ proc' = [proc EXCEPT ![p] = [proc[p] EXCEPT !.pc = "judging", !.now = NoTrigger,
                                                        !.left = proc[p].left \ {t},
                                                        !.got = got]]
          /\ UNCHANGED log

\* One trigger: identity, guardrail 2, guardrail 3, or a run of its own.
Judge(p) ==
  /\ proc[p].pc = "judging"
  /\ \E t \in proc[p].left :
       LET e == proc[p].ev IN
       \/ Owner(t, log[e].by) = NoOwner /\ Gets(p, t, "failed", 0)
       \/ /\ Owner(t, log[e].by) # NoOwner /\ UNCHANGED log
          /\ \E i \in RecentActive(t, e) :
               proc' = [proc EXCEPT ![p].pc = "nudging", ![p].now = t, ![p].run = i]
       \/ /\ Owner(t, log[e].by) # NoOwner /\ RecentActive(t, e) = {} /\ Limited(t)
          /\ Gets(p, t, "queued", 0)
       \/ /\ Owner(t, log[e].by) # NoOwner /\ RecentActive(t, e) = {} /\ ~Limited(t)
          /\ proc' = [proc EXCEPT ![p].pc = "creating", ![p].now = t,
                                  ![p].owner = Owner(t, log[e].by)]
          /\ UNCHANGED log
  /\ UNCHANGED <<run, sweep, faults, late, crashed>>

\* create_run, up to the row.
Create(p) ==
  /\ proc[p].pc = "creating"
  /\ run' = Append(run, [ev |-> proc[p].ev, trigger |-> proc[p].now, on |-> TRUE,
                         owner |-> proc[p].owner])
  /\ proc' = [proc EXCEPT ![p].pc = "telling", ![p].run = Len(run) + 1]
  /\ UNCHANGED <<log, sweep, faults, late, crashed>>

\* The relay has been told, or the worker.
Draining(p) == p = Sweep /\ sweep.phase = "drain"

Told(p) ==
  /\ proc[p].pc \in {"telling", "nudging"} /\ ~Draining(p)
  /\ Gets(p, proc[p].now, IF proc[p].pc = "telling" THEN "started" ELSE "nudged", proc[p].run)
  /\ UNCHANGED <<run, sweep, faults, late, crashed>>

-----------------------------------------------------------------------------
(* The sweep.                                                              *)

\* What the sweep keeps of the rows it has read; the trigger is the first verdict's.
Read(rows) ==
  {[ev |-> e, owner |-> log[e].owner,
    trigger |-> IF log[e].verdicts = <<>> THEN NoTrigger ELSE log[e].verdicts[1].trigger] :
     e \in rows}

\* Mutant: a dispatch that is under way has no time to end.
RecoverStuckMutant ==
  /\ sweep.phase = "rest"
  /\ sweep' = [phase |-> "recover", todo |-> Read({e \in Events : log[e].st = "received"})]
  /\ UNCHANGED <<log, run, proc, faults, late, crashed>>

\* What is still "received" past the grace window.
RecoverStuck ==
  /\ sweep.phase = "rest"
  /\ sweep' = [phase |-> "recover",
               todo |-> Read({e \in Events : log[e].st = "received" /\ log[e].age >= Grace})]
  /\ UNCHANGED <<log, run, proc, faults, late, crashed>>

\* The conditional update, and the dispatch again.
Claim ==
  /\ sweep.phase = "recover" /\ proc[Sweep].pc = "idle"
  /\ \E row \in sweep.todo :
       /\ sweep' = [sweep EXCEPT !.todo = sweep.todo \ {row}]
       /\ IF log[row.ev].st = "received"
          THEN Begin(Sweep, row.ev, [log[row.ev] EXCEPT !.st = "recovering"])
          ELSE UNCHANGED <<log, proc>>
  /\ UNCHANGED <<run, faults, late, crashed>>

\* Mutant: the queue is that of the last hour, like the count of the cap.
DrainQueuedMutant ==
  /\ sweep.phase = "recover" /\ sweep.todo = {} /\ proc[Sweep].pc = "idle"
  /\ sweep' = [phase |-> "drain",
               todo |-> Read({e \in Events : log[e].st = "queued" /\ log[e].age < Hour})]
  /\ UNCHANGED <<log, run, proc, faults, late, crashed>>

DrainQueued ==
  /\ sweep.phase = "recover" /\ sweep.todo = {} /\ proc[Sweep].pc = "idle"
  /\ sweep' = [phase |-> "drain", todo |-> Read({e \in Events : log[e].st = "queued"})]
  /\ UNCHANGED <<log, run, proc, faults, late, crashed>>

\* Started as the owner of the row, if the cap allows by now.
DrainNext ==
  /\ sweep.phase = "drain" /\ proc[Sweep].pc = "idle"
  /\ \E row \in sweep.todo :
       /\ sweep' = [sweep EXCEPT !.todo = sweep.todo \ {row}]
       /\ IF Limited(row.trigger) THEN UNCHANGED proc
          ELSE proc' = [proc EXCEPT ![Sweep] =
                          [AtRest EXCEPT !.pc = "creating", !.ev = row.ev,
                                         !.now = row.trigger, !.owner = row.owner]]
  /\ UNCHANGED <<log, run, faults, late, crashed>>

\* Matched, and its run noted; the verdict goes on saying "queued".
Drained ==
  /\ proc[Sweep].pc = "telling" /\ Draining(Sweep)
  /\ log' = [log EXCEPT ![proc[Sweep].ev].st = "matched", ![proc[Sweep].ev].run = proc[Sweep].run]
  /\ proc' = [proc EXCEPT ![Sweep] = AtRest]
  /\ UNCHANGED <<run, sweep, faults, late, crashed>>

SweepRests ==
  /\ sweep.phase = "drain" /\ sweep.todo = {} /\ proc[Sweep].pc = "idle"
  /\ sweep' = [sweep EXCEPT !.phase = "rest"]
  /\ UNCHANGED <<log, run, proc, faults, late, crashed>>

-----------------------------------------------------------------------------
(* Time, runs and faults.                                                  *)

\* A dispatch may outlive the grace window, once.
Tick ==
  /\ \E e \in Events : log[e].st # "none" /\ log[e].age < Hour
  /\ log' = [e \in Events |->
               IF log[e].st = "none" \/ log[e].age = Hour THEN log[e]
               ELSE [log[e] EXCEPT !.age = @ + 1]]
  /\ IF \E e \in Events : proc[e].pc # "idle" /\ log[e].age < Grace
     THEN ~late /\ late' = TRUE ELSE UNCHANGED late
  /\ UNCHANGED <<run, proc, sweep, faults, crashed>>

RunEnds(i) ==
  /\ run[i].on /\ run' = [run EXCEPT ![i].on = FALSE]
  /\ UNCHANGED <<log, proc, sweep, faults, late, crashed>>

\* The webhook answers with an error, and the row stays as it was received.
DispatchFails(e) ==
  /\ proc[e].pc # "idle" /\ faults < MaxFaults /\ faults' = faults + 1
  /\ proc' = [proc EXCEPT ![e] = AtRest]
  /\ UNCHANGED <<log, run, sweep, late, crashed>>

\* Back to "received", for the next sweep.
RecoveryFails ==
  /\ proc[Sweep].pc # "idle" /\ sweep.phase = "recover"
  /\ faults < MaxFaults /\ faults' = faults + 1
  /\ log' = [log EXCEPT ![proc[Sweep].ev].st = "received"]
  /\ proc' = [proc EXCEPT ![Sweep] = AtRest]
  /\ UNCHANGED <<run, sweep, late, crashed>>

\* The round is over; the row is still queued.
DrainFails ==
  /\ proc[Sweep].pc # "idle" /\ sweep.phase = "drain"
  /\ faults < MaxFaults /\ faults' = faults + 1
  /\ proc' = [proc EXCEPT ![Sweep] = AtRest]
  /\ sweep' = [phase |-> "rest", todo |-> {}]
  /\ UNCHANGED <<log, run, late, crashed>>

\* The process dies in the middle of a recovery.  Elsewhere a crash is no more than
\* the failure of the dispatches that are under way.
Crash ==
  /\ proc[Sweep].pc # "idle" /\ sweep.phase = "recover"
  /\ faults < MaxFaults /\ faults' = faults + 1 /\ crashed' = TRUE
  /\ proc' = [p \in Tasks |-> AtRest] /\ sweep' = [phase |-> "rest", todo |-> {}]
  /\ UNCHANGED <<log, run, late>>

DispatchStep(p) == Judge(p) \/ Create(p) \/ Told(p)
Sweeps == RecoverStuck \/ Claim \/ DrainQueued \/ DrainNext \/ Drained \/ SweepRests

Next ==
  \/ \E e \in Events : Deliver(e) \/ DispatchFails(e)
  \/ \E p \in Tasks : DispatchStep(p)
  \/ Sweeps \/ Tick \/ RecoveryFails \/ DrainFails \/ Crash
  \/ \E i \in DOMAIN run : RunEnds(i)

\* The event loop runs every task, the sweep comes round every 30 s, and time passes.
Fairness == (\A p \in Tasks : WF_vars(DispatchStep(p))) /\ WF_vars(Sweeps) /\ WF_vars(Tick)

Spec == Init /\ [][Next]_vars /\ Fairness

-----------------------------------------------------------------------------
(* Properties.                                                             *)

Once ==
  \A i, j \in DOMAIN run :
    run[i].ev = run[j].ev /\ run[i].trigger = run[j].trigger => i = j

\* An event starts one run per trigger at most, through duplicates, the queue and
\* the sweep, as long as no dispatch breaks or dawdles (triggers.py:189).
OneRunEach == faults = 0 /\ ~late => Once

\* The row keeps the verdicts of a dispatch that started nothing but queued.
AllQueued(e) == log[e].verdicts # <<>> /\ Outcome(log[e].verdicts) = "queued"

\* Every event that was logged comes to rest, whatever breaks, and one that was queued
\* as a whole rests with a run of its own by the trigger of its first verdict, once the
\* cap of that one allowed (triggers.py:485-531).  A crash may leave a row "recovering",
\* where no sweep looks (triggers.py:582).
EventsSettle ==
  <>[](crashed \/ \A e \in Events :
         /\ log[e].st \in {"none", "matched", "ignored", "failed"}
         /\ AllQueued(e) => /\ log[e].run \in DOMAIN run
                            /\ run[log[e].run].ev = e
                            /\ run[log[e].run].trigger = log[e].verdicts[1].trigger)

\* What the head of the module says of guardrail 3: what overflows queues, and is
\* started as capacity returns (triggers.py:14).
QueuedStarts ==
  \A e \in Events, t \in Triggers :
    (\E k \in DOMAIN log[e].verdicts :
       log[e].verdicts[k].trigger = t /\ log[e].verdicts[k].st = "queued")
      ~> (\E i \in DOMAIN run : run[i].ev = e /\ run[i].trigger = t)

\* Driving an event again is safe: it has started no run before (triggers.py:542).
RecoverySafe == Once
=============================================================================
