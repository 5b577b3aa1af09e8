----------------------------- MODULE Terminals -----------------------------
(***************************************************************************)
(* The background terminals of a worker (worker/engine/tools/              *)
(* background.py).  A command runs as a job: its call waits for it in the  *)
(* foreground window, then leaves it behind.  A pump reads its output and  *)
(* ends it, with a signal and then a harder one if it must, and the next   *)
(* turn of its thread is told.                                             *)
(*                                                                         *)
(* A job is a shell and what the shell left running, which may ignore a    *)
(* SIGTERM and may hold the pipe open, or close it and live on.            *)
(***************************************************************************)
EXTENDS Naturals, Sequences

CONSTANTS
  Jobs, Threads,  \* commands, and the threads of this process
  OutputCeiling,  \* OUTPUT_CEILING_BYTES, in chunks
  MaxFaults       \* bound: failures of the pump, of a spawn, and calls cut off

TerminalsAssumption == OutputCeiling \in Nat /\ MaxFaults \in Nat

VARIABLES
  job,     \* what the manager knows of a job
  call,    \* the tool call that started it
  group,   \* its processes: the shell, and others of its group
  told,    \* the threads that were told of a job's end
  faults

vars == <<job, call, group, told, faults>>

NoJob == [thread |-> "none", pump |-> "none", bytes |-> 0, code |-> "none", killed |-> "none",
          notified |-> FALSE]

Codes == {"none", "0", "1", "124", "-1", "signal"}

TypeOK ==
  /\ job \in [Jobs ->
       [thread : Threads \cup {"none"}, bytes : 0..(OutputCeiling + 1), code : Codes,
        pump : {"none", "reading", "reaping", "killing", "over"},
        killed : {"none", "ceiling", "timeout", "pump_error", "kill_failed"},
        notified : BOOLEAN]]
  /\ call \in [Jobs -> {"none", "waiting", "background", "success", "error", "cut"}]
  /\ group \in [Jobs ->
       [shell : {"none", "alive", "0", "1", "signal"}, other : BOOLEAN, pipe : BOOLEAN,
        term : BOOLEAN]]
  /\ told \in [Jobs -> Seq(Threads)] /\ faults \in 0..MaxFaults

Init ==
  /\ job = [j \in Jobs |-> NoJob] /\ call = [j \in Jobs |-> "none"]
  /\ group = [j \in Jobs |-> [shell |-> "none", other |-> FALSE, pipe |-> FALSE, term |-> FALSE]]
  /\ told = [j \in Jobs |-> <<>>] /\ faults = 0

Running(j) == job[j].thread # "none" /\ job[j].code = "none"
Fault == faults < MaxFaults /\ faults' = faults + 1

\* The group is found by its shell: when that is gone, nobody is signalled.
Signalled(j) == [group EXCEPT ![j].term = @ \/ group[j].shell = "alive"]

-----------------------------------------------------------------------------
(* run.                                                                    *)

\* A bad watch_regex is refused before anything starts.
Run(j, t, background, other) ==
  /\ job[j].thread = "none" /\ \A k \in Jobs : job[k].thread = t => call[k] # "waiting"
  /\ job' = [job EXCEPT ![j].thread = t, ![j].pump = "reading"]
  /\ call' = [call EXCEPT ![j] = IF background THEN "background" ELSE "waiting"]
  /\ group' = [group EXCEPT ![j] = [shell |-> "alive", other |-> other, pipe |-> TRUE, term |-> FALSE]]
  /\ UNCHANGED <<told, faults>>

\* No process: the call fails, and the job stays in the manager's table.
SpawnFails(j, t) ==
  /\ job[j].thread = "none" /\ Fault
  /\ job' = [job EXCEPT ![j].thread = t] /\ call' = [call EXCEPT ![j] = "error"]
  /\ UNCHANGED <<group, told>>

\* The foreground window closes on a job that runs.
GoesBackground(j) ==
  /\ call[j] = "waiting" /\ Running(j) /\ call' = [call EXCEPT ![j] = "background"]
  /\ UNCHANGED <<job, group, told, faults>>

Returns(j) ==
  /\ call[j] = "waiting" /\ ~Running(j)
  /\ call' = [call EXCEPT ![j] = IF job[j].code = "0" THEN "success" ELSE "error"]
  /\ UNCHANGED <<job, group, told, faults>>

\* The turn is stopped while the call waits; the pump is a task of its own.
CutOff(j) ==
  /\ call[j] = "waiting" /\ Fault /\ call' = [call EXCEPT ![j] = "cut"]
  /\ UNCHANGED <<job, group, told>>

-----------------------------------------------------------------------------
(* The processes. *)

Exits(j, code) ==
  /\ group[j].shell = "alive"
  /\ group' = [group EXCEPT ![j].shell = IF group[j].term THEN "signal" ELSE code,
                            ![j].pipe = group[j].other /\ @]
  /\ UNCHANGED <<job, call, told, faults>>

OtherEnds(j) ==
  /\ group[j].other
  /\ group' = [group EXCEPT ![j].other = FALSE, ![j].pipe = group[j].shell = "alive" /\ @]
  /\ UNCHANGED <<job, call, told, faults>>

\* What runs on has closed the output it was given.
ClosesPipe(j) ==
  /\ group[j].pipe /\ group' = [group EXCEPT ![j].pipe = FALSE]
  /\ UNCHANGED <<job, call, told, faults>>

-----------------------------------------------------------------------------
(* The pump.                                                               *)

Reading(j) == job[j].pump = "reading"

\* A chunk; past the ceiling the loop is left, and the job is signalled.
ReadChunk(j) ==
  /\ Reading(j) /\ group[j].pipe /\ job[j].bytes <= OutputCeiling
  /\ LET over == job[j].bytes + 1 > OutputCeiling IN
     /\ job' = [job EXCEPT ![j].bytes = @ + 1,
                           ![j].killed = IF over THEN "ceiling" ELSE @,
                           ![j].pump = IF over THEN "reaping" ELSE @]
     /\ group' = IF over THEN Signalled(j) ELSE group
  /\ UNCHANGED <<call, told, faults>>

\* The two hours are over, which the loop looks for once a second.
TimesOut(j) ==
  /\ Reading(j)
  /\ job' = [job EXCEPT ![j].killed = "timeout", ![j].pump = "reaping"]
  /\ group' = Signalled(j)
  /\ UNCHANGED <<call, told, faults>>

EndOfOutput(j) ==
  /\ Reading(j) /\ ~group[j].pipe /\ job' = [job EXCEPT ![j].pump = "reaping"]
  /\ UNCHANGED <<call, group, told, faults>>

Ended(j, code, killed) ==
  job' = [job EXCEPT ![j].pump = "over", ![j].code = code, ![j].killed = killed]

\* The shell is gone.  Who else is in its group is not asked.
Reaped(j) ==
  /\ job[j].pump \in {"reaping", "killing"} /\ group[j].shell \notin {"none", "alive"}
  /\ Ended(j, IF job[j].killed = "timeout" THEN "124" ELSE group[j].shell, job[j].killed)
  /\ UNCHANGED <<call, group, told, faults>>

Denied(j) ==
  /\ job[j].pump = "reaping" /\ group[j].shell = "alive" /\ Fault
  /\ Ended(j, IF job[j].killed = "timeout" THEN "124" ELSE "-1",
           IF job[j].killed = "none" THEN "kill_failed" ELSE job[j].killed)
  /\ UNCHANGED <<call, group, told>>

\* A bug: the shell is waited for as long as it takes.
EscalatesMutant(j) == job[j].pump = "none" /\ UNCHANGED vars

\* The grace is over: SIGKILL to the group, which ends it, unless it is denied.
Escalates(j) ==
  /\ job[j].pump = "reaping" /\ group[j].shell = "alive"
  /\ job' = [job EXCEPT ![j].pump = "killing"]
  /\ group' = [group EXCEPT ![j] = [@ EXCEPT !.shell = "signal", !.other = FALSE, !.pipe = FALSE]]
  /\ UNCHANGED <<call, told, faults>>

PumpFails(j) ==
  /\ Reading(j) /\ Fault
  /\ Ended(j, "1", IF job[j].killed = "none" THEN "pump_error" ELSE job[j].killed)
  /\ UNCHANGED <<call, group, told>>

-----------------------------------------------------------------------------
(* The end of a turn's tools: the thread hears of its jobs that ended.     *)

Due(t) == {j \in Jobs : job[j].thread = t /\ ~Running(j) /\ ~job[j].notified}

Drain(t) ==
  /\ Due(t) # {} /\ \A j \in Jobs : job[j].thread = t => call[j] # "waiting"
  /\ job' = [j \in Jobs |-> IF j \in Due(t) THEN [job[j] EXCEPT !.notified = TRUE] ELSE job[j]]
  /\ told' = [j \in Jobs |-> IF j \in Due(t) THEN Append(told[j], t) ELSE told[j]]
  /\ UNCHANGED <<call, group, faults>>

-----------------------------------------------------------------------------
Next ==
  \/ \E j \in Jobs, t \in Threads :
       SpawnFails(j, t) \/ \E background, other \in BOOLEAN : Run(j, t, background, other)
  \/ \E j \in Jobs : \/ GoesBackground(j) \/ Returns(j) \/ CutOff(j)
                     \/ OtherEnds(j) \/ ClosesPipe(j) \/ \E code \in {"0", "1"} : Exits(j, code)
                     \/ ReadChunk(j) \/ TimesOut(j) \/ EndOfOutput(j)
                     \/ Reaped(j) \/ Escalates(j) \/ Denied(j) \/ PumpFails(j)
  \/ \E t \in Threads : Drain(t)

\* The pump is scheduled and its clock runs; no process need ever end by itself.
Pump(j) == TimesOut(j) \/ EndOfOutput(j) \/ Reaped(j) \/ Escalates(j)
Fairness == \A j \in Jobs : WF_vars(Pump(j)) /\ WF_vars(GoesBackground(j) \/ Returns(j))

Spec == Init /\ [][Next]_vars /\ Fairness

-----------------------------------------------------------------------------
\* However stubborn its processes, a job that was started ends with a verdict,
\* and no call waits for ever (H-04, M-08).
JobsEnd == \A j \in Jobs : (Running(j) /\ job[j].pump # "none") ~> (~Running(j) /\ call[j] # "waiting")

\* background.py promises "killProcessTree on kill": nothing is left of a job
\* that was ended for its output or its age.
TreeGone ==
  \A j \in Jobs : job[j].pump = "over" /\ job[j].killed \in {"ceiling", "timeout"} /\ faults = 0 =>
    group[j].shell # "alive" /\ ~group[j].other
=============================================================================
