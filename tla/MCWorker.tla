------------------------------ MODULE MCWorker ------------------------------
(* A run from its start to its end, a worker process, the background terminals of its
   engine, and the golden clone of a repository.  Their models share no state: a
   behaviour is a behaviour of one of them, of which "part" says; the others stay as
   they began. *)
EXTENDS RunModes, WorkerRunner, FiniteSets

VARIABLES
  part,
  stage, runMode, lane, prior, known, box, count, task, made, handle, req, up, ops, crashes,
  job, call, group, notices, faults,
  repo, archives, dir, head, book, branch, onboarding, lock, fetch, seed, pull, shreds, dropped,
  failed, died

runVars == <<stage, runMode, lane, prior, known, box, count, task, made, handle, req, up, ops,
             crashes>>
laneVars == vars   \* of WorkerRunner
jobVars == <<job, call, group, notices, faults>>
repoVars == <<repo, archives, dir, head, book, branch, onboarding, lock, fetch, seed, pull, shreds,
              dropped, failed, died>>
allVars == <<part, runVars, laneVars, jobVars, repoVars>>

\* One request of the owner, no crash.
Requests == {"request"}
Run == INSTANCE RunLifecycle WITH
         Blueprints <- AskAndDevelopment, MaxThreads <- 2, MaxOps <- 1, Slots <- Requests,
         MaxCrashes <- 0, StubbornDocker <- FALSE, row <- lane, mode <- runMode

Jobs == {"j1"}
Term == INSTANCE Terminals WITH
          Threads <- {"t1"}, OutputCeiling <- 0, MaxFaults <- 1, told <- notices

Repo == INSTANCE Golden WITH
          MaxAdds <- 2, MaxArchives <- 1, MaxFaults <- 1, MaxCrashes <- 1,
          status <- repo, job <- onboarding, faults <- failed, crashes <- died

ASSUME RunnerAssumption /\ Term!TerminalsAssumption /\ Repo!GoldenAssumption

WorkerInit ==
  /\ part \in {"run", "lane", "terminals", "repo"}
  /\ Run!Init /\ (part # "run" => runMode = "ask")
  /\ Init /\ Term!Init /\ Repo!Init

InRun(A) == part = "run" /\ A
InLane(A) == part = "lane" /\ A
InTerm(A) == part = "terminals" /\ A
InRepo(A) == part = "repo" /\ A

WorkerNext ==
  /\ UNCHANGED part
  /\ \/ InRun(Run!Next) /\ UNCHANGED <<laneVars, jobVars, repoVars>>
     \/ InLane(Next) /\ UNCHANGED <<runVars, jobVars, repoVars>>
     \/ InTerm(Term!Next) /\ UNCHANGED <<runVars, laneVars, repoVars>>
     \/ InRepo(Repo!Next) /\ UNCHANGED <<runVars, laneVars, jobVars>>

\* The fairness of each while it is the one at work.
WorkerFairness ==
  /\ \A k \in Run!Tasks : WF_runVars(InRun(Run!TaskStep(k)))
  /\ \A s \in Requests : WF_runVars(InRun(Run!RequestStep(s)))
  /\ \A t \in Run!Threads :
       /\ WF_runVars(InRun(Run!BoxStarts(t))) /\ WF_runVars(InRun(Run!TurnEnds(t)))
       /\ WF_runVars(InRun(Run!WorkerEnds(t, "completed"))) /\ WF_runVars(InRun(Run!Reap(t)))
  /\ WF_runVars(InRun(Run!Boot))
  /\ WF_laneVars(InLane(Main)) /\ WF_laneVars(InLane(Pump)) /\ WF_laneVars(InLane(Dog))
  /\ \A j \in Jobs : /\ WF_jobVars(InTerm(Term!Pump(j)))
                     /\ WF_jobVars(InTerm(Term!GoesBackground(j) \/ Term!Returns(j)))
  /\ \A j \in Repo!Jobs : WF_repoVars(InRepo(Repo!JobStep(j)))

WorkerSpec == WorkerInit /\ [][WorkerNext]_allVars /\ WorkerFairness

\* A run that does not take place stays queued.
WorkingEnds == part = "run" => Run!WorkingEnds
NamedLanesEnd == Run!NamedLanesEnd
JobsEnd == Term!JobsEnd
OnboardingSettles == Repo!OnboardingSettles
=============================================================================
