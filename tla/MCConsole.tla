----------------------------- MODULE MCConsole -----------------------------
(* What reaches the owner and what comes back: what a console shows of a run of two
   threads and of a run of one, and the cards of a lane.  The three share no state: a
   behaviour is a behaviour of one of them, of which "part" says; the others stay as they
   began. *)
EXTENDS Console, Approvals

VARIABLES
  part,
  kept, late, ended, link, line, wire, opened, screen, sent, gaps, dark, used

threadVars == <<kept, late, ended, link, line, wire, opened, screen, sent, gaps, dark, used>>

\* One run of two threads, the first of which fills a page.
MCOneRun == [t \in Threads |-> "r1"]
MCEvents == [t \in Threads |-> IF t = 1 THEN 2 ELSE 1]

\* The same run with one thread, whose events fill more pages than one.
Thread == INSTANCE Console WITH
            Runs <- {"r1"}, Threads <- {1}, RunOf <- [t \in {1} |-> "r1"], Page <- 1,
            Events <- [t \in {1} |-> 2], MaxOpens <- 1,
            stored <- kept, unsent <- late, runStage <- ended, sub <- link, queue <- line,
            sock <- wire, gen <- opened, shown <- screen, asked <- sent, pending <- gaps,
            blind <- dark, spent <- used

\* An ordinary command, then a destructive one.
OneLane ==
  <<[lane |-> "l1", class |-> "terminal_exec", destructive |-> FALSE],
    [lane |-> "l1", class |-> "terminal_exec", destructive |-> TRUE]>>

ConsoleInit == part \in {"run", "thread", "lane"} /\ Init /\ Thread!Init /\ CardsInit

InRun(A) == part = "run" /\ A
InThread(A) == part = "thread" /\ A
InLane(A) == part = "lane" /\ A

ConsoleNext ==
  /\ UNCHANGED part
  /\ \/ InRun(Next) /\ UNCHANGED <<threadVars, cardVars>>
     \/ InThread(Thread!Next) /\ UNCHANGED <<vars, cardVars>>
     \/ InLane(CardsNext) /\ UNCHANGED <<vars, threadVars>>

\* The fairness of each while it is the one at work.
ConsoleFairness ==
  /\ WF_vars(InRun(Progress)) /\ WF_threadVars(InThread(Thread!Progress))
  /\ WF_cardVars(InLane(Runner("l1")))
  /\ WF_cardVars(InLane(Consumer)) /\ WF_cardVars(InLane(ServiceBoot))
  /\ WF_cardVars(InLane(\E d \in sending : Send(d)))

ConsoleSpec ==
  ConsoleInit /\ [][ConsoleNext]_<<part, vars, threadVars, cardVars>> /\ ConsoleFairness

\* Of a run with one thread the console asks for every page: what run.ts:76-78 promises
\* holds there.
ThreadNeverTruncated == Thread!NeverTruncated
=============================================================================
