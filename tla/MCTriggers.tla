----------------------------- MODULE MCTriggers -----------------------------
(* How work starts by itself, and how it gets out: two revisions of one work item,
   matched by a trigger of the mover and by one of the system, one run an hour each;
   and plans, their development and their pull requests.  The two share no state: a
   behaviour is a behaviour of one of them, of which "part" says; the other stays as
   it began. *)
EXTENDS Triggers, Delivery

VARIABLE part

MCItemOf == [e \in Events |-> "bug"]
\* The second revision may match both triggers, and then its mover is not one of us.
MCChanges ==
  [e \in Events |->
     IF e = "rev1" THEN {[by |-> "user", for |-> {"review"}], [by |-> "self", for |-> {"review"}]}
     ELSE {[by |-> "user", for |-> {"review"}], [by |-> "stranger", for |-> {"plan", "review"}]}]

ASSUME DeliveryAssumption

StartsInit ==
  /\ part \in {"triggers", "work"} /\ Init /\ WorkInit
  /\ (part # "work" => task[1].bp = "plan")

InTriggers(A) == part = "triggers" /\ A

StartsNext ==
  /\ UNCHANGED part
  /\ \/ InTriggers(Next) /\ UNCHANGED workVars
     \/ part = "work" /\ WorkNext /\ UNCHANGED vars

\* The fairness of Triggers while it is at work.
StartsFairness ==
  /\ \A p \in Tasks : WF_vars(InTriggers(DispatchStep(p)))
  /\ WF_vars(InTriggers(Sweeps)) /\ WF_vars(InTriggers(Tick))

StartsSpec == StartsInit /\ [][StartsNext]_<<part, vars, workVars>> /\ StartsFairness
=============================================================================
