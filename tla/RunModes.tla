------------------------------ MODULE RunModes ------------------------------
(* The blueprints of the code as values of RunLifecycle's Blueprints: the nodes
   after _hydrate, each with the stage it stores and what its body does.     *)

Step(stg, bdy, rsm) == [stage |-> stg, body |-> bdy, resumes |-> rsm]

\* blueprints/ask.py, one lane
Ask == <<Step("investigating", "lane", TRUE),
         Step("awaiting_user", "answer", FALSE)>>

\* blueprints/plan.py
Plan == <<Step("planning", "lane", TRUE),
          Step("planning", "optional_lane", FALSE),
          Step("awaiting_user", "sync", FALSE)>>

\* blueprints/development.py: the evaluator gets a fresh session
Development == <<Step("developing", "lane", TRUE),
                 Step("verifying", "work", FALSE),
                 Step("same", "lane", FALSE)>>

AskAndPlan == [m \in {"ask", "plan"} |-> IF m = "ask" THEN Ask ELSE Plan]
AskAndDevelopment ==
  [m \in {"ask", "development"} |-> IF m = "ask" THEN Ask ELSE Development]
=============================================================================
