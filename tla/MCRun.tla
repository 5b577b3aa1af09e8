-------------------------------- MODULE MCRun --------------------------------
(* A run under the blueprints of RunModes, and what its lanes ask the owner for.  The
   two models share no state: a behaviour is a behaviour of one of them, of which "part"
   says; the other stays as it began. *)
EXTENDS RunLifecycle, RunModes, Approvals, TLC

CONSTANT MaxTroubles   \* bound: failing calls and crashes around the cards, together

VARIABLE part

\* Requests of the owner are interchangeable.
SlotSymmetry == Permutations(Slots)

\* An ordinary command and a destructive one, asked for by two lanes at once.
TwoLanes ==
  <<[lane |-> "l1", class |-> "terminal_exec", destructive |-> FALSE],
    [lane |-> "l2", class |-> "terminal_exec", destructive |-> TRUE]>>

RunInit ==
  /\ part \in {"run", "cards"} /\ Init /\ CardsInit
  /\ part = "cards" => mode = "ask"

RunNext ==
  /\ UNCHANGED part
  /\ \/ part = "run" /\ Next /\ UNCHANGED cardVars
     \/ part = "cards" /\ CardsNext /\ faults' + outages' <= MaxTroubles /\ UNCHANGED vars

RunSpec == RunInit /\ [][RunNext]_<<part, vars, cardVars>>
=============================================================================
