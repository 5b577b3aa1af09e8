------------------------------ MODULE MCParts ------------------------------
(* The parts whose properties need no fairness: the slots of the fleet, the engine's
   turn and its compaction, the flywheel, and the order of events.  Their models share
   no state: a behaviour is a behaviour of one of them, of which "part" says; the
   others stay as they began. *)
EXTENDS Capacity, EngineTurn, Compaction, EventIngest, Promotions, Knowledge, Distiller, TLC

VARIABLE part

eventVars == vars   \* of EventIngest, whose names have no prefix

\* Three spawns, two of which write one repository.
Writes == [l \in Lanes |-> IF l = "reader" THEN NoRepo ELSE "repo"]

\* One tool of each kind the graph tells apart, and a rule that denies one.
Ruling == [t \in Tools |-> IF t = "push" THEN "deny" ELSE "none"]

\* Two runs of two users on one repository.
SelfOwned == [r \in Runs |-> r]
OnOneRepo == [r \in Runs |-> "repo"]

ASSUME /\ TurnAssumption /\ CompactionAssumption
       /\ KnowledgeAssumption /\ DistillerAssumption /\ PromotionsAssumption

PartsInit ==
  /\ part \in {"slots", "turn", "pack", "knowledge", "nights", "promotions", "events"}
  /\ CapInit /\ TurnInit /\ Init /\ CompactInit /\ KnowInit /\ NightInit /\ PromInit
  /\ (part # "slots" => ~flag) /\ (part # "promotions" => ~overspent)

PartsNext ==
  /\ UNCHANGED part
  /\ \/ /\ part = "slots" /\ CapNext
        /\ UNCHANGED <<turnVars, compactVars, itemVars, nightVars, ideaVars, eventVars>>
     \/ /\ part = "turn" /\ TurnNext
        /\ UNCHANGED <<capVars, compactVars, itemVars, nightVars, ideaVars, eventVars>>
     \/ /\ part = "pack" /\ CompactNext
        /\ UNCHANGED <<capVars, turnVars, itemVars, nightVars, ideaVars, eventVars>>
     \/ /\ part = "knowledge" /\ KnowNext
        /\ UNCHANGED <<capVars, turnVars, compactVars, nightVars, ideaVars, eventVars>>
     \/ /\ part = "nights" /\ NightNext
        /\ UNCHANGED <<capVars, turnVars, compactVars, itemVars, ideaVars, eventVars>>
     \/ /\ part = "promotions" /\ PromNext
        /\ UNCHANGED <<capVars, turnVars, compactVars, itemVars, nightVars, eventVars>>
     \/ /\ part = "events" /\ Next
        /\ UNCHANGED <<capVars, turnVars, compactVars, itemVars, nightVars, ideaVars>>

partsVars ==
  <<part, capVars, turnVars, compactVars, itemVars, nightVars, ideaVars, eventVars>>

PartsSpec == PartsInit /\ [][PartsNext]_partsVars

\* Rows of knowledge, and runs with their users, are interchangeable.
Interchangeable == Permutations(Items) \cup Permutations(Runs)
=============================================================================
