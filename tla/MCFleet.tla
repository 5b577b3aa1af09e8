------------------------------ MODULE MCFleet ------------------------------
(* The sessions and keys of lanes, and the fan-out of a parent.  Their models
   share no state: a behaviour is a behaviour of one of them, of which "part"
   says; the other stays as it began. *)
EXTENDS ThreadKeys, FanOut

VARIABLE part

ASSUME FanOutAssumption /\ KeysAssumption

FleetInit == part \in {"fan_out", "keys"} /\ FanInit /\ Init

InFan(A) == part = "fan_out" /\ A
InKeys(A) == part = "keys" /\ A

FleetNext ==
  /\ UNCHANGED part
  /\ \/ InFan(FanNext) /\ UNCHANGED vars
     \/ InKeys(Next) /\ UNCHANGED fanVars

\* The fairness of each while it is the one at work.
FleetFairness ==
  /\ WF_fanVars(InFan(Publishing))
  /\ \A s \in Lanes : /\ WF_fanVars(InFan(LocalTimeout(s)))
                      /\ WF_fanVars(InFan(Hear(s)))
                      /\ WF_fanVars(InFan(Watch(s)))
  /\ \A r \in Replicas : WF_fanVars(InFan(Bridge(r)))
  /\ \A s \in Slots : WF_vars(InKeys(Spawning(s) \/ Closing(s) \/ Cleaning(s)))
  /\ \A t \in Threads : WF_vars(InKeys(\E s \in Slots : Sweep(s, t)))

FleetSpec == FleetInit /\ [][FleetNext]_<<part, fanVars, vars>> /\ FleetFairness
=============================================================================
