------------------------------ MODULE Approvals ------------------------------
(***************************************************************************)
(* The owner's word on the tool calls of a run's lanes: the gate of the    *)
(* worker's graph, whose node runs again from its start when it is resumed *)
(* (worker engine/graph.py), the runner that asks and waits                *)
(* (engine/runner.py, engine/approvals.py), the card the backend keeps and *)
(* the decision it sends back (services/approvals.py, events/control.py),  *)
(* replaced containers and restarts of the backend.                        *)
(*                                                                         *)
(* A call gets at most one card: the gate makes one for an undecided call  *)
(* and, resumed, decides that call one way or the other.  So a card is     *)
(* named by the call it was made for.                                      *)
(***************************************************************************)
EXTENDS Naturals, Sequences

CONSTANTS
  Lanes,        \* threads and their successors on one checkpoint
  Classes,      \* tool names
  Script,       \* the calls that need approval, [lane, class, destructive]
  MaxDowns,     \* bound: ends of a worker, by a stop, a replace or a failure
  MaxFaults,    \* bound: calls to Redis or the database that raise
  MaxOutages    \* bound: crashes of the backend

Calls == 1..Len(Script)         \* in the order the model made them
NoCard == 0

ASSUME ApprovalsAssumption ==
  /\ Script \in Seq([lane : Lanes, class : Classes, destructive : BOOLEAN])
  /\ MaxDowns \in Nat /\ MaxFaults \in Nat /\ MaxOutages \in Nat

Words == {"allow", "always_allow", "deny"}
Silent == "none"
Rows == Words \cup {"absent", "open", "timeout", "stopped"}

VARIABLES
  verdict,      \* approved_calls of the checkpoint
  word,         \* the card whose decision the verdict was taken from
  interrupt,    \* each lane: the card of the interrupt in its checkpoint
  pc, got,      \* each runner: where it is, the decision it holds
  gaveup,       \* cards a runner stopped waiting for
  always,       \* the run's always-allowed tool classes
  unread, held, \* card requests on the stream: not given yet, not acknowledged
  todo,         \* requests the consumer is working on
  cards,        \* the approvals rows
  sending,      \* decisions on their way from their row to Redis
  durable,      \* decision_value keys
  list,         \* decision lists
  backend,      \* fresh: has not claimed pending entries; deaf: consumer dead
  downs, faults, outages

gateVars    == <<verdict, word, interrupt, always>>
runnerVars  == <<pc, got, gaveup>>
streamVars  == <<unread, held, todo>>
channelVars == <<sending, durable, list>>
cardVars    ==
  <<gateVars, runnerVars, streamVars, cards, channelVars, backend, downs, faults, outages>>

Decision == [card : Calls, word : Words, step : {"set", "push"}]

CardsTypeOK ==
  /\ verdict \in [Calls -> {"none", "allow", "always", "deny"}]
  /\ word \in [Calls -> Calls \cup {NoCard}]
  /\ interrupt \in [Lanes -> Calls \cup {NoCard}]
  /\ pc \in [Lanes -> {"loop", "look", "wait", "resume", "over", "down"}]
  /\ got \in [Lanes -> Words \cup {Silent}]
  /\ gaveup \subseteq Calls /\ always \subseteq Classes
  /\ unread \subseteq Calls /\ held \subseteq Calls /\ todo \subseteq held
  /\ cards \in [Calls -> Rows]
  /\ sending \subseteq Decision
  /\ durable \in [Calls -> Words \cup {Silent}]
  /\ list \in [Calls -> Words \cup {Silent}]
  /\ backend \in {"fresh", "up", "deaf", "down"}
  /\ downs \in 0..MaxDowns /\ faults \in 0..MaxFaults /\ outages \in 0..MaxOutages

CardsInit ==
  /\ verdict = [c \in Calls |-> "none"] /\ word = [c \in Calls |-> NoCard]
  /\ interrupt = [l \in Lanes |-> NoCard] /\ always = {}
  /\ pc = [l \in Lanes |-> "loop"] /\ got = [l \in Lanes |-> Silent] /\ gaveup = {}
  /\ unread = {} /\ held = {} /\ todo = {}
  /\ cards = [c \in Calls |-> "absent"]
  /\ sending = {}
  /\ durable = [c \in Calls |-> Silent] /\ list = [c \in Calls |-> Silent]
  /\ backend = "fresh"
  /\ downs = 0 /\ faults = 0 /\ outages = 0

Fault == faults < MaxFaults /\ faults' = faults + 1

-----------------------------------------------------------------------------
(* The gate node.                                                          *)

Open(l) == {c \in Calls : Script[c].lane = l /\ verdict[c] = "none"}

\* Mutant: a destructive command of an always-allowed class passes.
AllowedMutant(c) == Script[c].class \in always

\* is_always_allowed: per run and class, destructive commands never.
Allowed(c) == ~Script[c].destructive /\ Script[c].class \in always

\* The call at which the node interrupts, or takes the decision it is resumed
\* with: the first one that is neither decided nor always allowed.
Stops(l, c) ==
  /\ c \in Open(l) /\ ~Allowed(c)
  /\ \A d \in Open(l) : d < c => Allowed(d)

\* Nothing, of what the node decides before it, is kept by an interrupt.
Gate(l) ==
  /\ pc[l] = "loop" /\ interrupt[l] = NoCard
  /\ \/ /\ \E c \in Calls : Stops(l, c) /\ interrupt' = [interrupt EXCEPT ![l] = c]
        /\ UNCHANGED <<verdict, pc>>
     \/ /\ \A c \in Open(l) : Allowed(c)
        /\ verdict' = [c \in Calls |-> IF c \in Open(l) THEN "always" ELSE verdict[c]]
        /\ pc' = [pc EXCEPT ![l] = "over"]
        /\ UNCHANGED interrupt
  /\ UNCHANGED <<word, always, got, gaveup, streamVars, cards, channelVars, backend,
                 downs, faults, outages>>

Verdict(w) == IF w = "deny" THEN "deny" ELSE "allow"

\* Command(resume=decision): the node runs again from its start.
Taken(l, c) ==
  /\ verdict' = [d \in Calls |-> CASE d = c -> Verdict(got[l])
                                   [] d \in Open(l) /\ d < c -> "always"
                                   [] OTHER -> verdict[d]]
  /\ word' = [word EXCEPT ![c] = interrupt[l]]

\* persist_always_allow, which comes before the checkpoint.
Persist(l, c) ==
  always' = IF got[l] = "always_allow" /\ ~Script[c].destructive
            THEN always \cup {Script[c].class} ELSE always

\* Mutant: the interrupt stays in the checkpoint.
ResumesMutant(l) ==
  /\ pc[l] = "resume"
  /\ \/ \E c \in Calls : Stops(l, c) /\ Taken(l, c) /\ Persist(l, c)
     \/ /\ \A c \in Open(l) : Allowed(c)
        /\ verdict' = [c \in Calls |-> IF c \in Open(l) THEN "always" ELSE verdict[c]]
        /\ UNCHANGED <<word, always>>
  /\ pc' = [pc EXCEPT ![l] = "loop"] /\ got' = [got EXCEPT ![l] = Silent]
  /\ UNCHANGED <<interrupt, gaveup, streamVars, cards, channelVars, backend,
                 downs, faults, outages>>

\* When every call has come to be allowed meanwhile, no call takes the decision.
Resumes(l) ==
  /\ pc[l] = "resume"
  /\ \/ \E c \in Calls : Stops(l, c) /\ Taken(l, c) /\ Persist(l, c)
     \/ /\ \A c \in Open(l) : Allowed(c)
        /\ verdict' = [c \in Calls |-> IF c \in Open(l) THEN "always" ELSE verdict[c]]
        /\ UNCHANGED <<word, always>>
  /\ interrupt' = [interrupt EXCEPT ![l] = NoCard]
  /\ pc' = [pc EXCEPT ![l] = "loop"] /\ got' = [got EXCEPT ![l] = Silent]
  /\ UNCHANGED <<gaveup, streamVars, cards, channelVars, backend, downs, faults, outages>>

-----------------------------------------------------------------------------
(* The runner.                                                             *)

\* The pending interrupt is served before the graph is invoked, again after a
\* restart and with the same id.  A request that cannot be published is waited
\* for all the same.
Asks(l) ==
  /\ pc[l] = "loop" /\ interrupt[l] # NoCard
  /\ pc' = [pc EXCEPT ![l] = "look"]
  /\ \/ unread' = unread \cup {interrupt[l]} /\ UNCHANGED faults
     \/ Fault /\ UNCHANGED unread
  /\ UNCHANGED <<gateVars, got, gaveup, held, todo, cards, channelVars, backend, downs, outages>>

Hear(l, w) == got' = [got EXCEPT ![l] = w] /\ pc' = [pc EXCEPT ![l] = "resume"]

\* Mutant: the durable copy is not looked at.
LookMutant(l) ==
  /\ pc[l] = "look"
  /\ pc' = [pc EXCEPT ![l] = "wait"] /\ UNCHANGED <<got, faults>>
  /\ UNCHANGED <<gateVars, gaveup, streamVars, cards, channelVars, backend, downs, outages>>

\* wait_decision: the durable copy first, then the list; a GET that raises
\* counts as no copy.
Look(l) ==
  /\ pc[l] = "look"
  /\ \/ durable[interrupt[l]] # Silent /\ Hear(l, durable[interrupt[l]]) /\ UNCHANGED faults
     \/ /\ (durable[interrupt[l]] = Silent /\ UNCHANGED faults) \/ Fault
        /\ pc' = [pc EXCEPT ![l] = "wait"] /\ UNCHANGED got
  /\ UNCHANGED <<gateVars, gaveup, streamVars, cards, channelVars, backend, downs, outages>>

Pops(l) ==
  /\ pc[l] = "wait" /\ list[interrupt[l]] # Silent
  /\ Hear(l, list[interrupt[l]])
  /\ list' = [list EXCEPT ![interrupt[l]] = Silent]
  /\ UNCHANGED <<gateVars, gaveup, streamVars, cards, sending, durable, backend,
                 downs, faults, outages>>

\* The timeout, and an error of the channel, which may take the element along.
\* Either is a denial.
GivesUp(l) ==
  /\ pc[l] = "wait"
  /\ \/ list[interrupt[l]] = Silent /\ UNCHANGED <<list, faults>>
     \/ Fault /\ list' \in {list, [list EXCEPT ![interrupt[l]] = Silent]}
  /\ Hear(l, "deny")
  /\ gaveup' = gaveup \cup {interrupt[l]}
  /\ UNCHANGED <<gateVars, streamVars, cards, sending, durable, backend, downs, outages>>

Ends(l) ==
  /\ pc[l] \notin {"over", "down"} /\ downs < MaxDowns
  /\ downs' = downs + 1
  /\ pc' = [pc EXCEPT ![l] = "down"] /\ got' = [got EXCEPT ![l] = Silent]
  /\ UNCHANGED <<verdict, word, interrupt, gaveup, streamVars, cards, channelVars, backend,
                 faults, outages>>

\* The worker is killed, stopped or lost.
Down(l) == Ends(l) /\ UNCHANGED always

\* It ends between the persisting of a class and the checkpoint.
DownAfterPersist(l) ==
  /\ pc[l] = "resume"
  /\ \E c \in Calls : Stops(l, c) /\ Persist(l, c)
  /\ Ends(l)

\* A successor is spawned on the session of the ended one: kill_replace, a
\* follow-up, a resumed run.
Start(l) ==
  /\ backend # "down" /\ pc[l] = "down"
  /\ pc' = [pc EXCEPT ![l] = "loop"]
  /\ UNCHANGED <<gateVars, got, gaveup, streamVars, cards, channelVars, backend,
                 downs, faults, outages>>

-----------------------------------------------------------------------------
(* The backend: requests become rows.                                      *)

consumerRest == <<gateVars, runnerVars, channelVars, downs, outages>>

\* Mutant: pending entries are not claimed.
ReclaimMutant ==
  /\ backend = "fresh" /\ backend' = "up"
  /\ UNCHANGED <<consumerRest, streamVars, cards, faults>>

\* XAUTOCLAIM at the first sight of the stream; a claim that fails is made
\* again by the next round.
Reclaim ==
  /\ backend = "fresh" /\ backend' = "up"
  /\ todo' = held
  /\ UNCHANGED <<consumerRest, unread, held, cards, faults>>

Read ==
  /\ backend = "up" /\ todo = {} /\ unread # {}
  /\ unread' = {} /\ held' = held \cup unread /\ todo' = unread
  /\ UNCHANGED <<consumerRest, cards, backend, faults>>

\* A request that is seen again finds its row.
Card(c) ==
  /\ backend = "up" /\ c \in todo /\ cards[c] = "absent"
  /\ cards' = [cards EXCEPT ![c] = "open"]
  /\ UNCHANGED <<consumerRest, streamVars, backend, faults>>

Ack(c) ==
  /\ backend = "up" /\ c \in todo
  /\ \/ cards[c] # "absent" /\ UNCHANGED faults
     \/ cards[c] = "absent" /\ Fault   \* the insert raised: "acking to drop"
  /\ todo' = todo \ {c} /\ held' = held \ {c}
  /\ UNCHANGED <<consumerRest, unread, cards, backend>>

\* A Redis call of the loop that raises ends the consumer's task; what the read
\* was about to bring may have been given.
Deafens ==
  /\ backend \in {"fresh", "up"} /\ Fault
  /\ backend' = "deaf" /\ todo' = {}
  /\ \/ UNCHANGED <<unread, held>>
     \/ todo = {} /\ unread' = {} /\ held' = held \cup unread
     \/ \E c \in todo : cards[c] # "absent" /\ held' = held \ {c} /\ UNCHANGED unread
  /\ UNCHANGED <<consumerRest, cards>>

-----------------------------------------------------------------------------
(* The backend: rows are settled and decisions sent.                       *)

rowRest == <<gateVars, runnerVars, streamVars, backend, downs, outages>>

\* The row is locked, checked and committed in one go, the send comes after.
Decide(c, w) ==
  /\ backend # "down" /\ cards[c] = "open"
  /\ cards' = [cards EXCEPT ![c] = w]
  /\ sending' = sending \cup {[card |-> c, word |-> w, step |-> "set"]}
  /\ UNCHANGED <<rowRest, durable, list, faults>>

\* The sweep, or a click on a card whose time is over.
Expire(c) ==
  /\ backend # "down" /\ cards[c] = "open"
  /\ cards' = [cards EXCEPT ![c] = "timeout"]
  /\ UNCHANGED <<rowRest, channelVars, faults>>

Belongs(c, l) == Script[c].lane = l

\* Mutant: every row of the lane is stamped.
ResolveMutant(l) ==
  /\ backend # "down"
  /\ cards' = [c \in Calls |-> IF Belongs(c, l) /\ cards[c] # "absent" THEN "stopped" ELSE cards[c]]
  /\ UNCHANGED <<rowRest, channelVars, faults>>

\* _resolve_pending_approvals.  A stop and a replace come here when the worker
\* has ended, or survived a forced stop; a failing run stamps first.
Resolve(l) ==
  /\ backend # "down"
  /\ cards' = [c \in Calls |-> IF Belongs(c, l) /\ cards[c] = "open" THEN "stopped" ELSE cards[c]]
  /\ UNCHANGED <<rowRest, channelVars, faults>>

\* resolve_approval: SET the durable copy, then RPUSH.
Send(d) ==
  /\ \/ /\ d.step = "set"
        /\ durable' = [durable EXCEPT ![d.card] = d.word]
        /\ sending' = (sending \ {d}) \cup {[d EXCEPT !.step = "push"]}
        /\ UNCHANGED list
     \/ /\ d.step = "push"
        /\ list' = [list EXCEPT ![d.card] = d.word]
        /\ sending' = sending \ {d}
        /\ UNCHANGED durable
  /\ UNCHANGED <<rowRest, cards, faults>>

\* A call that raises ends the send, with or without its effect.
SendFails(d) ==
  /\ Fault
  /\ sending' = sending \ {d}
  /\ \/ UNCHANGED <<durable, list>>
     \/ d.step = "set" /\ durable' = [durable EXCEPT ![d.card] = d.word] /\ UNCHANGED list
     \/ d.step = "push" /\ list' = [list EXCEPT ![d.card] = d.word] /\ UNCHANGED durable
  /\ UNCHANGED <<rowRest, cards>>

ServiceCrash ==
  /\ backend # "down" /\ outages < MaxOutages
  /\ outages' = outages + 1
  /\ backend' = "down" /\ todo' = {} /\ sending' = {}
  /\ UNCHANGED <<gateVars, runnerVars, unread, held, cards, durable, list, downs, faults>>

\* main.py starts a new consumer; reconcile_on_boot registers the live run.
ServiceBoot ==
  /\ backend = "down" /\ backend' = "fresh"
  /\ UNCHANGED <<gateVars, runnerVars, streamVars, cards, channelVars, downs, faults, outages>>

-----------------------------------------------------------------------------
Runner(l) == Gate(l) \/ Asks(l) \/ Look(l) \/ Pops(l) \/ Resumes(l)

Container(l) == GivesUp(l) \/ Down(l) \/ DownAfterPersist(l) \/ Start(l) \/ Resolve(l)

Consumer == Reclaim \/ Read \/ (\E c \in Calls : Card(c) \/ Ack(c))

Owner(c) == Expire(c) \/ \E w \in Words : Decide(c, w)

CardsNext ==
  \/ \E l \in Lanes : Runner(l) \/ Container(l)
  \/ Consumer \/ Deafens
  \/ \E c \in Calls : Owner(c)
  \/ \E d \in sending : Send(d) \/ SendFails(d)
  \/ ServiceCrash \/ ServiceBoot

CardsSpec == CardsInit /\ [][CardsNext]_cardVars

\* Runners, the consumer and a send in progress run on; the backend is started
\* again.  No decision, timeout, successor or failure is owed.
CardsFairSpec ==
  /\ CardsSpec
  /\ \A l \in Lanes : WF_cardVars(Runner(l))
  /\ WF_cardVars(Consumer) /\ WF_cardVars(ServiceBoot)
  /\ WF_cardVars(\E d \in sending : Send(d))

-----------------------------------------------------------------------------
(* Properties.                                                             *)

\* A call is let through only on an owner's yes to a card of its lane, or, when
\* it is not destructive, after the owner once said always_allow; a denial is
\* the owner's, or of a runner that gave up (engine/approvals.py:9-16).
Consent ==
  \A c \in Calls :
    /\ verdict[c] = "allow" =>
         /\ word[c] # NoCard /\ cards[word[c]] \in {"allow", "always_allow"}
         /\ Script[word[c]].lane = Script[c].lane
    /\ verdict[c] = "always" =>
         ~Script[c].destructive /\ \E d \in Calls : cards[d] = "always_allow"
    /\ verdict[c] = "deny" =>
         word[c] # NoCard /\ (cards[word[c]] = "deny" \/ word[c] \in gaveup)

\* One word of the owner decides one call, although its durable copy is never
\* deleted and every restart reads it again (G2).
OneWordOneCall ==
  \A c, d \in Calls : word[c] # NoCard /\ word[c] = word[d] => c = d

\* What travels to the worker is what the row of the card records, for good: a
\* click, the sweep and a stop of the lane that meet leave one outcome (G3).
ChannelAgrees ==
  \A c \in Calls :
    /\ {durable[c], list[c]} \subseteq {Silent, cards[c]}
    /\ \A d \in sending : d.card = c => d.word = cards[c]

\* A request on the stream becomes a row the owner can decide, through crashes
\* of the backend (G7, M-34).
RequestGetsCard ==
  \A c \in Calls : c \in unread \cup held ~> cards[c] # "absent"

\* The list has the decision, or its copy was there before the runner looked.
Sent(l, c) ==
  list[c] # Silent \/ (durable[c] # Silent /\ pc[l] \in {"loop", "look"})

\* A decision that was sent ends the wait of the lane that asked, also when the
\* container that took it off the list is gone before its checkpoint (G2).
DecisionReaches ==
  \A l \in Lanes : \A c \in Calls :
    (interrupt[l] = c /\ Sent(l, c)) ~> (interrupt[l] # c \/ pc[l] = "down")

\* What runs on an owner's yes is the call of the card the owner saw
\* (engine/approvals.py:6-7: "executes with the verbatim args from phase 1").
Verbatim == \A c \in Calls : verdict[c] = "allow" => word[c] = c
=============================================================================
