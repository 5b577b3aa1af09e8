--------------------------- MODULE Approvals_proofs ---------------------------
(***************************************************************************)
(* The safety of the approvals, for every script of calls, number of lanes *)
(* and bound on restarts, failing calls and crashes.                       *)
(***************************************************************************)
EXTENDS Approvals, TLAPS

\* A call is a positive number, and its entry of the script a record.
LEMMA CallsType ==
  /\ Calls \subseteq Nat /\ NoCard \notin Calls
  /\ \A c \in Calls : /\ Script[c].lane \in Lanes /\ Script[c].class \in Classes
                      /\ Script[c].destructive \in BOOLEAN
<1>1. Len(Script) \in Nat /\ Calls = 1..Len(Script)
  BY ApprovalsAssumption DEF Calls
<1>2. \A c \in Calls : Script[c] \in [lane : Lanes, class : Classes, destructive : BOOLEAN]
  <2> DEFINE Record == [lane : Lanes, class : Classes, destructive : BOOLEAN]
  <2>1. Script \in Seq(Record)
    BY ApprovalsAssumption
  <2> HIDE DEF Record
  <2>2. \A c \in Calls : Script[c] \in Record
    BY <1>1, <2>1
  <2> QED
    BY <2>2 DEF Record
<1>3. \A c \in Calls : /\ Script[c].lane \in Lanes /\ Script[c].class \in Classes
                       /\ Script[c].destructive \in BOOLEAN
  <2> TAKE c \in Calls
  <2>1. Script[c] \in [lane : Lanes, class : Classes, destructive : BOOLEAN]
    BY <1>2
  <2> QED
    BY <2>1, Zenon
<1> QED
  BY <1>1, <1>3 DEF NoCard

-----------------------------------------------------------------------------
(* Types.                                                                  *)

\* A runner that waits, or is about to, waits for a card.
Waiting == \A l \in Lanes : pc[l] \in {"look", "wait", "resume"} => interrupt[l] # NoCard

LEMMA InitType == CardsInit => CardsTypeOK /\ Waiting
  BY ApprovalsAssumption DEF CardsInit, CardsTypeOK, Waiting, Words, Rows, Silent, Decision

LEMMA FaultType ==
  ASSUME CardsTypeOK, Fault \/ UNCHANGED faults
  PROVE  faults' \in 0..MaxFaults
  BY ApprovalsAssumption DEF Fault, CardsTypeOK

\* The gate and the runner.
LEMMA RunnerType ==
  ASSUME CardsTypeOK, Waiting, NEW l \in Lanes, Runner(l) \/ Container(l)
  PROVE  CardsTypeOK'
<1> USE CallsType, ApprovalsAssumption
<1>1. CASE Gate(l)
  BY <1>1, SMTT(60) DEF Gate, Stops, Open, CardsTypeOK, streamVars, channelVars
<1>2. CASE Asks(l)
  <2>1. faults' \in 0..MaxFaults
    BY <1>2, FaultType DEF Asks
  <2>2. interrupt[l] \in Calls
    BY <1>2 DEF Asks, CardsTypeOK
  <2>3. unread' \subseteq Calls
    BY <1>2, <2>2 DEF Asks, CardsTypeOK
  <2> QED
    BY <1>2, <2>1, <2>3 DEF Asks, CardsTypeOK, gateVars, channelVars
<1>3. CASE Look(l)
  <2>1. interrupt[l] \in Calls
    BY <1>3 DEF Look, Waiting, CardsTypeOK
  <2>2. durable[interrupt[l]] \in Words \cup {Silent}
    BY <2>1 DEF CardsTypeOK
  <2> QED
    BY <1>3, <2>2, SMTT(60) DEF Look, Hear, Fault, CardsTypeOK, gateVars, streamVars, channelVars
<1>4. CASE Pops(l)
  <2>1. interrupt[l] \in Calls
    BY <1>4 DEF Pops, Waiting, CardsTypeOK
  <2>2. list[interrupt[l]] \in Words \cup {Silent}
    BY <2>1 DEF CardsTypeOK
  <2> QED
    BY <1>4, <2>2 DEF Pops, Hear, CardsTypeOK, gateVars, streamVars
<1>5. CASE Resumes(l)
  <2>1. verdict' \in [Calls -> {"none", "allow", "always", "deny"}]
    <3>1. Verdict(got[l]) \in {"allow", "deny"}
      BY DEF Verdict
    <3>2. ASSUME NEW c \in Calls, Taken(l, c)
          PROVE  verdict' \in [Calls -> {"none", "allow", "always", "deny"}]
      BY <3>1, <3>2 DEF Taken, CardsTypeOK
    <3> QED
      BY <1>5, <3>2 DEF Resumes, CardsTypeOK
  <2>2. word' \in [Calls -> Calls \cup {NoCard}]
    BY <1>5 DEF Resumes, Taken, CardsTypeOK
  <2>3. always' \subseteq Classes
    BY <1>5 DEF Resumes, Stops, Open, Persist, CardsTypeOK
  <2> QED
    BY <1>5, <2>1, <2>2, <2>3 DEF Resumes, CardsTypeOK, streamVars, channelVars, Silent
<1>6. CASE GivesUp(l)
  <2>1. interrupt[l] \in Calls
    BY <1>6 DEF GivesUp, Waiting, CardsTypeOK
  <2>2. faults' \in 0..MaxFaults
    BY <1>6, FaultType DEF GivesUp
  <2>3. list' \in [Calls -> Words \cup {Silent}]
    <3>1. list' = list \/ list' = [list EXCEPT ![interrupt[l]] = Silent]
      BY <1>6 DEF GivesUp
    <3> QED
      BY <3>1 DEF CardsTypeOK
  <2> QED
    BY <1>6, <2>1, <2>2, <2>3 DEF GivesUp, Hear, CardsTypeOK, gateVars, streamVars, Words
<1>7. CASE Down(l)
  BY <1>7 DEF Down, Ends, CardsTypeOK, streamVars, channelVars
<1>8. CASE DownAfterPersist(l)
  <2>1. always' \subseteq Classes
    BY <1>8 DEF DownAfterPersist, Stops, Open, Persist, CardsTypeOK
  <2> QED
    BY <1>8, <2>1 DEF DownAfterPersist, Ends, CardsTypeOK, streamVars, channelVars
<1>9. CASE Start(l)
  BY <1>9 DEF Start, CardsTypeOK, gateVars, streamVars, channelVars
<1>10. CASE Resolve(l)
  BY <1>10 DEF Resolve, CardsTypeOK, rowRest, gateVars, runnerVars, streamVars, channelVars, Rows
<1> QED
  BY <1>1, <1>2, <1>3, <1>4, <1>5, <1>6, <1>7, <1>8, <1>9, <1>10 DEF Runner, Container

\* The backend.
LEMMA BackendType ==
  ASSUME CardsTypeOK,
         \/ Consumer \/ Deafens
         \/ \E c \in Calls : Owner(c)
         \/ \E d \in sending : Send(d) \/ SendFails(d)
         \/ ServiceCrash \/ ServiceBoot
  PROVE  CardsTypeOK'
<1> USE CallsType, ApprovalsAssumption
<1> USE DEF consumerRest, rowRest, gateVars, runnerVars, streamVars, channelVars
<1>1. CASE Reclaim
  BY <1>1 DEF Reclaim, CardsTypeOK
<1>2. CASE Read
  BY <1>2 DEF Read, CardsTypeOK
<1>3. ASSUME NEW c \in Calls, Card(c) PROVE CardsTypeOK'
  BY <1>3 DEF Card, CardsTypeOK, Rows
<1>4. ASSUME NEW c \in Calls, Ack(c) PROVE CardsTypeOK'
  BY <1>4 DEF Ack, Fault, CardsTypeOK
<1>5. CASE Deafens
  <2>1. faults' \in 0..MaxFaults
    BY <1>5, FaultType DEF Deafens
  <2>2. unread' \subseteq Calls /\ held' \subseteq Calls /\ todo' \subseteq held'
    BY <1>5 DEF Deafens, CardsTypeOK
  <2> QED
    BY <1>5, <2>1, <2>2 DEF Deafens, CardsTypeOK
<1>6. ASSUME NEW c \in Calls, Expire(c) PROVE CardsTypeOK'
  BY <1>6 DEF Expire, CardsTypeOK, Rows
<1>7. ASSUME NEW c \in Calls, NEW w \in Words, Decide(c, w) PROVE CardsTypeOK'
  BY <1>7 DEF Decide, CardsTypeOK, Rows, Decision
<1>8. ASSUME NEW d \in sending, Send(d) PROVE CardsTypeOK'
  <2>1. d.card \in Calls /\ d.word \in Words /\ [d EXCEPT !.step = "push"] \in Decision
    BY SMTT(60) DEF CardsTypeOK, Decision
  <2>2. /\ sending' \subseteq Decision
        /\ durable' \in [Calls -> Words \cup {Silent}]
        /\ list' \in [Calls -> Words \cup {Silent}]
    BY <1>8, <2>1 DEF Send, CardsTypeOK
  <2> QED
    BY <1>8, <2>2 DEF Send, CardsTypeOK
<1>9. ASSUME NEW d \in sending, SendFails(d) PROVE CardsTypeOK'
  <2>1. d.card \in Calls /\ d.word \in Words
    BY DEF CardsTypeOK, Decision
  <2>2. /\ sending' \subseteq Decision
        /\ durable' \in [Calls -> Words \cup {Silent}]
        /\ list' \in [Calls -> Words \cup {Silent}]
    BY <1>9, <2>1 DEF SendFails, CardsTypeOK
  <2> QED
    BY <1>9, <2>2 DEF SendFails, Fault, CardsTypeOK
<1>10. CASE ServiceCrash
  BY <1>10 DEF ServiceCrash, CardsTypeOK
<1>11. CASE ServiceBoot
  BY <1>11 DEF ServiceBoot, CardsTypeOK
<1> QED
  BY <1>1, <1>2, <1>3, <1>4, <1>5, <1>6, <1>7, <1>8, <1>9, <1>10, <1>11
  DEF Consumer, Owner

LEMMA StepType == CardsTypeOK /\ Waiting /\ [CardsNext]_cardVars => CardsTypeOK'
<1> SUFFICES ASSUME CardsTypeOK, Waiting, [CardsNext]_cardVars PROVE CardsTypeOK'
  OBVIOUS
<1>1. CASE UNCHANGED cardVars
  BY <1>1 DEF cardVars, gateVars, runnerVars, streamVars, channelVars, CardsTypeOK
<1>2. CASE CardsNext
  BY <1>2, RunnerType, BackendType DEF CardsNext
<1> QED
  BY <1>1, <1>2

-----------------------------------------------------------------------------
(* What a step may change.                                                 *)

\* A row that was decided stays as it is, and a runner's giving up is for good.
Kept ==
  /\ \A c \in Calls : cards[c] \in Words => cards'[c] = cards[c]
  /\ gaveup \subseteq gaveup'

LEMMA StepKept == CardsTypeOK /\ CardsNext => Kept
<1> SUFFICES ASSUME CardsTypeOK, CardsNext PROVE Kept
  OBVIOUS
<1> USE DEF Kept, consumerRest, rowRest, gateVars, runnerVars, streamVars, channelVars
<1>1. ASSUME NEW l \in Lanes, Runner(l) PROVE Kept
  BY <1>1 DEF Runner, Gate, Asks, Look, Pops, Resumes
<1>2. ASSUME NEW l \in Lanes, Container(l) PROVE Kept
  <2>1. CASE GivesUp(l)
    BY <2>1 DEF GivesUp
  <2>2. CASE Down(l) \/ DownAfterPersist(l) \/ Start(l)
    BY <2>2 DEF Down, DownAfterPersist, Ends, Start
  <2>3. CASE Resolve(l)
    BY <2>3 DEF Resolve, Words, CardsTypeOK
  <2> QED
    BY <1>2, <2>1, <2>2, <2>3 DEF Container
<1>3. CASE Consumer
  BY <1>3 DEF Consumer, Reclaim, Read, Card, Ack, Words, CardsTypeOK
<1>4. CASE Deafens
  BY <1>4 DEF Deafens
<1>5. ASSUME NEW c \in Calls, Owner(c) PROVE Kept
  BY <1>5 DEF Owner, Expire, Decide, Words, CardsTypeOK
<1>6. ASSUME NEW d \in sending, Send(d) \/ SendFails(d) PROVE Kept
  BY <1>6 DEF Send, SendFails
<1>7. CASE ServiceCrash \/ ServiceBoot
  BY <1>7 DEF ServiceCrash, ServiceBoot
<1> QED
  BY <1>1, <1>2, <1>3, <1>4, <1>5, <1>6, <1>7 DEF CardsNext

\* Only a run of the gate's node changes what it keeps.
LEMMA StepGate ==
  ASSUME CardsNext
  PROVE  \/ \E l \in Lanes : Gate(l) \/ Resumes(l) \/ DownAfterPersist(l)
         \/ UNCHANGED gateVars
<1> USE DEF consumerRest, rowRest, gateVars
<1>1. ASSUME NEW l \in Lanes, Runner(l) \/ Container(l), ~Gate(l), ~Resumes(l),
             ~DownAfterPersist(l)
      PROVE  UNCHANGED gateVars
  BY <1>1 DEF Runner, Container, Asks, Look, Pops, GivesUp, Down, Ends, Start, Resolve
<1>2. CASE Consumer \/ Deafens
  BY <1>2 DEF Consumer, Reclaim, Read, Card, Ack, Deafens
<1>3. ASSUME NEW c \in Calls, Owner(c) PROVE UNCHANGED gateVars
  BY <1>3 DEF Owner, Expire, Decide
<1>4. ASSUME NEW d \in sending, Send(d) \/ SendFails(d) PROVE UNCHANGED gateVars
  BY <1>4 DEF Send, SendFails
<1>5. CASE ServiceCrash \/ ServiceBoot
  BY <1>5 DEF ServiceCrash, ServiceBoot
<1> QED
  BY <1>1, <1>2, <1>3, <1>4, <1>5 DEF CardsNext

\* Only a runner or its container changes where the runner is.
LEMMA StepRunner ==
  ASSUME CardsNext
  PROVE  \/ \E l \in Lanes : Runner(l) \/ Container(l)
         \/ UNCHANGED <<pc, got, interrupt, gaveup>>
<1> USE DEF consumerRest, rowRest, gateVars, runnerVars
<1>1. CASE Consumer \/ Deafens
  BY <1>1 DEF Consumer, Reclaim, Read, Card, Ack, Deafens
<1>2. ASSUME NEW c \in Calls, Owner(c) PROVE UNCHANGED <<pc, got, interrupt, gaveup>>
  BY <1>2 DEF Owner, Expire, Decide
<1>3. ASSUME NEW d \in sending, Send(d) \/ SendFails(d)
      PROVE  UNCHANGED <<pc, got, interrupt, gaveup>>
  BY <1>3 DEF Send, SendFails
<1>4. CASE ServiceCrash \/ ServiceBoot
  BY <1>4 DEF ServiceCrash, ServiceBoot
<1> QED
  BY <1>1, <1>2, <1>3, <1>4 DEF CardsNext

-----------------------------------------------------------------------------
(* The inductive invariant.                                                *)

\* The decision a runner holds is the row's, or its own denial.
Heard ==
  \A l \in Lanes : pc[l] = "resume" =>
    /\ got[l] \in Words
    /\ got[l] = cards[interrupt[l]] \/ (got[l] = "deny" /\ interrupt[l] \in gaveup)

\* The call of a pending card is the lane's and undecided, and what comes before
\* it is allowed for good.
Asked ==
  \A l \in Lanes : interrupt[l] # NoCard =>
    /\ interrupt[l] \in Open(l)
    /\ \A d \in Open(l) : d < interrupt[l] => Allowed(d)

\* A card whose decision was taken was made for a call that is decided.
UsedUp ==
  \A c \in Calls : word[c] # NoCard =>
    verdict[word[c]] # "none" /\ Script[word[c]].lane = Script[c].lane

\* A class is always allowed on an owner's word.
AlwaysSaid == always # {} => \E d \in Calls : cards[d] = "always_allow"

Inv ==
  /\ CardsTypeOK /\ Waiting /\ ChannelAgrees /\ Heard
  /\ Asked /\ UsedUp /\ OneWordOneCall /\ AlwaysSaid /\ Consent

LEMMA InitInv == CardsInit => Inv
<1> SUFFICES ASSUME CardsInit PROVE Inv
  OBVIOUS
<1>1. CardsTypeOK /\ Waiting
  BY InitType
<1>2. ChannelAgrees /\ Heard /\ Asked
  BY DEF CardsInit, ChannelAgrees, Heard, Asked
<1>3. UsedUp /\ OneWordOneCall /\ AlwaysSaid /\ Consent
  BY DEF CardsInit, UsedUp, OneWordOneCall, AlwaysSaid, Consent
<1> QED
  BY <1>1, <1>2, <1>3 DEF Inv

LEMMA WaitingStep ==
  ASSUME Inv, CardsNext
  PROVE  Waiting'
<1> USE DEF Inv, Waiting, CardsTypeOK, gateVars
<1>1. ASSUME NEW l \in Lanes, Runner(l) PROVE Waiting'
  BY <1>1 DEF Runner, Gate, Asks, Look, Pops, Resumes, Hear
<1>2. ASSUME NEW l \in Lanes, Container(l) PROVE Waiting'
  BY <1>2 DEF Container, GivesUp, Down, DownAfterPersist, Ends, Start, Resolve, Hear,
              rowRest, runnerVars
<1>3. CASE UNCHANGED <<pc, got, interrupt, gaveup>>
  BY <1>3
<1> QED
  BY <1>1, <1>2, <1>3, StepRunner

LEMMA ChannelStep ==
  ASSUME Inv, CardsNext
  PROVE  ChannelAgrees'
<1> USE DEF Inv, ChannelAgrees, CardsTypeOK
<1> USE DEF consumerRest, rowRest, channelVars
<1>1. ASSUME NEW l \in Lanes, Runner(l) PROVE ChannelAgrees'
  BY <1>1 DEF Runner, Gate, Asks, Look, Pops, Resumes
<1>2. ASSUME NEW l \in Lanes, Container(l) PROVE ChannelAgrees'
  <2>1. CASE GivesUp(l)
    BY <2>1 DEF GivesUp
  <2>2. CASE Down(l) \/ DownAfterPersist(l) \/ Start(l)
    BY <2>2 DEF Down, DownAfterPersist, Ends, Start
  <2>3. CASE Resolve(l)
    BY <2>3 DEF Resolve, Words, Silent, Decision
  <2> QED
    BY <1>2, <2>1, <2>2, <2>3 DEF Container
<1>3. CASE Consumer
  BY <1>3 DEF Consumer, Reclaim, Read, Card, Ack, Words, Silent, Decision
<1>4. CASE Deafens
  BY <1>4 DEF Deafens
<1>5. ASSUME NEW c \in Calls, Expire(c) PROVE ChannelAgrees'
  BY <1>5 DEF Expire, Words, Silent, Decision
<1>6. ASSUME NEW c \in Calls, NEW w \in Words, Decide(c, w) PROVE ChannelAgrees'
  BY <1>6 DEF Decide, Words, Silent, Decision
<1>7. ASSUME NEW d \in sending, Send(d) PROVE ChannelAgrees'
  <2>1. d.card \in Calls /\ d.word = cards[d.card]
    BY DEF Decision
  <2>2. [d EXCEPT !.step = "push"].card = d.card /\ [d EXCEPT !.step = "push"].word = d.word
    BY DEF Decision
  <2>3. cards' = cards
    BY <1>7 DEF Send
  <2>4. \A c \in Calls : {durable'[c], list'[c]} \subseteq {Silent, cards[c]}
    BY <1>7, <2>1 DEF Send
  <2>5. \A e \in sending' : e \in sending \/ e = [d EXCEPT !.step = "push"]
    BY <1>7 DEF Send
  <2>6. \A c \in Calls : \A e \in sending' : e.card = c => e.word = cards[c]
    BY <2>1, <2>2, <2>5
  <2> QED
    BY <2>3, <2>4, <2>6
<1>8. ASSUME NEW d \in sending, SendFails(d) PROVE ChannelAgrees'
  <2>1. d.card \in Calls /\ d.word = cards[d.card]
    BY DEF Decision
  <2> QED
    BY <1>8, <2>1 DEF SendFails
<1>9. CASE ServiceCrash \/ ServiceBoot
  BY <1>9 DEF ServiceCrash, ServiceBoot
<1> QED
  BY <1>1, <1>2, <1>3, <1>4, <1>5, <1>6, <1>7, <1>8, <1>9 DEF CardsNext, Owner

LEMMA HeardStep ==
  ASSUME Inv, CardsNext
  PROVE  Heard'
<1> USE DEF Inv, CardsTypeOK
<1>1. Kept
  BY StepKept
<1>2. ASSUME NEW l \in Lanes, Runner(l) PROVE Heard'
  <2>1. cards' = cards /\ gaveup' = gaveup
    BY <1>2 DEF Runner, Gate, Asks, Look, Pops, Resumes, gateVars
  <2>2. ASSUME NEW w \in Words \cup {Silent}, w # Silent, Hear(l, w), interrupt' = interrupt,
               interrupt[l] \in Calls, w \in {Silent, cards[interrupt[l]]}
        PROVE  Heard'
    BY <2>1, <2>2 DEF Hear, Heard
  <2>3. CASE Look(l) \/ Pops(l)
    <3>1. interrupt[l] \in Calls /\ interrupt' = interrupt
      BY <2>3 DEF Look, Pops, Waiting, gateVars
    <3>2. CASE pc'[l] = "resume"
      <4>1. CASE Look(l)
        BY <4>1, <3>1, <3>2, <2>2 DEF Look, ChannelAgrees
      <4>2. CASE Pops(l)
        BY <4>2, <3>1, <2>2 DEF Pops, ChannelAgrees
      <4> QED
        BY <2>3, <4>1, <4>2
    <3>3. CASE pc'[l] # "resume"
      BY <2>1, <2>3, <3>1, <3>3 DEF Look, Pops, Hear, Heard
    <3> QED
      BY <3>2, <3>3
  <2>4. CASE Gate(l) \/ Asks(l) \/ Resumes(l)
    <3>1. pc' = [pc EXCEPT ![l] = pc'[l]] /\ pc'[l] # "resume"
      BY <2>4 DEF Gate, Asks, Resumes
    <3>2. \A m \in Lanes : m # l => got'[m] = got[m] /\ interrupt'[m] = interrupt[m]
      BY <2>4 DEF Gate, Asks, Resumes, gateVars
    <3> QED
      BY <2>1, <3>1, <3>2 DEF Heard
  <2> QED
    BY <1>2, <2>3, <2>4 DEF Runner
<1>3. ASSUME NEW l \in Lanes, Container(l) PROVE Heard'
  <2>1. CASE GivesUp(l)
    BY <2>1 DEF GivesUp, Hear, Heard, Words, gateVars
  <2>2. CASE Down(l) \/ DownAfterPersist(l) \/ Start(l)
    BY <2>2 DEF Down, DownAfterPersist, Ends, Start, Heard, gateVars
  <2>3. CASE Resolve(l)
    BY <1>1, <2>3 DEF Resolve, Heard, Kept, Waiting, rowRest, runnerVars, gateVars
  <2> QED
    BY <1>3, <2>1, <2>2, <2>3 DEF Container
<1>4. CASE UNCHANGED <<pc, got, interrupt, gaveup>>
  BY <1>1, <1>4 DEF Heard, Kept, Waiting
<1> QED
  BY <1>2, <1>3, <1>4, StepRunner

\* The call a resumed node stops at, and those it passes.
LEMMA TakenBy ==
  ASSUME Inv, NEW l \in Lanes, Resumes(l)
  PROVE  /\ interrupt[l] \in Open(l) /\ interrupt[l] \in Calls
         /\ verdict'[interrupt[l]] # "none"
         /\ \A c \in Calls : c \notin Open(l) => verdict'[c] = verdict[c] /\ word'[c] = word[c]
         /\ \A c \in Calls : verdict[c] # "none" => verdict'[c] # "none"
         /\ \A c \in Calls : word'[c] = word[c] \/ (word'[c] = interrupt[l] /\ c \in Open(l))
         /\ \A c, d \in Calls : word'[c] = interrupt[l] /\ word'[d] = interrupt[l] => c = d
<1> USE DEF Inv, CardsTypeOK
<1>1. interrupt[l] # NoCard /\ interrupt[l] \in Calls /\ interrupt[l] \in Open(l)
  BY DEF Resumes, Waiting, Asked
<1>2. \A c \in Calls : word[c] # interrupt[l]
  BY <1>1 DEF UsedUp, Open
<1>3. ASSUME NEW c \in Calls, Stops(l, c), Taken(l, c)
      PROVE  /\ verdict'[interrupt[l]] # "none"
             /\ \A d \in Calls : d \notin Open(l) => verdict'[d] = verdict[d] /\ word'[d] = word[d]
             /\ \A d \in Calls : verdict[d] # "none" => verdict'[d] # "none"
             /\ \A d \in Calls : word'[d] = IF d = c THEN interrupt[l] ELSE word[d]
  <2>1. c \in Open(l) /\ ~Allowed(c) /\ Verdict(got[l]) # "none"
    BY <1>3 DEF Stops, Verdict
  <2>2. ~(c < interrupt[l])
    BY <1>1, <2>1 DEF Asked
  <2>3. interrupt[l] = c \/ interrupt[l] < c
    <3>1. interrupt[l] \in Nat /\ c \in Nat
      BY <1>1, CallsType
    <3> QED
      BY <2>2, <3>1
  <2>4. \A d \in Calls : /\ d = c => verdict'[d] = Verdict(got[l])
                         /\ d # c /\ d \in Open(l) /\ d < c => verdict'[d] = "always"
                         /\ d # c /\ ~(d \in Open(l) /\ d < c) => verdict'[d] = verdict[d]
    <3>1. \A d \in Calls : verdict'[d] = CASE d = c -> Verdict(got[l])
                                        [] d \in Open(l) /\ d < c -> "always"
                                        [] OTHER -> verdict[d]
      BY <1>3 DEF Taken
    <3>2. c \in Nat /\ ~(c < c)
      BY <2>1, CallsType
    <3> QED
      BY <3>1, <3>2
  <2>5. \A d \in Calls : word'[d] = IF d = c THEN interrupt[l] ELSE word[d]
    BY <1>3 DEF Taken
  <2> QED
    BY <1>1, <2>1, <2>3, <2>4, <2>5 DEF Open
<1>4. ASSUME \A c \in Open(l) : Allowed(c), word' = word,
             verdict' = [c \in Calls |-> IF c \in Open(l) THEN "always" ELSE verdict[c]]
      PROVE  /\ verdict'[interrupt[l]] # "none"
             /\ \A d \in Calls : d \notin Open(l) => verdict'[d] = verdict[d] /\ word'[d] = word[d]
             /\ \A d \in Calls : verdict[d] # "none" => verdict'[d] # "none"
  BY <1>1, <1>4
<1>5. CASE \E c \in Calls : Stops(l, c) /\ Taken(l, c) /\ Persist(l, c)
  BY <1>1, <1>2, <1>3, <1>5 DEF Stops
<1>6. CASE /\ \A c \in Open(l) : Allowed(c)
           /\ verdict' = [c \in Calls |-> IF c \in Open(l) THEN "always" ELSE verdict[c]]
           /\ UNCHANGED <<word, always>>
  BY <1>1, <1>2, <1>4, <1>6
<1> QED
  BY <1>5, <1>6 DEF Resumes

\* The set of always-allowed classes only grows.
LEMMA AlwaysGrows == Inv /\ CardsNext => always \subseteq always'
<1> SUFFICES ASSUME Inv, CardsNext PROVE always \subseteq always'
  OBVIOUS
<1>1. ASSUME NEW l \in Lanes, Gate(l) \/ Resumes(l) \/ DownAfterPersist(l)
      PROVE  always \subseteq always'
  BY <1>1 DEF Gate, Resumes, DownAfterPersist, Persist
<1> QED
  BY <1>1, StepGate DEF gateVars

LEMMA AskedStep ==
  ASSUME Inv, CardsNext
  PROVE  Asked'
<1> USE DEF Inv, CardsTypeOK
<1>1. \A c \in Calls : Allowed(c) => Allowed(c)'
  BY AlwaysGrows DEF Allowed
<1>2. ASSUME NEW l \in Lanes, NEW m \in Lanes, m # l,
             \A c \in Calls : c \notin Open(l) => verdict'[c] = verdict[c]
      PROVE  Open(m)' = Open(m)
  BY <1>2 DEF Open
<1>3. ASSUME NEW m \in Lanes, Open(m)' = Open(m), interrupt'[m] = interrupt[m],
             interrupt'[m] # NoCard
      PROVE  /\ interrupt'[m] \in Open(m)'
             /\ \A d \in Open(m)' : d < interrupt'[m] => Allowed(d)'
  BY <1>1, <1>3 DEF Asked, Open
<1>4. ASSUME NEW l \in Lanes, Gate(l) PROVE Asked'
  <2>1. CASE /\ \E c \in Calls : Stops(l, c) /\ interrupt' = [interrupt EXCEPT ![l] = c]
             /\ UNCHANGED verdict
    <3>1. \A m \in Lanes : Open(m)' = Open(m)
      BY <2>1 DEF Open
    <3>2. /\ interrupt'[l] \in Open(l)
          /\ \A d \in Open(l) : d < interrupt'[l] => Allowed(d)
      BY <2>1 DEF Stops
    <3>3. \A m \in Lanes : m # l => interrupt'[m] = interrupt[m]
      BY <2>1
    <3>4. \A d \in Open(l) : Allowed(d) => Allowed(d)'
      BY <1>1 DEF Open
    <3> QED
      BY <1>3, <3>1, <3>2, <3>3, <3>4 DEF Asked
  <2>2. CASE /\ verdict' = [c \in Calls |-> IF c \in Open(l) THEN "always" ELSE verdict[c]]
             /\ UNCHANGED interrupt
    <3>1. \A m \in Lanes : m # l => Open(m)' = Open(m)
      BY <1>2, <2>2
    <3>2. interrupt'[l] = NoCard /\ \A m \in Lanes : interrupt'[m] = interrupt[m]
      BY <1>4, <2>2 DEF Gate
    <3> QED
      BY <1>3, <3>1, <3>2 DEF Asked
  <2> QED
    BY <1>4, <2>1, <2>2 DEF Gate
<1>5. ASSUME NEW l \in Lanes, Resumes(l) PROVE Asked'
  <2>1. \A m \in Lanes : m # l => Open(m)' = Open(m)
    BY <1>2, <1>5, TakenBy
  <2>2. interrupt'[l] = NoCard /\ \A m \in Lanes : m # l => interrupt'[m] = interrupt[m]
    BY <1>5 DEF Resumes
  <2> QED
    BY <1>3, <2>1, <2>2 DEF Asked
<1>6. CASE \/ \E l \in Lanes : DownAfterPersist(l)
           \/ UNCHANGED gateVars
  <2>1. verdict' = verdict /\ interrupt' = interrupt
    BY <1>6 DEF DownAfterPersist, Ends, gateVars
  <2>2. \A m \in Lanes : Open(m)' = Open(m)
    BY <2>1 DEF Open
  <2> QED
    BY <1>3, <2>1, <2>2 DEF Asked
<1> QED
  BY <1>4, <1>5, <1>6, StepGate

LEMMA WordStep ==
  ASSUME Inv, CardsNext
  PROVE  UsedUp' /\ OneWordOneCall'
<1> USE DEF Inv, CardsTypeOK
<1>1. ASSUME NEW l \in Lanes, Resumes(l) PROVE UsedUp' /\ OneWordOneCall'
  <2>1. UsedUp'
    <3> SUFFICES ASSUME NEW c \in Calls, word'[c] # NoCard
                 PROVE  verdict'[word'[c]] # "none" /\ Script[word'[c]].lane = Script[c].lane
      BY DEF UsedUp
    <3>1. CASE word'[c] = word[c]
      <4>1. word[c] \in Calls /\ verdict[word[c]] # "none" /\ Script[word[c]].lane = Script[c].lane
        BY <3>1 DEF UsedUp
      <4>2. verdict'[word[c]] # "none"
        BY <1>1, <4>1, TakenBy
      <4> QED
        BY <3>1, <4>1, <4>2
    <3>2. CASE word'[c] = interrupt[l] /\ c \in Open(l)
      BY <1>1, <3>2, TakenBy DEF Open
    <3> QED
      BY <1>1, <3>1, <3>2, TakenBy
  <2>2. OneWordOneCall'
    <3> SUFFICES ASSUME NEW c \in Calls, NEW d \in Calls,
                        word'[c] # NoCard, word'[c] = word'[d]
                 PROVE  c = d
      BY DEF OneWordOneCall
    <3>1. CASE word'[c] = interrupt[l]
      <4>1. \A x, y \in Calls : word'[x] = interrupt[l] /\ word'[y] = interrupt[l] => x = y
        BY <1>1, TakenBy
      <4> QED
        BY <3>1, <4>1
    <3>2. CASE word'[c] # interrupt[l]
      <4>1. word'[c] = word[c] /\ word'[d] = word[d]
        BY <1>1, <3>2, TakenBy
      <4> QED
        BY <4>1 DEF OneWordOneCall
    <3> QED
      BY <3>1, <3>2
  <2> QED
    BY <2>1, <2>2
<1>2. ASSUME NEW l \in Lanes, Gate(l) PROVE UsedUp' /\ OneWordOneCall'
  <2>1. word' = word /\ \A c \in Calls : verdict[c] # "none" => verdict'[c] # "none"
    BY <1>2 DEF Gate, Open
  <2> QED
    BY <2>1 DEF UsedUp, OneWordOneCall
<1>3. CASE \/ \E l \in Lanes : DownAfterPersist(l)
           \/ UNCHANGED gateVars
  BY <1>3 DEF DownAfterPersist, Ends, gateVars, UsedUp, OneWordOneCall
<1> QED
  BY <1>1, <1>2, <1>3, StepGate

LEMMA AlwaysStep ==
  ASSUME Inv, CardsNext
  PROVE  AlwaysSaid'
<1> USE DEF Inv, CardsTypeOK
<1>1. Kept
  BY StepKept
<1>2. (\E d \in Calls : cards[d] = "always_allow") => AlwaysSaid'
  BY <1>1 DEF Kept, Words, AlwaysSaid
<1>3. ASSUME NEW l \in Lanes, NEW c \in Calls, pc[l] = "resume", Persist(l, c),
             always' # always
      PROVE  \E d \in Calls : cards[d] = "always_allow"
  <2>1. got[l] = "always_allow" /\ interrupt[l] \in Calls
    BY <1>3 DEF Persist, Waiting
  <2> QED
    BY <1>3, <2>1 DEF Heard
<1>4. ASSUME NEW l \in Lanes, Gate(l) \/ Resumes(l) \/ DownAfterPersist(l)
      PROVE  AlwaysSaid'
  <2>1. CASE always' = always
    BY <1>2, <2>1 DEF AlwaysSaid
  <2>2. CASE always' # always
    BY <1>2, <1>3, <1>4, <2>2 DEF Gate, Resumes, DownAfterPersist
  <2> QED
    BY <2>1, <2>2
<1>5. CASE UNCHANGED gateVars
  BY <1>2, <1>5 DEF gateVars, AlwaysSaid
<1> QED
  BY <1>4, <1>5, StepGate

\* What a new verdict rests on.
LEMMA NewVerdict ==
  ASSUME Inv, CardsNext, NEW c \in Calls, verdict'[c] # verdict[c]
  PROVE  \/ verdict'[c] = "always" /\ Allowed(c)
         \/ \E l \in Lanes :
              /\ pc[l] = "resume" /\ verdict'[c] = Verdict(got[l])
              /\ word'[c] = interrupt[l] /\ Script[c].lane = l
<1> USE DEF Inv, CardsTypeOK
<1>1. ASSUME NEW l \in Lanes, Resumes(l)
      PROVE  \/ verdict'[c] = "always" /\ Allowed(c)
             \/ /\ pc[l] = "resume" /\ verdict'[c] = Verdict(got[l])
                /\ word'[c] = interrupt[l] /\ Script[c].lane = l
  <2>1. ASSUME NEW d \in Calls, Stops(l, d), Taken(l, d)
        PROVE  \/ verdict'[c] = "always" /\ Allowed(c)
               \/ /\ verdict'[c] = Verdict(got[l])
                  /\ word'[c] = interrupt[l] /\ Script[c].lane = l
    <3>1. verdict'[c] = CASE c = d -> Verdict(got[l])
                          [] c \in Open(l) /\ c < d -> "always"
                          [] OTHER -> verdict[c]
      BY <2>1 DEF Taken
    <3>2. CASE c = d
      BY <2>1, <3>1, <3>2 DEF Stops, Taken, Open
    <3>3. CASE c # d
      <4>1. c \in Open(l) /\ c < d /\ verdict'[c] = "always"
        BY <3>1, <3>3
      <4> QED
        BY <2>1, <4>1 DEF Stops
    <3> QED
      BY <3>2, <3>3
  <2>2. CASE /\ \A d \in Open(l) : Allowed(d)
             /\ verdict' = [d \in Calls |-> IF d \in Open(l) THEN "always" ELSE verdict[d]]
    BY <2>2
  <2> QED
    BY <1>1, <2>1, <2>2 DEF Resumes
<1>2. ASSUME NEW l \in Lanes, Gate(l) PROVE verdict'[c] = "always" /\ Allowed(c)
  BY <1>2 DEF Gate
<1>3. ASSUME NEW l \in Lanes, DownAfterPersist(l) PROVE FALSE
  BY <1>3 DEF DownAfterPersist, Ends
<1> QED
  BY <1>1, <1>2, <1>3, StepGate DEF gateVars

\* Words are kept with their verdicts.
LEMMA WordKept ==
  ASSUME Inv, CardsNext, NEW c \in Calls, verdict[c] # "none"
  PROVE  word'[c] = word[c]
<1>1. ASSUME NEW l \in Lanes, Resumes(l) PROVE word'[c] = word[c]
  BY <1>1, TakenBy DEF Open
<1>2. ASSUME NEW l \in Lanes, Gate(l) \/ DownAfterPersist(l) PROVE word'[c] = word[c]
  BY <1>2 DEF Gate, DownAfterPersist, Ends
<1> QED
  BY <1>1, <1>2, StepGate DEF gateVars

LEMMA ConsentStep ==
  ASSUME Inv, CardsNext
  PROVE  Consent'
<1> USE DEF Inv, CardsTypeOK
<1>1. Kept
  BY StepKept
<1> SUFFICES ASSUME NEW c \in Calls
             PROVE  /\ verdict'[c] = "allow" =>
                         /\ word'[c] # NoCard /\ cards'[word'[c]] \in {"allow", "always_allow"}
                         /\ Script[word'[c]].lane = Script[c].lane
                    /\ verdict'[c] = "always" =>
                         /\ ~Script[c].destructive
                         /\ \E d \in Calls : cards'[d] = "always_allow"
                    /\ verdict'[c] = "deny" =>
                         /\ word'[c] # NoCard
                         /\ cards'[word'[c]] = "deny" \/ word'[c] \in gaveup'
  BY DEF Consent
<1>2. (\E d \in Calls : cards[d] = "always_allow") => \E d \in Calls : cards'[d] = "always_allow"
  BY <1>1 DEF Kept, Words
<1>3. CASE verdict'[c] = verdict[c]
  <2>1. CASE verdict[c] = "none"
    BY <1>3, <2>1
  <2>2. CASE verdict[c] # "none"
    <3>1. word'[c] = word[c]
      BY <2>2, WordKept
    <3> QED
      BY <1>1, <1>2, <1>3, <3>1 DEF Consent, Kept, Words
  <2> QED
    BY <2>1, <2>2
<1>4. CASE verdict'[c] = "always" /\ Allowed(c)
  BY <1>2, <1>4 DEF Allowed, AlwaysSaid
<1>5. ASSUME NEW l \in Lanes, pc[l] = "resume", verdict'[c] = Verdict(got[l]),
             word'[c] = interrupt[l], Script[c].lane = l
      PROVE  /\ verdict'[c] \in {"allow", "deny"}
             /\ word'[c] # NoCard /\ Script[word'[c]].lane = Script[c].lane
             /\ verdict'[c] = "allow" => cards'[word'[c]] \in {"allow", "always_allow"}
             /\ verdict'[c] = "deny" => cards'[word'[c]] = "deny" \/ word'[c] \in gaveup'
  <2>1. interrupt[l] \in Calls /\ interrupt[l] # NoCard /\ Script[interrupt[l]].lane = l
    BY <1>5 DEF Waiting, Asked, Open
  <2>2. /\ got[l] \in Words
        /\ got[l] = cards[interrupt[l]] \/ (got[l] = "deny" /\ interrupt[l] \in gaveup)
    BY <1>5 DEF Heard
  <2>3. \/ got[l] = "deny" /\ verdict'[c] = "deny"
        \/ got[l] \in {"allow", "always_allow"} /\ verdict'[c] = "allow"
    BY <1>5, <2>2 DEF Verdict, Words
  <2>4. cards[interrupt[l]] \in Words => cards'[interrupt[l]] = cards[interrupt[l]]
    BY <1>1, <2>1 DEF Kept
  <2>5. interrupt[l] \in gaveup => interrupt[l] \in gaveup'
    BY <1>1 DEF Kept
  <2> QED
    BY <1>5, <2>1, <2>2, <2>3, <2>4, <2>5
<1> QED
  BY <1>3, <1>4, <1>5, NewVerdict

LEMMA StepInv == Inv /\ [CardsNext]_cardVars => Inv'
<1> SUFFICES ASSUME Inv, [CardsNext]_cardVars PROVE Inv'
  OBVIOUS
<1>1. CardsTypeOK'
  BY StepType DEF Inv
<1>2. CASE CardsNext
  BY <1>1, <1>2, WaitingStep, ChannelStep, HeardStep, AskedStep, WordStep, AlwaysStep,
     ConsentStep DEF Inv
<1>3. CASE UNCHANGED cardVars
  <2> USE <1>3 DEF cardVars, gateVars, runnerVars, streamVars, channelVars
  <2>1. Waiting' /\ ChannelAgrees' /\ Heard'
    BY DEF Inv, Waiting, ChannelAgrees, Heard
  <2>2. Asked'
    BY DEF Inv, Asked, Open, Allowed
  <2>3. UsedUp' /\ OneWordOneCall' /\ AlwaysSaid' /\ Consent'
    BY DEF Inv, UsedUp, OneWordOneCall, AlwaysSaid, Consent
  <2> QED
    BY <1>1, <2>1, <2>2, <2>3 DEF Inv
<1> QED
  BY <1>2, <1>3

-----------------------------------------------------------------------------
(* The theorems.                                                           *)

\* The invariant holds of every reachable state.
THEOREM Invariance == CardsSpec => []Inv
<1> QED
  BY InitInv, StepInv, PTL DEF CardsSpec

\* Every variable keeps its type.
THEOREM TypeCorrect == CardsSpec => []CardsTypeOK
<1>1. Inv => CardsTypeOK
  BY DEF Inv
<1> QED
  BY Invariance, <1>1, PTL

\* Nothing passes the gate but on an owner's word.
THEOREM Consented == CardsSpec => []Consent
<1>1. Inv => Consent
  BY DEF Inv
<1> QED
  BY Invariance, <1>1, PTL

\* No decision is used for two calls, however often it is read again.
THEOREM UsedOnce == CardsSpec => []OneWordOneCall
<1>1. Inv => OneWordOneCall
  BY DEF Inv
<1> QED
  BY Invariance, <1>1, PTL

\* What is sent is what the row records.
THEOREM SentIsRecorded == CardsSpec => []ChannelAgrees
<1>1. Inv => ChannelAgrees
  BY DEF Inv
<1> QED
  BY Invariance, <1>1, PTL

\* A decided row is never overwritten, by a second click, the sweep or a stop.
THEOREM RowsStay ==
  CardsSpec => [][\A c \in Calls : cards[c] \in Words => cards'[c] = cards[c]]_cardVars
<1>1. CardsTypeOK /\ [CardsNext]_cardVars
        => [\A c \in Calls : cards[c] \in Words => cards'[c] = cards[c]]_cardVars
  BY StepKept DEF Kept
<1> QED
  BY TypeCorrect, <1>1, PTL DEF CardsSpec
=============================================================================
