------------------------- MODULE EventIngest_proofs -------------------------
(***************************************************************************)
(* Proofs about EventIngest: its type invariant, that an acknowledged      *)
(* entry is on record, that every frame names the row of its event, that   *)
(* rows and frames implement the append-only log of EventLog, and that     *)
(* without a failure the rows stand in the order of emission, but for what *)
(* the stream itself refused and took later.                               *)
(***************************************************************************)
EXTENDS EventIngest, SequenceTheorems, TLAPS

\* An event has one row at most.
OneRow ==
  \A s, u \in DOMAIN table : table[s] = table[u] /\ table[s] # Own => s = u

\* What a consumer is about to acknowledge is on record.
InHand ==
  \A c \in Consumers : pc[c] \in {"ack", "letterack"} =>
    \A i \in todo[c] : At(c, i) => Recorded(stream[i])

\* A call of publish_events that goes on has an attempt left.
TriesLeft == settled < emitted => tries < MaxTries

\* The inductive invariant.
Inv == TypeOK /\ TriesLeft /\ OneRow /\ FramesTrue /\ AckedIsRecorded /\ InHand

\* Nothing that was landed, stored or dead-lettered goes away or changes.
Grows ==
  /\ Len(stream) <= Len(stream')
  /\ \A i \in 1..Len(stream) : stream'[i] = stream[i]
  /\ \A s \in DOMAIN table : s \in DOMAIN table' /\ table'[s] = table[s]
  /\ letters \subseteq letters'

-----------------------------------------------------------------------------
(* Operators.                                                              *)

\* What an attempt may land: events of the call in progress, in their order.
LEMMA PartShape ==
  ASSUME TypeOK, NEW part \in Landings
  PROVE  /\ part \in Seq(WorkerEvents) /\ Len(part) \in Nat /\ DOMAIN part = 1..Len(part)
         /\ \A m \in 1..Len(part) : part[m] \in Batch
         /\ \A i, j \in 1..Len(part) : i < j => part[i] < part[j]
<1>1. /\ settled \in Nat /\ emitted \in Nat /\ settled <= emitted /\ emitted <= MaxEvents
      /\ emitted - settled \in Nat
  BY IngestAssumption DEF TypeOK
<1>2. Batch \subseteq WorkerEvents
  BY <1>1, IngestAssumption DEF Batch, WorkerEvents
<1>3. PICK n \in 0..(emitted - settled) :
        part \in {f \in [1..n -> Batch] : \A i, j \in 1..n : i < j => f[i] < f[j]}
  BY DEF Landings
<1>4. /\ part \in [1..n -> Batch] /\ n \in Nat
      /\ \A i, j \in 1..n : i < j => part[i] < part[j]
  BY <1>1, <1>3
<1>5. part \in [1..n -> WorkerEvents]
  BY <1>2, <1>4
<1>6. part \in Seq(WorkerEvents) /\ Len(part) = n
  BY <1>4, <1>5, IsASeq, LenProperties
<1> QED
  BY <1>4, <1>6

\* The whole batch is one of these, and leaves no hole.
LEMMA FullShape ==
  ASSUME TypeOK
  PROVE  InFull \in Landings /\ Holes(InFull) = {}
<1>1. /\ settled \in Nat /\ emitted \in Nat /\ settled <= emitted
      /\ emitted - settled \in 0..(emitted - settled)
  BY IngestAssumption DEF TypeOK
<1> DEFINE n == emitted - settled
<1>2. \A i \in 1..n : settled + i \in Batch
  BY <1>1 DEF Batch
<1>3. InFull \in [1..n -> Batch] /\ \A i \in 1..n : InFull[i] = settled + i
  BY <1>2 DEF InFull
<1>4. \A i, j \in 1..n : i < j => InFull[i] < InFull[j]
  BY <1>1, <1>3
<1>5. InFull \in {f \in [1..n -> Batch] : \A i, j \in 1..n : i < j => f[i] < f[j]}
  BY <1>3, <1>4
<1>6. InFull \in Landings
  BY <1>1, <1>5 DEF Landings
<1>7. \A e \in Batch : e - settled \in 1..n /\ InFull[e - settled] = e
  BY <1>1, <1>3 DEF Batch
<1>8. DOMAIN InFull = 1..n
  BY DEF InFull
<1>9. Holes(InFull) = {}
  BY <1>7, <1>8 DEF Holes
<1> QED
  BY <1>6, <1>9

\* An attempt of the forwarder appends its part to the stream.
LEMMA PartAppends ==
  ASSUME TypeOK, NEW part \in Landings
  PROVE  /\ stream \o part \in Seq(WorkerEvents)
         /\ Len(stream \o part) = Len(stream) + Len(part)
         /\ \A i \in 1..Len(stream) : (stream \o part)[i] = stream[i]
         /\ \A k \in 1..Len(part) : (stream \o part)[Len(stream) + k] = part[k]
<1>1. /\ part \in Seq(WorkerEvents) /\ Len(part) \in Nat
  BY PartShape
<1>2. stream \in Seq(WorkerEvents) /\ Len(stream) \in Nat
  BY LenProperties DEF TypeOK
<1>3. /\ stream \o part \in Seq(WorkerEvents)
      /\ Len(stream \o part) = Len(stream) + Len(part)
      /\ \A i \in 1..(Len(stream) + Len(part)) :
           (stream \o part)[i] = IF i <= Len(stream) THEN stream[i] ELSE part[i - Len(stream)]
  BY <1>1, <1>2, ConcatProperties
<1>4. ASSUME NEW k \in 1..Len(part)
      PROVE  (stream \o part)[Len(stream) + k] = part[k]
  <2>1. /\ Len(stream) + k \in 1..(Len(stream) + Len(part))
        /\ ~(Len(stream) + k <= Len(stream)) /\ (Len(stream) + k) - Len(stream) = k
    BY <1>1, <1>2
  <2> QED
    BY <1>3, <2>1
<1>5. \A i \in 1..Len(stream) : (stream \o part)[i] = stream[i]
  BY <1>1, <1>2, <1>3
<1> QED
  BY <1>3, <1>4, <1>5

\* An insert takes the first free seq, and keeps every other row.
LEMMA InsertAppends ==
  ASSUME TypeOK, NEW e \in WorkerEvents, Insert(e)
  PROVE  /\ next' = next + 1 /\ next' \in Nat
         /\ table' \in [0..(next' - 1) -> WorkerEvents \cup {Own}]
         /\ table'[next] = e /\ next \notin DOMAIN table
         /\ \A s \in DOMAIN table : s \in DOMAIN table' /\ table'[s] = table[s]
<1>1. next \in Nat /\ DOMAIN table = 0..(next - 1)
  BY DEF TypeOK
<1>2. DOMAIN table \cup {next} = 0..next
  BY <1>1
<1>3. table' = [s \in 0..next |-> IF s = next THEN e ELSE table[s]] /\ next' = next + 1
  BY <1>2 DEF Insert
<1>4. next' - 1 = next
  BY <1>1, <1>3
<1>5. \A s \in 0..next : s # next => table[s] \in WorkerEvents \cup {Own}
  BY <1>1 DEF TypeOK
<1>6. table' \in [0..next -> WorkerEvents \cup {Own}]
  BY <1>3, <1>5
<1> QED
  BY <1>1, <1>3, <1>4, <1>6

\* The backend's own rows do the same.
LEMMA OwnAppends ==
  ASSUME TypeOK, NEW n \in {1, 2}, OwnRows(n)
  PROVE  /\ next' = next + n /\ next' \in Nat
         /\ table' \in [0..(next' - 1) -> WorkerEvents \cup {Own}]
         /\ \A s \in DOMAIN table' : s >= next => table'[s] = Own
         /\ \A s \in DOMAIN table : s \in DOMAIN table' /\ table'[s] = table[s]
<1>1. next \in Nat /\ DOMAIN table = 0..(next - 1)
  BY DEF TypeOK
<1>2. DOMAIN table \cup next..(next + n - 1) = 0..(next + n - 1)
  BY <1>1
<1>3. /\ table' = [s \in 0..(next + n - 1) |-> IF s >= next THEN Own ELSE table[s]]
      /\ next' = next + n
  BY <1>2 DEF OwnRows
<1>4. \A s \in 0..(next + n - 1) : s < next => table[s] \in WorkerEvents \cup {Own}
  BY <1>1 DEF TypeOK
<1>5. table' \in [0..(next + n - 1) -> WorkerEvents \cup {Own}]
  BY <1>1, <1>3, <1>4
<1> QED
  BY <1>1, <1>3, <1>5

\* A delivered entry is an event of the worker.
LEMMA EntryIsEvent ==
  ASSUME TypeOK, NEW c \in Consumers, NEW i \in todo[c]
  PROVE  i \in 1..delivered /\ i \in 1..Len(stream) /\ stream[i] \in WorkerEvents
<1>1. i \in 1..delivered /\ delivered \in 0..Len(stream) /\ stream \in Seq(WorkerEvents)
  BY DEF TypeOK
<1>2. Len(stream) \in Nat /\ \A j \in 1..Len(stream) : stream[j] \in WorkerEvents
  BY <1>1, LenProperties, ElementOfSeq
<1> QED
  BY <1>1, <1>2

-----------------------------------------------------------------------------
(* Types.                                                                  *)

LEMMA GotoType ==
  ASSUME TypeOK, NEW c \in Consumers, NEW to \in Pcs, Goto(c, to), delivered' = delivered
  PROVE  /\ pc' \in [Consumers -> Pcs]
         /\ todo' \in [Consumers -> SUBSET (1..delivered')]
  BY DEF TypeOK, Goto

LEMMA LeaveType ==
  ASSUME TypeOK, NEW c \in Consumers, NEW i \in todo[c], Leave(c, i),
         delivered' = delivered
  PROVE  /\ pc' \in [Consumers -> Pcs]
         /\ todo' \in [Consumers -> SUBSET (1..delivered')]
<1>1. todo[c] \ {i} \in SUBSET (1..delivered)
  BY DEF TypeOK
<1> QED
  BY <1>1 DEF TypeOK, Leave, Pcs

LEMMA FaultType ==
  ASSUME TypeOK, Fault
  PROVE  faults' \in 0..MaxFaults
BY IngestAssumption DEF TypeOK, Fault

LEMMA WorkerType ==
  ASSUME TypeOK, TriesLeft, Worker
  PROVE  TypeOK' /\ TriesLeft' /\ Grows
<1> USE IngestAssumption
<1>0. stream \in Seq(WorkerEvents) /\ Len(stream) \in Nat
  BY LenProperties DEF TypeOK
<1>1. CASE Emit
  BY <1>0, <1>1 DEF Emit, TypeOK, TriesLeft, Grows, workerVars, groupVars, storeVars,
                    runVars, bounds, consumerVars
<1>2. ASSUME NEW part \in Landings, stream' = stream \o part,
             refused' = refused \cup Holes(part),
             settled' \in {settled, emitted}, tries' \in 0..MaxTries, emitted' = emitted,
             settled' = emitted \/ tries' < MaxTries,
             UNCHANGED <<consumerVars, runVars, bounds>>
      PROVE  TypeOK' /\ TriesLeft' /\ Grows
  <2>1. /\ stream' \in Seq(WorkerEvents) /\ Len(stream) <= Len(stream')
        /\ \A i \in 1..Len(stream) : stream'[i] = stream[i]
    BY <1>0, <1>2, PartAppends, PartShape
  <2>2. Len(stream') \in Nat
    BY <2>1, LenProperties
  <2>3. delivered \in 0..Len(stream')
    BY <1>0, <2>1, <2>2 DEF TypeOK
  <2>4. settled' \in 0..emitted'
    BY <1>2 DEF TypeOK
  <2>5. Holes(part) \subseteq WorkerEvents
    BY DEF Holes, Batch, TypeOK, WorkerEvents
  <2>6. refused' \subseteq WorkerEvents
    BY <1>2, <2>5 DEF TypeOK
  <2> QED
    BY <1>2, <2>1, <2>3, <2>4, <2>6 DEF TypeOK, TriesLeft, Grows, groupVars, storeVars,
                    runVars, bounds, consumerVars
<1>3. CASE PublishOk
  <2>1. InFull \in Landings /\ refused' = refused \cup Holes(InFull)
    BY <1>3, FullShape DEF PublishOk
  <2> QED
    BY <1>2, <1>3, <2>1 DEF PublishOk, TypeOK
<1>4. CASE PublishFails
  <2>1. PICK part \in Landings : stream' = stream \o part /\ refused' = refused \cup Holes(part)
    BY <1>4 DEF PublishFails
  <2>2. tries' \in 0..MaxTries /\ (settled' = emitted \/ tries' < MaxTries)
    BY <1>4 DEF PublishFails, TypeOK, TriesLeft
  <2> QED
    BY <1>2, <1>4, <2>1, <2>2 DEF PublishFails
<1> QED
  BY <1>1, <1>3, <1>4 DEF Worker

\* What a step of the backend has to keep.
LEMMA BackendFrame ==
  ASSUME TypeOK, TriesLeft, UNCHANGED <<workerVars, groupVars>>,
         next' \in Nat, table' \in [0..(next' - 1) -> WorkerEvents \cup {Own}],
         \A s \in DOMAIN table : s \in DOMAIN table' /\ table'[s] = table[s],
         letters \subseteq letters', letters' \subseteq WorkerEvents,
         frames' \subseteq [seq : Nat, ev : WorkerEvents],
         pc' \in [Consumers -> Pcs], todo' \in [Consumers -> SUBSET (1..delivered')],
         registered' \in BOOLEAN, parked' \in BOOLEAN, worker' \in BOOLEAN,
         alive' \in BOOLEAN, moves' \in 0..MaxMoves, faults' \in 0..MaxFaults,
         direct' \in 0..MaxDirect, crashes' \in 0..MaxCrashes
  PROVE  TypeOK' /\ TriesLeft' /\ Grows
<1>1. /\ emitted' = emitted /\ settled' = settled /\ tries' = tries /\ stream' = stream
      /\ refused' = refused
      /\ delivered' = delivered /\ pel' = pel
  BY DEF workerVars, groupVars
<1>2. Grows
  <2>1. Len(stream) \in Nat
    BY LenProperties DEF TypeOK
  <2> QED
    BY <1>1, <2>1 DEF Grows
<1>3. TriesLeft'
  BY <1>1 DEF TriesLeft
<1>4. /\ emitted' \in 0..MaxEvents /\ settled' \in 0..emitted' /\ tries' \in 0..MaxTries
      /\ stream' \in Seq(WorkerEvents) /\ delivered' \in 0..Len(stream')
      /\ pel' \subseteq 1..delivered' /\ refused' \subseteq WorkerEvents
  BY <1>1 DEF TypeOK
<1>5. TypeOK'
  BY <1>4 DEF TypeOK
<1> QED
  BY <1>2, <1>3, <1>5

\* What a read gives the group lies in the stream.
LEMMA GiveType ==
  ASSUME TypeOK, Give
  PROVE  /\ delivered' \in 0..Len(stream) /\ pel' \subseteq 1..delivered'
         /\ delivered <= delivered' /\ pel \subseteq pel'
         /\ \A i \in 1..delivered' : i \in 1..delivered \/ i \in pel'
         /\ (delivered + 1)..Len(stream) \subseteq 1..delivered'
<1>1. /\ Len(stream) \in Nat /\ delivered \in 0..Len(stream)
      /\ pel \subseteq 1..delivered
  BY LenProperties DEF TypeOK
<1>2. /\ delivered' = Len(stream)
      /\ pel' = pel \cup (delivered + 1)..Len(stream)
  BY DEF Give
<1>3. ASSUME NEW i \in 1..delivered'
      PROVE  i \in 1..delivered \/ i \in pel'
  BY <1>1, <1>2, <1>3
<1>4. /\ 1..delivered \subseteq 1..delivered'
      /\ (delivered + 1)..Len(stream) \subseteq 1..delivered'
      /\ delivered' \in 0..Len(stream) /\ delivered <= delivered'
  BY <1>1, <1>2
<1> QED
  BY <1>1, <1>2, <1>3, <1>4

LEMMA ReaderType ==
  ASSUME TypeOK, TriesLeft,
         Poll \/ Deliver \/ ReadFails \/ \E d \in Drains : Drain(d)
  PROVE  TypeOK' /\ TriesLeft' /\ Grows
<1> USE DEF workerVars, storeVars, runVars, bounds, groupVars
<1>0. Loop \in Consumers /\ stream \in Seq(WorkerEvents) /\ Len(stream) \in Nat
  BY LenProperties DEF TypeOK, Consumers
<1>1. CASE Poll
  <2>1. /\ pc' \in [Consumers -> Pcs]
        /\ todo' \in [Consumers -> SUBSET (1..delivered')]
    BY <1>0, <1>1, GotoType DEF Poll, Pcs
  <2> QED
    BY <1>0, <1>1, <2>1 DEF Poll, TypeOK, TriesLeft, Grows
<1>2. CASE Deliver
  <2>1. /\ delivered' \in 0..Len(stream) /\ pel' \subseteq 1..delivered'
        /\ delivered <= delivered' /\ (delivered + 1)..Len(stream) \subseteq 1..delivered'
    BY <1>2, GiveType DEF Deliver
  <2>2. todo' \in [Consumers -> SUBSET (1..delivered')]
    BY <1>0, <1>2, <2>1 DEF Deliver, TypeOK
  <2>3. pc' \in [Consumers -> Pcs]
    BY <1>0, <1>2 DEF Deliver, TypeOK, Pcs
  <2> QED
    BY <1>0, <1>2, <2>1, <2>2, <2>3 DEF Deliver, TypeOK, TriesLeft, Grows
<1>3. CASE ReadFails
  <2>1. /\ delivered' \in 0..Len(stream) /\ pel' \subseteq 1..delivered'
        /\ delivered <= delivered'
    <3>1. Give \/ UNCHANGED groupVars
      BY <1>3 DEF ReadFails
    <3>2. CASE Give
      BY <3>2, GiveType
    <3>3. CASE UNCHANGED groupVars
      BY <1>0, <3>3 DEF TypeOK
    <3> QED
      BY <3>1, <3>2, <3>3
  <2>2. /\ pc' \in [Consumers -> Pcs] /\ UNCHANGED todo
    BY <1>0, <1>3 DEF ReadFails, Goto, TypeOK, Pcs
  <2>3. todo' \in [Consumers -> SUBSET (1..delivered')]
    BY <1>0, <2>1, <2>2 DEF TypeOK
  <2>4. faults' \in 0..MaxFaults
    BY <1>3, FaultType DEF ReadFails
  <2> QED
    BY <1>0, <1>3, <2>1, <2>2, <2>3, <2>4 DEF ReadFails, TypeOK, TriesLeft, Grows
<1>4. ASSUME NEW d \in Drains, Claim(d)
      PROVE  TypeOK' /\ TriesLeft' /\ Grows
  <2>1. /\ pc' \in [Consumers -> Pcs]
        /\ todo' \in [Consumers -> SUBSET (1..delivered')]
    BY <1>4 DEF Claim, TypeOK, Pcs, Consumers
  <2> QED
    BY <1>0, <1>4, <2>1 DEF Claim, TypeOK, TriesLeft, Grows
<1>5. ASSUME NEW d \in Drains, ClaimFails(d)
      PROVE  TypeOK' /\ TriesLeft' /\ Grows
  <2>1. /\ pc' \in [Consumers -> Pcs] /\ faults' \in 0..MaxFaults
        /\ todo' \in [Consumers -> SUBSET (1..delivered')]
    BY <1>5, GotoType, FaultType DEF ClaimFails, Pcs, Consumers
  <2> QED
    BY <1>0, <1>5, <2>1 DEF ClaimFails, TypeOK, TriesLeft, Grows
<1> QED
  BY <1>1, <1>2, <1>3, <1>4, <1>5 DEF Drain

\* One call of _process or of the handler around it.
LEMMA EntryType ==
  ASSUME TypeOK, TriesLeft, NEW c \in Consumers, Entry(c)
  PROVE  TypeOK' /\ TriesLeft' /\ Grows
<1> USE DEF workerVars, storeVars, runVars, bounds, groupVars
<1>0. stream \in Seq(WorkerEvents) /\ Len(stream) \in Nat
  BY LenProperties DEF TypeOK
<1>a. ASSUME NEW to \in Pcs, Goto(c, to), delivered' = delivered
      PROVE  /\ pc' \in [Consumers -> Pcs]
             /\ todo' \in [Consumers -> SUBSET (1..delivered')]
  BY <1>a, GotoType
<1>b. ASSUME NEW i \in todo[c], Leave(c, i), delivered' = delivered
      PROVE  /\ pc' \in [Consumers -> Pcs]
             /\ todo' \in [Consumers -> SUBSET (1..delivered')]
  BY <1>b, LeaveType
<1>1. CASE Reject(c)
  <2>1. /\ pc' \in [Consumers -> Pcs]
        /\ todo' \in [Consumers -> SUBSET (1..delivered')]
    BY <1>1, <1>a DEF Reject, Pcs
  <2>2. letters \subseteq letters' /\ letters' \subseteq WorkerEvents
    BY <1>1, EntryIsEvent DEF Reject, TypeOK
  <2> QED
    BY <1>0, <1>1, <2>1, <2>2 DEF Reject, TypeOK, TriesLeft, Grows
<1>2. CASE Reshow(c)
  <2>1. /\ pc' \in [Consumers -> Pcs]
        /\ todo' \in [Consumers -> SUBSET (1..delivered')]
    BY <1>2, <1>a DEF Reshow, Pcs
  <2>2. PICK i \in todo[c], s \in DOMAIN table :
          table[s] = stream[i] /\ frames' = Frame(s, stream[i])
    BY <1>2 DEF Reshow
  <2>3. stream[i] \in WorkerEvents /\ s \in Nat
    BY EntryIsEvent DEF TypeOK
  <2>4. frames' \subseteq [seq : Nat, ev : WorkerEvents]
    BY <2>2, <2>3 DEF Frame, TypeOK
  <2> QED
    BY <1>0, <1>2, <2>1, <2>4 DEF Reshow, TypeOK, TriesLeft, Grows
<1>3. CASE Store(c)
  <2>1. /\ pc' \in [Consumers -> Pcs]
        /\ todo' \in [Consumers -> SUBSET (1..delivered')]
    BY <1>3, <1>a DEF Store, Pcs
  <2>2. next \notin DOMAIN table /\ next \in Nat
    BY DEF TypeOK
  <2>3. PICK i \in todo[c] : Insert(stream[i]) /\ frames' = Frame(next, stream[i])
    BY <1>3, <2>2 DEF Store
  <2>4. stream[i] \in WorkerEvents
    BY EntryIsEvent
  <2>5. frames' \subseteq [seq : Nat, ev : WorkerEvents]
    BY <2>2, <2>3, <2>4 DEF Frame, TypeOK
  <2>6. /\ next' \in Nat /\ table' \in [0..(next' - 1) -> WorkerEvents \cup {Own}]
        /\ \A s \in DOMAIN table : s \in DOMAIN table' /\ table'[s] = table[s]
    BY <2>3, <2>4, InsertAppends
  <2>7. UNCHANGED <<workerVars, groupVars, letters, faults, runVars, bounds>>
    BY <1>3 DEF Store
  <2> QED
    BY <2>1, <2>5, <2>6, <2>7, BackendFrame DEF TypeOK
<1>4. CASE Ack(c)
  <2>1. /\ pc' \in [Consumers -> Pcs]
        /\ todo' \in [Consumers -> SUBSET (1..delivered')]
    BY <1>4, <1>b DEF Ack
  <2> QED
    BY <1>0, <1>4, <2>1 DEF Ack, TypeOK, TriesLeft, Grows
<1>5. CASE Letter(c)
  <2>1. /\ pc' \in [Consumers -> Pcs]
        /\ todo' \in [Consumers -> SUBSET (1..delivered')]
    BY <1>5, <1>a DEF Letter, Pcs
  <2>2. letters \subseteq letters' /\ letters' \subseteq WorkerEvents
    BY <1>5, EntryIsEvent DEF Letter, TypeOK
  <2> QED
    BY <1>0, <1>5, <2>1, <2>2 DEF Letter, TypeOK, TriesLeft, Grows
<1>6. CASE ProcessFails(c)
  <2>1. /\ pc' \in [Consumers -> Pcs] /\ faults' \in 0..MaxFaults
        /\ todo' \in [Consumers -> SUBSET (1..delivered')]
    BY <1>6, <1>a, FaultType DEF ProcessFails, Pcs
  <2>2. letters \subseteq letters' /\ letters' \subseteq WorkerEvents
    BY <1>6, EntryIsEvent DEF ProcessFails, TypeOK
  <2> QED
    BY <1>0, <1>6, <2>1, <2>2 DEF ProcessFails, TypeOK, TriesLeft, Grows
<1>7. CASE AckFails(c)
  <2>1. /\ pc' \in [Consumers -> Pcs] /\ faults' \in 0..MaxFaults
        /\ todo' \in [Consumers -> SUBSET (1..delivered')]
    BY <1>7, <1>a, <1>b, FaultType DEF AckFails, Pcs
  <2> QED
    BY <1>0, <1>7, <2>1 DEF AckFails, TypeOK, TriesLeft, Grows
<1>8. CASE LetterFails(c)
  <2>1. /\ pc' \in [Consumers -> Pcs] /\ faults' \in 0..MaxFaults
        /\ todo' \in [Consumers -> SUBSET (1..delivered')]
    BY <1>8, <1>b, FaultType DEF LetterFails
  <2>2. letters \subseteq letters' /\ letters' \subseteq WorkerEvents
    BY <1>8, EntryIsEvent DEF LetterFails, TypeOK
  <2> QED
    BY <1>0, <1>8, <2>1, <2>2 DEF LetterFails, TypeOK, TriesLeft, Grows
<1> QED
  BY <1>1, <1>2, <1>3, <1>4, <1>5, <1>6, <1>7, <1>8 DEF Entry

\* The rest of Next: the backend's own rows, the run's moves, crash and boot.
BackendStep ==
  \/ \E n \in {1, 2} : OwnRows(n)
  \/ \E d \in Drains : Unregister(d)
  \/ \E c \in Consumers : CrashAfterCommit(c)
  \/ Park \/ Register \/ Crash \/ Boot

LEMMA MoveType ==
  ASSUME TypeOK, Move
  PROVE  moves' \in 0..MaxMoves
BY IngestAssumption DEF Move, TypeOK

LEMMA DiesType ==
  ASSUME TypeOK, Dies
  PROVE  /\ crashes' \in 0..MaxCrashes /\ alive' \in BOOLEAN
         /\ pc' \in [Consumers -> Pcs] /\ todo' \in [Consumers -> SUBSET (1..delivered')]
<1>1. crashes' \in 0..MaxCrashes
  BY IngestAssumption DEF Dies, TypeOK
<1>2. pc' \in [Consumers -> Pcs]
  BY DEF Dies, Pcs
<1>3. todo' \in [Consumers -> SUBSET (1..delivered')]
  BY DEF Dies
<1> QED
  BY <1>1, <1>2, <1>3 DEF Dies

\* A step that leaves the rows alone.
LEMMA RowsKept ==
  ASSUME TypeOK, UNCHANGED <<table, next>>
  PROVE  /\ next' \in Nat /\ table' \in [0..(next' - 1) -> WorkerEvents \cup {Own}]
         /\ \A s \in DOMAIN table : s \in DOMAIN table' /\ table'[s] = table[s]
BY DEF TypeOK

LEMMA BackendType ==
  ASSUME TypeOK, TriesLeft, BackendStep
  PROVE  TypeOK' /\ TriesLeft' /\ Grows
<1>1. ASSUME NEW n \in {1, 2}, OwnRows(n)
      PROVE  TypeOK' /\ TriesLeft' /\ Grows
  <2>1. direct' \in 0..MaxDirect
    BY <1>1, IngestAssumption DEF OwnRows, TypeOK
  <2>2. /\ next' \in Nat /\ table' \in [0..(next' - 1) -> WorkerEvents \cup {Own}]
        /\ \A s \in DOMAIN table : s \in DOMAIN table' /\ table'[s] = table[s]
    BY <1>1, OwnAppends
  <2>3. UNCHANGED <<workerVars, groupVars, frames, letters, pc, todo, faults, runVars,
                    alive, crashes>>
    BY <1>1 DEF OwnRows
  <2> QED
    BY <2>1, <2>2, <2>3, BackendFrame DEF TypeOK, groupVars, runVars
<1>2. ASSUME NEW d \in Drains, Unregister(d)
      PROVE  TypeOK' /\ TriesLeft' /\ Grows
  <2>1. UNCHANGED <<workerVars, groupVars, storeVars, letters, faults, parked, bounds>>
    BY <1>2 DEF Unregister
  <2>2. /\ pc' \in [Consumers -> Pcs]
        /\ todo' \in [Consumers -> SUBSET (1..delivered')]
    BY <1>2, <2>1, GotoType DEF Unregister, Pcs, Consumers, groupVars
  <2>3. registered' \in BOOLEAN /\ worker' \in BOOLEAN /\ moves' \in 0..MaxMoves
    BY <1>2, MoveType DEF Unregister, TypeOK
  <2> QED
    BY <2>1, <2>2, <2>3, BackendFrame, RowsKept DEF TypeOK, storeVars, bounds
<1>3. CASE Park \/ Register
  <2>1. UNCHANGED <<workerVars, consumerVars, worker, bounds>>
    BY <1>3 DEF Park, Register
  <2>2. registered' \in BOOLEAN /\ parked' \in BOOLEAN /\ moves' \in 0..MaxMoves
    BY <1>3, MoveType DEF Park, Register, TypeOK
  <2> QED
    BY <2>1, <2>2, BackendFrame, RowsKept
       DEF TypeOK, consumerVars, storeVars, groupVars, bounds
<1>4. CASE Crash
  <2>1. UNCHANGED <<workerVars, groupVars, letters, faults, runVars, direct, storeVars>>
    BY <1>4 DEF Crash, Dies
  <2> QED
    BY <1>4, <2>1, DiesType, BackendFrame, RowsKept DEF Crash, TypeOK, storeVars, runVars
<1>5. ASSUME NEW c \in Consumers, CrashAfterCommit(c)
      PROVE  TypeOK' /\ TriesLeft' /\ Grows
  <2>1. PICK i \in todo[c] : Insert(stream[i])
    BY <1>5 DEF CrashAfterCommit
  <2>2. /\ next' \in Nat /\ table' \in [0..(next' - 1) -> WorkerEvents \cup {Own}]
        /\ \A s \in DOMAIN table : s \in DOMAIN table' /\ table'[s] = table[s]
    BY <2>1, EntryIsEvent, InsertAppends
  <2>3. Dies /\ UNCHANGED <<workerVars, groupVars, letters, faults, runVars, direct, frames>>
    BY <1>5 DEF CrashAfterCommit, Dies
  <2> QED
    BY <2>2, <2>3, DiesType, BackendFrame DEF TypeOK, runVars
<1>6. CASE Boot
  <2>1. UNCHANGED <<workerVars, consumerVars, parked, moves, direct, crashes>>
    BY <1>6 DEF Boot
  <2>2. registered' \in BOOLEAN
    BY <1>6 DEF Boot
  <2>3. worker' \in BOOLEAN /\ alive' \in BOOLEAN
    BY <1>6 DEF Boot, TypeOK
  <2> QED
    BY <2>1, <2>2, <2>3, BackendFrame, RowsKept
       DEF TypeOK, consumerVars, storeVars, groupVars
<1> QED
  BY <1>1, <1>2, <1>3, <1>4, <1>5, <1>6 DEF BackendStep

LEMMA Steps ==
  ASSUME Next
  PROVE  \/ Worker
         \/ Poll \/ Deliver \/ ReadFails \/ \E d \in Drains : Drain(d)
         \/ \E c \in Consumers : Entry(c)
         \/ BackendStep
BY DEF Next, BackendStep

LEMMA NextType ==
  ASSUME TypeOK, TriesLeft, Next
  PROVE  TypeOK' /\ TriesLeft' /\ Grows
BY Steps, WorkerType, ReaderType, EntryType, BackendType

-----------------------------------------------------------------------------
(* What is on record stays there.                                          *)

LEMMA RecordKept ==
  ASSUME Grows, NEW e, Recorded(e)
  PROVE  Recorded(e)'
BY DEF Grows, Recorded, Stored

\* An entry keeps its event.
LEMMA EntryKept ==
  ASSUME TypeOK, Grows, NEW i \in 1..delivered
  PROVE  stream'[i] = stream[i]
<1>1. Len(stream) \in Nat /\ i \in 1..Len(stream)
  BY LenProperties DEF TypeOK
<1> QED
  BY <1>1 DEF Grows

-----------------------------------------------------------------------------
(* One row for an event, and true frames.                                  *)

\* How a step treats the rows and the frames: not at all, a frame for a row, a
\* row for an event with or without its frame, the backend's own rows.
RowsIdle == UNCHANGED <<table, next, frames>>

RowShown ==
  /\ UNCHANGED <<table, next>>
  /\ \E s \in DOMAIN table : table[s] # Own /\ frames' = Frame(s, table[s])

RowAdded(e) == Insert(e) /\ ~Stored(e) /\ frames' \in {frames, Frame(next, e)}

LEMMA RowSteps ==
  ASSUME TypeOK, Next
  PROVE  \/ RowsIdle \/ RowShown
         \/ \E e \in WorkerEvents : RowAdded(e)
         \/ \E n \in {1, 2} : OwnRows(n)
<1> USE DEF storeVars, consumerVars, RowsIdle
<1>1. CASE Worker
  BY <1>1 DEF Worker, Emit, PublishOk, PublishFails
<1>2. CASE Poll \/ Deliver \/ ReadFails \/ \E d \in Drains : Drain(d)
  BY <1>2 DEF Poll, Deliver, ReadFails, Drain, Claim, ClaimFails
<1>3. ASSUME NEW c \in Consumers, Entry(c)
      PROVE  RowsIdle \/ RowShown \/ \E e \in WorkerEvents : RowAdded(e)
  <2>1. CASE Store(c)
    <3>1. PICK i \in todo[c] :
            /\ ~Stored(stream[i])
            /\ \/ UNCHANGED storeVars
               \/ Insert(stream[i]) /\ frames' = Frame(next, stream[i])
      BY <2>1 DEF Store
    <3> QED
      BY <3>1, EntryIsEvent DEF RowAdded
  <2>2. CASE Reshow(c)
    <3>1. PICK i \in todo[c], s \in DOMAIN table :
            table[s] = stream[i] /\ frames' = Frame(s, stream[i])
      BY <2>2 DEF Reshow
    <3>2. stream[i] # Own
      BY EntryIsEvent, IngestAssumption DEF WorkerEvents, Own
    <3> QED
      BY <2>2, <3>1, <3>2 DEF Reshow, RowShown
  <2>3. CASE ~Store(c) /\ ~Reshow(c)
    BY <1>3, <2>3 DEF Entry, Reject, Ack, Letter, ProcessFails, AckFails, LetterFails
  <2> QED
    BY <2>1, <2>2, <2>3
<1>4. CASE BackendStep
  <2>1. ASSUME NEW c \in Consumers, CrashAfterCommit(c)
        PROVE  \E e \in WorkerEvents : RowAdded(e)
    <3>1. PICK i \in todo[c] : ~Stored(stream[i]) /\ Insert(stream[i]) /\ UNCHANGED frames
      BY <2>1 DEF CrashAfterCommit
    <3> QED
      BY <3>1, EntryIsEvent DEF RowAdded
  <2> QED
    BY <1>4, <2>1 DEF BackendStep, Unregister, Park, Register, Crash, Boot
<1> QED
  BY Steps, <1>1, <1>2, <1>3, <1>4

LEMMA OneRowStep ==
  ASSUME TypeOK, OneRow, Next
  PROVE  OneRow'
<1>1. CASE RowsIdle \/ RowShown
  BY <1>1 DEF OneRow, RowsIdle, RowShown
<1>2. ASSUME NEW e \in WorkerEvents, RowAdded(e)
      PROVE  OneRow'
  <2>1. /\ next \notin DOMAIN table /\ table'[next] = e
        /\ \A s \in DOMAIN table : s \in DOMAIN table' /\ table'[s] = table[s]
        /\ DOMAIN table' = DOMAIN table \cup {next}
    BY <1>2, InsertAppends DEF RowAdded, Insert
  <2> QED
    BY <1>2, <2>1 DEF OneRow, RowAdded, Stored
<1>3. ASSUME NEW n \in {1, 2}, OwnRows(n)
      PROVE  OneRow'
  <2>1. /\ \A s \in DOMAIN table' : s >= next => table'[s] = Own
        /\ \A s \in DOMAIN table : s \in DOMAIN table' /\ table'[s] = table[s]
    BY <1>3, OwnAppends
  <2>0. /\ next \in Nat /\ DOMAIN table = 0..(next - 1)
        /\ next' \in Nat /\ DOMAIN table' = 0..(next' - 1)
    <3>1. next \in Nat /\ DOMAIN table = 0..(next - 1)
      BY DEF TypeOK
    <3>2. next' \in Nat /\ DOMAIN table' = 0..(next' - 1)
      BY <1>3, OwnAppends
    <3> QED
      BY <3>1, <3>2
  <2>2. \A s \in DOMAIN table' : s < next => s \in DOMAIN table
    BY <2>0
  <2>3. \A s \in DOMAIN table' : s \in Nat /\ next \in Nat
    BY <2>0
  <2>4. \A s \in DOMAIN table' : table'[s] # Own => s \in DOMAIN table /\ table'[s] = table[s]
    BY <2>1, <2>2, <2>3
  <2> QED
    BY <2>4 DEF OneRow
<1> QED
  BY <1>1, <1>2, <1>3, RowSteps

LEMMA FramesStep ==
  ASSUME TypeOK, Grows, FramesTrue, Next
  PROVE  FramesTrue'
<1>1. \A f \in frames : f.seq \in DOMAIN table' /\ table'[f.seq] = f.ev
  BY DEF FramesTrue, Grows
<1>2. ASSUME UNCHANGED frames
      PROVE  FramesTrue'
  BY <1>1, <1>2 DEF FramesTrue
<1>3. CASE RowShown
  BY <1>1, <1>3 DEF RowShown, FramesTrue, Frame, Grows
<1>4. ASSUME NEW e \in WorkerEvents, RowAdded(e)
      PROVE  FramesTrue'
  <2>1. next \in DOMAIN table' /\ table'[next] = e
    BY <1>4, InsertAppends DEF RowAdded, Insert
  <2> QED
    BY <1>1, <1>2, <1>4, <2>1 DEF RowAdded, FramesTrue, Frame
<1> QED
  BY <1>2, <1>3, <1>4, RowSteps DEF RowsIdle, OwnRows

-----------------------------------------------------------------------------
(* Acknowledged entries.                                                   *)

Acking == {"ack", "letterack"}

\* A step keeps InHand if every consumer stays where it is, goes where nothing
\* is acknowledged, or is at an entry whose event is on record now.
LEMMA HandFrame ==
  ASSUME TypeOK, Grows, InHand,
         \A c \in Consumers :
           \/ pc'[c] \notin Acking
           \/ pc'[c] = pc[c] /\ todo'[c] = todo[c]
           \/ /\ todo'[c] = todo[c]
              /\ \E i \in todo[c] : At(c, i) /\ Recorded(stream[i])'
  PROVE  InHand'
<1> SUFFICES ASSUME NEW c \in Consumers, pc'[c] \in Acking, todo'[c] = todo[c],
                    NEW i \in todo[c], At(c, i)
             PROVE  Recorded(stream[i])'
  BY DEF InHand, Acking, At
<1>1. todo[c] \subseteq 1..delivered /\ delivered \in Nat
  <2>1. Len(stream) \in Nat
    BY LenProperties DEF TypeOK
  <2> QED
    BY <2>1 DEF TypeOK
<1>2. stream'[i] = stream[i]
  BY <1>1, EntryKept
<1>3. CASE pc'[c] = pc[c]
  <2>1. Recorded(stream[i])
    BY <1>3 DEF InHand, Acking
  <2>2. \A s \in DOMAIN table : s \in DOMAIN table' /\ table'[s] = table[s]
    BY DEF Grows
  <2> QED
    BY <1>2, <2>1, <2>2 DEF Recorded, Stored, Grows
<1>4. CASE \E j \in todo[c] : At(c, j) /\ Recorded(stream[j])'
  <2>1. PICK j \in todo[c] : At(c, j) /\ Recorded(stream[j])'
    BY <1>4
  <2>2. i <= j /\ j <= i /\ i \in Nat /\ j \in Nat
    BY <1>1, <2>1 DEF At
  <2>3. i = j
    BY <2>2
  <2> QED
    BY <2>1, <2>3
<1> QED
  BY <1>3, <1>4

LEMMA HandStep ==
  ASSUME TypeOK, Grows, InHand, Next
  PROVE  InHand'
<1> USE DEF Acking
<1>t. /\ DOMAIN pc = Consumers /\ DOMAIN todo = Consumers
  BY DEF TypeOK
<1>1. ASSUME UNCHANGED <<pc, todo>>
      PROVE  InHand'
  BY <1>1, HandFrame
<1>2. ASSUME NEW x \in Consumers, NEW to, Goto(x, to),
             to \notin Acking \/ \E i \in todo[x] : At(x, i) /\ Recorded(stream[i])'
      PROVE  InHand'
  BY <1>t, <1>2, HandFrame DEF Goto
<1>3. ASSUME NEW x \in Consumers, NEW i \in todo[x], Leave(x, i)
      PROVE  InHand'
  BY <1>t, <1>3, HandFrame DEF Leave
<1>4. CASE Worker
  BY <1>1, <1>4 DEF Worker, Emit, PublishOk, PublishFails, consumerVars
<1>5. CASE Poll \/ ReadFails
  BY <1>2, <1>5 DEF Poll, ReadFails, Consumers
<1>6. CASE Deliver
  BY <1>t, <1>2, <1>6, HandFrame DEF Deliver, Consumers
<1>7. ASSUME NEW d \in Drains, Drain(d)
      PROVE  InHand'
  BY <1>t, <1>2, <1>7, HandFrame DEF Drain, Claim, ClaimFails, Consumers
<1>8. ASSUME NEW c \in Consumers, Entry(c)
      PROVE  InHand'
  <2>1. CASE Reject(c)
    <3>1. PICK i \in todo[c] : At(c, i) /\ stream[i] \in letters'
      BY <2>1 DEF Reject
    <3>2. Recorded(stream[i])'
      BY <2>1, <3>1 DEF Reject, Recorded, workerVars
    <3> QED
      BY <1>2, <2>1, <3>1, <3>2 DEF Reject
  <2>2. CASE Reshow(c)
    <3>1. PICK i \in todo[c] : At(c, i) /\ Stored(stream[i])
      BY <2>2 DEF Reshow, Stored
    <3>2. Recorded(stream[i])'
      BY <2>2, <3>1 DEF Reshow, Recorded, Stored, workerVars
    <3> QED
      BY <1>2, <2>2, <3>1, <3>2 DEF Reshow
  <2>3. CASE Store(c)
    <3>1. next \notin DOMAIN table
      BY DEF TypeOK
    <3>2. PICK i \in todo[c] : At(c, i) /\ Insert(stream[i])
      BY <2>3, <3>1 DEF Store
    <3>3. next \in DOMAIN table' /\ table'[next] = stream[i]
      BY <3>2 DEF Insert
    <3>4. Recorded(stream[i])'
      BY <2>3, <3>3 DEF Store, Recorded, Stored, workerVars
    <3> QED
      BY <1>2, <2>3, <3>2, <3>4 DEF Store
  <2>4. CASE Letter(c)
    <3>1. PICK i \in todo[c] : At(c, i) /\ stream[i] \in letters'
      BY <2>4 DEF Letter
    <3>2. Recorded(stream[i])'
      BY <2>4, <3>1 DEF Letter, Recorded, workerVars
    <3> QED
      BY <1>2, <2>4, <3>1, <3>2 DEF Letter
  <2>5. CASE ProcessFails(c)
    BY <1>2, <2>5 DEF ProcessFails
  <2>6. CASE Ack(c) \/ AckFails(c) \/ LetterFails(c)
    BY <1>2, <1>3, <2>6 DEF Ack, AckFails, LetterFails
  <2> QED
    BY <1>8, <2>1, <2>2, <2>3, <2>4, <2>5, <2>6 DEF Entry
<1>9. CASE BackendStep
  <2>1. ASSUME NEW d \in Drains, Unregister(d)
        PROVE  InHand'
    BY <1>2, <2>1 DEF Unregister, Consumers
  <2>2. ASSUME Dies
        PROVE  InHand'
    BY <2>2, HandFrame DEF Dies
  <2> QED
    BY <1>1, <1>9, <2>1, <2>2
       DEF BackendStep, OwnRows, Park, Register, Crash, CrashAfterCommit, Boot, consumerVars
<1> QED
  BY Steps, <1>4, <1>5, <1>6, <1>7, <1>8, <1>9

\* The steps that take an entry from the pending list, or put one on it.
LEMMA PendingSteps ==
  ASSUME TypeOK, InHand, Next
  PROVE  \/ UNCHANGED groupVars
         \/ pel \subseteq pel' /\ \A i \in 1..delivered' : i \in 1..delivered \/ i \in pel'
         \/ \E i \in 1..delivered :
              /\ Recorded(stream[i]) /\ pel' \in {pel, pel \ {i}}
              /\ UNCHANGED delivered
<1>1. CASE Worker
  BY <1>1 DEF Worker, Emit, PublishOk, PublishFails, consumerVars
<1>2. CASE Poll \/ \E d \in Drains : Drain(d)
  BY <1>2 DEF Poll, Drain, Claim, ClaimFails
<1>3. CASE Deliver \/ ReadFails
  <2>1. Give \/ UNCHANGED groupVars
    BY <1>3 DEF Deliver, ReadFails
  <2> QED
    BY <2>1, GiveType
<1>4. ASSUME NEW c \in Consumers, Entry(c)
      PROVE  \/ UNCHANGED groupVars
             \/ \E i \in 1..delivered :
                  /\ Recorded(stream[i]) /\ pel' \in {pel, pel \ {i}}
                  /\ UNCHANGED delivered
  <2>1. ASSUME pc[c] \in {"ack", "letterack"}, Ack(c) \/ AckFails(c)
        PROVE  \E i \in 1..delivered :
                  /\ Recorded(stream[i]) /\ pel' \in {pel, pel \ {i}}
                  /\ UNCHANGED delivered
    BY <2>1, EntryIsEvent DEF Ack, AckFails, InHand
  <2> QED
    BY <1>4, <2>1 DEF Entry, Reject, Reshow, Store, Ack, AckFails, Letter, ProcessFails,
                      LetterFails
<1>5. CASE BackendStep
  BY <1>5 DEF BackendStep, OwnRows, Unregister, Park, Register, Dies, Crash,
              CrashAfterCommit, Boot, consumerVars
<1> QED
  BY Steps, <1>1, <1>2, <1>3, <1>4, <1>5

LEMMA AckedStep ==
  ASSUME TypeOK, Grows, InHand, AckedIsRecorded, Next
  PROVE  AckedIsRecorded'
<1>1. \A i \in 1..delivered : Recorded(stream[i]) => Recorded(stream[i])'
  BY EntryKept, RecordKept DEF Recorded, Stored, Grows
<1>2. \A i \in 1..delivered : i \in pel \/ Recorded(stream[i])'
  BY <1>1 DEF AckedIsRecorded
<1> QED
  BY <1>1, <1>2, PendingSteps DEF AckedIsRecorded, groupVars

-----------------------------------------------------------------------------
(* The invariant.                                                          *)

LEMMA InitInv ==
  ASSUME Init
  PROVE  Inv
<1>1. /\ stream \in Seq(WorkerEvents) /\ Len(stream) = 0
      /\ delivered = 0 /\ settled = 0 /\ emitted = 0
  BY EmptySeq DEF Init
<1>2. table \in [0..(next - 1) -> WorkerEvents \cup {Own}] /\ DOMAIN table = {}
  BY DEF Init
<1>3. pc \in [Consumers -> Pcs] /\ todo \in [Consumers -> SUBSET (1..delivered)]
  BY DEF Init, Pcs
<1>4. /\ emitted \in 0..MaxEvents /\ settled \in 0..emitted /\ tries \in 0..MaxTries
      /\ direct \in 0..MaxDirect /\ moves \in 0..MaxMoves /\ faults \in 0..MaxFaults
      /\ crashes \in 0..MaxCrashes
  BY <1>1, IngestAssumption DEF Init
<1>5. delivered \in 0..Len(stream)
  BY <1>1
<1>6. /\ pel \subseteq 1..delivered /\ next \in Nat /\ refused \subseteq WorkerEvents
      /\ letters \subseteq WorkerEvents /\ frames \subseteq [seq : Nat, ev : WorkerEvents]
  BY DEF Init
<1>7. /\ registered \in BOOLEAN /\ parked \in BOOLEAN /\ worker \in BOOLEAN
      /\ alive \in BOOLEAN
  BY DEF Init
<1>8. TypeOK
  BY <1>1, <1>2, <1>3, <1>4, <1>5, <1>6, <1>7 DEF TypeOK
<1> QED
  BY <1>1, <1>2, <1>8
     DEF Init, Inv, OneRow, FramesTrue, AckedIsRecorded, InHand, TriesLeft

LEMMA NextInv ==
  ASSUME Inv, [Next]_vars
  PROVE  Inv'
<1>1. CASE Next
  BY <1>1, NextType, OneRowStep, FramesStep, HandStep, AckedStep DEF Inv
<1>2. CASE UNCHANGED vars
  BY <1>2 DEF vars, workerVars, groupVars, storeVars, runVars, bounds, Inv, TypeOK, OneRow,
     FramesTrue, AckedIsRecorded, InHand, TriesLeft, At, Recorded, Stored
<1> QED
  BY <1>1, <1>2

\* Every reachable state satisfies the inductive invariant.
THEOREM Invariance == Spec => []Inv
<1>1. Init => Inv
  BY InitInv
<1>2. Inv /\ [Next]_vars => Inv'
  BY NextInv
<1> QED
  BY <1>1, <1>2, PTL DEF Spec

\* The state of worker, stream, table and consumers is well typed; the seqs of
\* the thread's rows are 0, 1, ... without a gap (_process, M-44).
THEOREM TypeCorrect == Spec => []TypeOK
BY Invariance, PTL DEF Inv

\* No entry leaves the pending list before its event is stored or dead-lettered:
\* whatever fails, crashes or drains at the same time (_process, H-43, D4).
THEOREM Acknowledged == Spec => []AckedIsRecorded
BY Invariance, PTL DEF Inv

\* A relayed frame carries the seq of the row that holds its event (W-B6, D6).
THEOREM Truthful == Spec => []FramesTrue
BY Invariance, PTL DEF Inv

-----------------------------------------------------------------------------
(* Rows and frames implement the log of EventLog.                          *)

Rows == [i \in 1..next |-> table[i - 1]]
Seen == {<<f.seq + 1, f.ev>> : f \in frames}

Listed(tb, n) == [i \in 1..n |-> tb[i - 1]]

LEMMA ListedSeq ==
  ASSUME NEW S, NEW n \in Nat, NEW tb \in [0..(n - 1) -> S]
  PROVE  /\ Listed(tb, n) \in Seq(S) /\ Len(Listed(tb, n)) = n
         /\ \A i \in 1..n : Listed(tb, n)[i] = tb[i - 1] /\ i - 1 \in DOMAIN tb
<1>1. \A i \in 1..n : i - 1 \in 0..(n - 1)
  OBVIOUS
<1>2. Listed(tb, n) \in [1..n -> S]
  BY <1>1 DEF Listed
<1>3. \A i \in 1..n : Listed(tb, n)[i] = tb[i - 1] /\ i - 1 \in DOMAIN tb
  BY <1>1 DEF Listed
<1> HIDE DEF Listed
<1> QED
  BY <1>2, <1>3

LEMMA RowsSeq ==
  ASSUME TypeOK
  PROVE  /\ Rows \in Seq(WorkerEvents \cup {Own}) /\ Len(Rows) = next
         /\ \A i \in 1..next : Rows[i] = table[i - 1] /\ i - 1 \in DOMAIN table
<1>1. Rows = Listed(table, next) /\ next \in Nat
      /\ table \in [0..(next - 1) -> WorkerEvents \cup {Own}]
  BY DEF TypeOK, Rows, Listed
<1> QED
  BY <1>1, ListedSeq

LEMMA NextRowsSeq ==
  ASSUME TypeOK'
  PROVE  /\ Rows' \in Seq(WorkerEvents \cup {Own}) /\ Len(Rows') = next'
         /\ \A i \in 1..next' : Rows'[i] = table'[i - 1] /\ i - 1 \in DOMAIN table'
<1>1. Rows' = Listed(table', next') /\ next' \in Nat
      /\ table' \in [0..(next' - 1) -> WorkerEvents \cup {Own}]
  BY DEF TypeOK, Rows, Listed
<1> QED
  BY <1>1, ListedSeq

LEMMA FrameShows ==
  ASSUME NEW n, NEW e, frames' = Frame(n, e)
  PROVE  Seen' = Seen \cup {<<n + 1, e>>}
<1> DEFINE new == [seq |-> n, ev |-> e]
<1>1. frames' = frames \cup {new} /\ new.seq = n /\ new.ev = e
  BY DEF Frame
<1> HIDE DEF new
<1>2. \A x : x \in Seen' <=> \E f \in frames \cup {new} : x = <<f.seq + 1, f.ev>>
  BY <1>1 DEF Seen
<1>3. \A x : x \in Seen' <=> x \in Seen \/ x = <<new.seq + 1, new.ev>>
  BY <1>2 DEF Seen
<1> QED
  BY <1>1, <1>3

LEMMA LogInit ==
  ASSUME Init
  PROVE  Rows = <<>> /\ Seen = {}
<1>1. TypeOK /\ next = 0 /\ frames = {}
  BY InitInv DEF Inv, Init
<1>2. Rows \in Seq(WorkerEvents \cup {Own}) /\ Len(Rows) = 0
  BY <1>1, RowsSeq
<1> QED
  BY <1>1, <1>2, EmptySeq DEF Seen

LEMMA LogStep ==
  ASSUME Inv, [Next]_vars
  PROVE  [Log!Next]_<<Rows, Seen>>
<1> USE DEF Inv
<1>0. next \in Nat /\ DOMAIN table = 0..(next - 1)
  BY DEF TypeOK
<1>1. CASE UNCHANGED vars \/ RowsIdle
  BY <1>1 DEF vars, storeVars, RowsIdle, Rows, Seen
<1>2. CASE Next /\ RowShown
  <2>1. PICK s \in DOMAIN table : frames' = Frame(s, table[s])
    BY <1>2 DEF RowShown
  <2>2. Rows' = Rows
    BY <1>2 DEF RowShown, Rows
  <2>3. Seen' = Seen \cup {<<s + 1, table[s]>>}
    BY <2>1, FrameShows
  <2>4. s + 1 \in 1..next /\ Rows[s + 1] = table[s]
    BY <1>0 DEF Rows
  <2>5. <<s + 1, table[s]>> \in Log!Entries
    BY <2>4, RowsSeq DEF Log!Entries, Rows
  <2> QED
    BY <2>2, <2>3, <2>5 DEF Log!Next, Log!Show, Rows, Seen
<1>3. ASSUME Next, NEW e \in WorkerEvents, RowAdded(e)
      PROVE  [Log!Next]_<<Rows, Seen>>
  <2>1. TypeOK'
    BY <1>3, NextType
  <2>2. /\ next' = next + 1 /\ table'[next] = e
        /\ \A s \in DOMAIN table : table'[s] = table[s]
    BY <1>3, InsertAppends DEF RowAdded
  <2>3. Rows' = Append(Rows, e)
    <3>1. /\ Rows' \in Seq(WorkerEvents \cup {Own}) /\ Len(Rows') = next + 1
          /\ \A i \in 1..(next + 1) : Rows'[i] = table'[i - 1]
      BY <2>1, <2>2, NextRowsSeq
    <3>2. /\ Append(Rows, e) \in Seq(WorkerEvents \cup {Own})
          /\ Len(Append(Rows, e)) = next + 1
          /\ \A i \in 1..(next + 1) :
               Append(Rows, e)[i] = IF i = next + 1 THEN e ELSE table[i - 1]
      BY <1>0, RowsSeq, AppendProperties
    <3>3. \A i \in 1..(next + 1) : Rows'[i] = Append(Rows, e)[i]
      <4> SUFFICES ASSUME NEW i \in 1..(next + 1)
                   PROVE  table'[i - 1] = IF i = next + 1 THEN e ELSE table[i - 1]
        BY <3>1, <3>2
      <4>1. CASE i = next + 1
        <5>1. i - 1 = next
          BY <1>0, <4>1
        <5> QED
          BY <2>2, <4>1, <5>1
      <4>2. CASE i # next + 1
        <5>1. i - 1 \in 0..(next - 1)
          BY <1>0, <4>2
        <5> QED
          BY <1>0, <2>2, <4>2, <5>1
      <4> QED
        BY <4>1, <4>2
    <3> QED
      BY <3>1, <3>2, <3>3, SeqEqual
  <2>4. \A i \in 1..Len(Rows) : Rows[i] # e
    BY <1>3, RowsSeq DEF RowAdded, Stored
  <2>5. Seen' \in {Seen, Seen \cup {<<Len(Rows) + 1, e>>}}
    <3>1. CASE frames' = frames
      BY <3>1 DEF Seen
    <3>2. CASE frames' = Frame(next, e)
      BY <3>2, RowsSeq, FrameShows
    <3> QED
      BY <1>3, <3>1, <3>2 DEF RowAdded
  <2>6. Log!Record(e)
    BY <2>3, <2>4, <2>5 DEF Log!Record, Rows, Seen
  <2> QED
    BY <2>6 DEF Log!Next
<1>4. ASSUME Next, NEW n \in {1, 2}, OwnRows(n)
      PROVE  [Log!Next]_<<Rows, Seen>>
  <2>1. TypeOK'
    BY <1>4, NextType
  <2>2. /\ next' = next + n
        /\ \A s \in DOMAIN table' : s >= next => table'[s] = Own
        /\ \A s \in DOMAIN table : table'[s] = table[s]
    BY <1>4, OwnAppends
  <2> DEFINE new == IF n = 1 THEN <<Own>> ELSE <<Own, Own>>
  <2>3. /\ new \in Seq(WorkerEvents \cup {Own}) /\ Len(new) = n
        /\ \A i \in 1..n : new[i] = Own
    <3>1. CASE n = 1
      BY <3>1
    <3>2. CASE n = 2
      BY <3>2
    <3> QED
      BY <3>1, <3>2
  <2> HIDE DEF new
  <2>4. Rows' = Rows \o new
    <3>1. /\ Rows' \in Seq(WorkerEvents \cup {Own}) /\ Len(Rows') = next + n
          /\ \A i \in 1..(next + n) : Rows'[i] = table'[i - 1] /\ i - 1 \in DOMAIN table'
      BY <2>1, <2>2, NextRowsSeq
    <3>2. /\ Rows \o new \in Seq(WorkerEvents \cup {Own})
          /\ Len(Rows \o new) = next + n
          /\ \A i \in 1..(next + n) :
               (Rows \o new)[i] = IF i <= next THEN Rows[i] ELSE new[i - next]
      BY <1>0, <2>3, RowsSeq, ConcatProperties
    <3>3. \A i \in 1..(next + n) : (Rows \o new)[i] = IF i <= next THEN table[i - 1] ELSE Own
      BY <1>0, <2>3, <3>2, RowsSeq
    <3>4. \A i \in 1..(next + n) : Rows'[i] = (Rows \o new)[i]
      <4> SUFFICES ASSUME NEW i \in 1..(next + n)
                   PROVE  table'[i - 1] = IF i <= next THEN table[i - 1] ELSE Own
        BY <3>1, <3>3
      <4>1. CASE i <= next
        <5>1. i - 1 \in 0..(next - 1)
          BY <1>0, <4>1
        <5> QED
          BY <1>0, <2>2, <4>1, <5>1
      <4>2. CASE ~(i <= next)
        <5>1. i - 1 \in DOMAIN table' /\ i - 1 >= next
          BY <1>0, <3>1, <4>2
        <5> QED
          BY <2>2, <4>2, <5>1
      <4> QED
        BY <4>1, <4>2
    <3> QED
      BY <3>1, <3>2, <3>4, SeqEqual
  <2>5. Seen' = Seen
    BY <1>4 DEF OwnRows, Seen
  <2>6. Log!RecordOwn
    BY <2>4, <2>5 DEF Log!RecordOwn, Rows, Seen, new
  <2> QED
    BY <2>6 DEF Log!Next
<1> QED
  BY <1>1, <1>2, <1>3, <1>4, RowSteps

\* The rows of a thread and the frames relayed from them implement the log its
\* readers are promised: append-only, without gaps, a worker's event once, and
\* every frame at the place of its event.
THEOREM Implements == Spec => LogSpec
<1>1. Init => Log!Init
  BY LogInit DEF Log!Init, Rows, Seen
<1>2. Inv /\ [Next]_vars => [Log!Next]_<<Rows, Seen>>
  BY LogStep
<1> QED
  BY <1>1, <1>2, Invariance, PTL DEF Spec, LogSpec, Log!Spec, Rows, Seen

-----------------------------------------------------------------------------
(* The order of the rows.                                                  *)

\* What the retries of the forwarder leave in the stream: an entry of the call in
\* progress has before it all events of the call up to its own that the stream
\* did not refuse, ...
Batched ==
  \A i \in 1..Len(stream) :
    /\ stream[i] <= emitted
    /\ \A e \in (settled + 1)..stream[i] :
         e \in refused \/ \E k \in 1..i : stream[k] = e

\* ... and an event that comes after a later one was refused or came before it
\* as well.
Replayed ==
  \A i, j \in 1..Len(stream) :
    i < j /\ stream[j] < stream[i] =>
      stream[j] \in refused \/ \E k \in 1..i : stream[k] = stream[j]

\* Nothing is left to do for the event.
Done(e) == e \in Poison \/ Stored(e)

\* While nothing has failed, the dead letters are the poison pills, ...
OnlyPoison ==
  /\ letters \subseteq Poison
  /\ \A c \in Consumers : pc[c] \notin {"letter", "letterack", "lost"}

\* ... the loop has in hand what is not done of all it was given, ...
LoopHas == \A j \in 1..delivered : j \in todo[Loop] \/ Done(stream[j])

\* ... every consumer has what is not done before its entries, ...
AllBefore ==
  \A c \in Consumers : \A i \in todo[c] : \A j \in 1..i : j \in todo[c] \/ Done(stream[j])

\* ... and an event is not stored before an earlier one that has landed, unless
\* the stream had refused it.
Downward ==
  \A i, j \in 1..Len(stream) :
    stream[j] < stream[i] /\ Stored(stream[i]) => stream[j] \in refused \/ Done(stream[j])

Ascending ==
  \A s, u \in DOMAIN table :
    s < u /\ table[s] # Own /\ table[u] # Own /\ table[u] \notin refused
      => table[s] < table[u]

\* Rows come from the stream.
FromStream ==
  \A s \in DOMAIN table : table[s] # Own => \E i \in 1..Len(stream) : stream[i] = table[s]

NoFault == faults = 0 /\ crashes = 0

\* The loop reads when its hands are empty.
Resting == pc[Loop] \in {"rest", "polling"} => todo[Loop] = {}

Orderly == OnlyPoison /\ Resting /\ LoopHas /\ AllBefore /\ Downward /\ Ascending

OrderInv == Inv /\ Batched /\ Replayed /\ FromStream /\ (NoFault => Orderly)

LEMMA Events ==
  ASSUME TypeOK
  PROVE  /\ Len(stream) \in Nat /\ settled \in Nat /\ emitted \in Nat /\ settled <= emitted
         /\ delivered \in 0..Len(stream)
         /\ \A i \in 1..Len(stream) : stream[i] \in WorkerEvents /\ stream[i] \in Nat
         /\ \A e \in WorkerEvents : e # Own
<1>1. /\ stream \in Seq(WorkerEvents) /\ Len(stream) \in Nat
  BY LenProperties DEF TypeOK
<1>2. WorkerEvents \subseteq Nat /\ \A e \in WorkerEvents : e # Own
  BY IngestAssumption DEF WorkerEvents, Own
<1>3. \A i \in 1..Len(stream) : stream[i] \in WorkerEvents
  BY <1>1, ElementOfSeq
<1>4. settled \in Nat /\ emitted \in Nat /\ settled <= emitted /\ delivered \in 0..Len(stream)
  BY IngestAssumption DEF TypeOK
<1> QED
  BY <1>1, <1>2, <1>3, <1>4

LEMMA Later == \A a, b, c \in Nat : a <= b => (b + 1)..c \subseteq (a + 1)..c
OBVIOUS

\* Only the worker writes the stream.
LEMMA Idle ==
  ASSUME Next
  PROVE  Worker \/ UNCHANGED workerVars
<1>1. ASSUME NEW c \in Consumers, Entry(c)
      PROVE  UNCHANGED workerVars
  BY <1>1 DEF Entry, Reject, Reshow, Store, Ack, Letter, ProcessFails, AckFails, LetterFails
<1>2. CASE Poll \/ Deliver \/ ReadFails \/ \E d \in Drains : Drain(d)
  BY <1>2 DEF Poll, Deliver, ReadFails, Drain, Claim, ClaimFails
<1>3. CASE BackendStep
  BY <1>3 DEF BackendStep, OwnRows, Unregister, Park, Register, Dies, Crash, CrashAfterCommit, Boot
<1> QED
  BY Steps, <1>1, <1>2, <1>3

\* The forwarder keeps the shape of the stream; the others leave it alone.
LEMMA StreamStep ==
  ASSUME TypeOK, Batched, Replayed, Next
  PROVE  Batched' /\ Replayed'
<1>0. /\ Len(stream) \in Nat /\ settled \in Nat /\ emitted \in Nat /\ settled <= emitted
      /\ \A i \in 1..Len(stream) : stream[i] \in Nat
  BY Events
<1>1. ASSUME UNCHANGED <<stream, refused>>, settled' = settled, emitted' \in Nat,
             emitted <= emitted'
      PROVE  Batched' /\ Replayed'
  <2>1. Batched'
    BY <1>0, <1>1 DEF Batched
  <2> QED
    BY <1>1, <2>1 DEF Replayed
<1>2. ASSUME NEW part \in Landings, stream' = stream \o part,
             refused' = refused \cup Holes(part),
             settled' \in {settled, emitted}, emitted' = emitted
      PROVE  Batched' /\ Replayed'
  <2> DEFINE n == Len(stream)
             p == Len(part)
  <2>1. /\ n \in Nat /\ p \in Nat /\ DOMAIN part = 1..p
        /\ Len(stream') = n + p
        /\ \A i \in 1..n : stream'[i] = stream[i]
        /\ \A k \in 1..p : stream'[n + k] = part[k]
        /\ \A k \in 1..p : part[k] \in (settled + 1)..emitted
        /\ \A i, j \in 1..p : i < j => part[i] < part[j]
    BY <1>0, <1>2, PartShape, PartAppends DEF Batch
  <2>a. settled' \in Nat /\ settled <= settled'
    BY <1>0, <1>2
  <2> HIDE DEF n, p
  <2>2. \A i \in 1..Len(stream') : i \in 1..n \/ \E k \in 1..p : i = n + k
    <3> TAKE i \in 1..Len(stream')
    <3>1. CASE i > n
      <4>1. i - n \in 1..p /\ i = n + (i - n)
        BY <2>1, <3>1
      <4> QED
        BY <4>1
    <3>2. CASE ~(i > n)
      BY <2>1, <3>2
    <3> QED
      BY <2>1, <3>1, <3>2
  <2>b. ASSUME NEW i \in 1..Len(stream')
        PROVE  stream'[i] \in Nat
    <3>1. CASE i \in 1..n
      <4>1. stream'[i] = stream[i]
        BY <2>1, <3>1
      <4> QED
        BY <1>0, <3>1, <4>1 DEF n
    <3>2. ASSUME NEW k \in 1..p, i = n + k
          PROVE  stream'[i] \in Nat
      <4>1. stream'[i] = part[k] /\ part[k] \in (settled + 1)..emitted
        BY <2>1, <3>2
      <4> QED
        BY <1>0, <4>1
    <3> QED
      BY <2>2, <3>1, <3>2
  <2>c. ASSUME NEW k \in 1..p, NEW e \in (settled + 1)..part[k], e \notin refused'
        PROVE  \E q \in 1..k : part[q] = e
    <3>1. e \in Batch /\ e <= part[k] /\ part[k] \in Nat
      BY <1>0, <2>1, <2>c DEF Batch
    <3>2. CASE e = part[k]
      BY <2>1, <3>2
    <3>3. CASE e # part[k]
      <4>1. e < part[k]
        BY <1>0, <3>1, <3>3 DEF Batch
      <4>2. PICK q \in 1..p : part[q] = e
        BY <1>2, <2>1, <2>c, <3>1, <4>1 DEF Holes
      <4>3. ~(k < q)
        BY <2>1, <3>1, <4>1, <4>2 DEF Batch
      <4> QED
        BY <2>1, <4>2, <4>3
    <3> QED
      BY <3>2, <3>3
  <2>3. ASSUME NEW i \in 1..Len(stream')
        PROVE  /\ stream'[i] <= emitted
               /\ \A e \in (settled' + 1)..stream'[i] :
                    e \in refused' \/ \E k \in 1..i : stream'[k] = e
    <3>0. (settled' + 1)..stream'[i] \subseteq (settled + 1)..stream'[i]
      BY <1>0, <2>a, <2>b, Later
    <3>1. CASE i \in 1..n
      <4>1. stream'[i] = stream[i] /\ stream[i] <= emitted
        BY <1>0, <2>1, <3>1 DEF Batched, n
      <4>2. ASSUME NEW e \in (settled' + 1)..stream'[i], e \notin refused'
            PROVE  \E k \in 1..i : stream'[k] = e
        <5>1. e \in (settled + 1)..stream[i] /\ e \notin refused
          BY <1>2, <3>0, <4>1, <4>2
        <5>2. PICK k \in 1..i : stream[k] = e
          BY <3>1, <5>1 DEF Batched, n
        <5>3. k \in 1..n
          BY <2>1, <3>1
        <5> QED
          BY <2>1, <5>2, <5>3
      <4> QED
        BY <4>1, <4>2
    <3>2. ASSUME NEW m \in 1..p, i = n + m
          PROVE  /\ stream'[i] <= emitted
                 /\ \A e \in (settled' + 1)..stream'[i] :
                      e \in refused' \/ \E k \in 1..i : stream'[k] = e
      <4>1. stream'[i] = part[m] /\ part[m] <= emitted
        BY <1>0, <2>1, <3>2
      <4>2. ASSUME NEW e \in (settled' + 1)..stream'[i], e \notin refused'
            PROVE  \E k \in 1..i : stream'[k] = e
        <5>1. e \in (settled + 1)..part[m]
          BY <3>0, <4>1
        <5>2. PICK q \in 1..m : part[q] = e
          BY <2>c, <4>2, <5>1
        <5>3. q \in 1..p /\ n + q \in 1..i
          BY <2>1, <3>2
        <5> QED
          BY <2>1, <5>2, <5>3
      <4> QED
        BY <4>1, <4>2
    <3> QED
      BY <2>2, <3>1, <3>2
  <2>4. ASSUME NEW i \in 1..Len(stream'), NEW j \in 1..Len(stream'), i < j,
               stream'[j] < stream'[i], stream'[j] \notin refused'
        PROVE  \E k \in 1..i : stream'[k] = stream'[j]
    <3>0. stream'[j] \notin refused
      BY <1>2, <2>4
    <3>1. CASE j \in 1..n
      <4>1. i \in 1..n
        BY <2>1, <2>4, <3>1
      <4>2. PICK k \in 1..i : stream[k] = stream[j]
        BY <2>1, <2>4, <3>0, <3>1, <4>1 DEF Replayed, n
      <4>3. k \in 1..n
        BY <2>1, <4>1
      <4> QED
        BY <2>1, <3>1, <4>2, <4>3
    <3>2. ASSUME NEW m \in 1..p, j = n + m
          PROVE  \E k \in 1..i : stream'[k] = stream'[j]
      <4>1. stream'[j] = part[m] /\ part[m] \in (settled + 1)..emitted
        BY <2>1, <3>2
      <4>2. CASE i \in 1..n
        <5>1. stream'[i] = stream[i] /\ stream[i] \in Nat
          BY <1>0, <2>1, <4>2 DEF n
        <5>2. stream'[j] \in (settled + 1)..stream[i]
          BY <1>0, <2>4, <4>1, <5>1
        <5>3. PICK k \in 1..i : stream[k] = stream'[j]
          BY <3>0, <4>2, <5>2 DEF Batched, n
        <5>4. k \in 1..n
          BY <2>1, <4>2
        <5> QED
          BY <2>1, <5>3, <5>4
      <4>3. ASSUME NEW q \in 1..p, i = n + q
            PROVE  FALSE
        <5>1. stream'[i] = part[q] /\ part[q] \in Nat /\ part[m] \in Nat
          BY <1>0, <2>1, <4>3
        <5>2. q < m
          BY <2>1, <2>4, <3>2, <4>3
        <5>3. part[q] < part[m]
          BY <2>1, <5>2
        <5> QED
          BY <2>4, <4>1, <5>1, <5>3
      <4> QED
        BY <2>2, <4>2, <4>3
    <3> QED
      BY <2>2, <3>1, <3>2
  <2>5. Batched'
    BY <1>2, <2>3 DEF Batched
  <2> QED
    BY <2>4, <2>5 DEF Replayed
<1>3. CASE Emit
  BY <1>0, <1>1, <1>3, IngestAssumption DEF Emit
<1>4. CASE PublishOk
  <2>1. InFull \in Landings /\ refused' = refused \cup Holes(InFull)
    BY <1>4, FullShape DEF PublishOk
  <2> QED
    BY <1>2, <1>4, <2>1 DEF PublishOk
<1>5. CASE PublishFails
  BY <1>2, <1>5 DEF PublishFails
<1>6. CASE UNCHANGED workerVars
  BY <1>0, <1>1, <1>6 DEF workerVars
<1>7. Worker \/ UNCHANGED workerVars
  BY Idle
<1> QED
  BY <1>3, <1>4, <1>5, <1>6, <1>7 DEF Worker

-----------------------------------------------------------------------------
\* The steps in which no call fails and the backend does not crash.
CalmStep ==
  \/ Worker
  \/ Poll \/ Deliver \/ \E d \in Drains : Claim(d) \/ Unregister(d)
  \/ \E c \in Consumers : Reject(c) \/ Reshow(c) \/ Store(c) \/ Ack(c) \/ Letter(c)
  \/ \E n \in {1, 2} : OwnRows(n)
  \/ Park \/ Register \/ Boot

LEMMA Calm ==
  ASSUME TypeOK, Next, NoFault'
  PROVE  NoFault /\ CalmStep
<1>1. faults \in Nat /\ crashes \in Nat /\ faults' = 0 /\ crashes' = 0
  BY IngestAssumption DEF TypeOK, NoFault
<1>2. ~Fault /\ ~Dies
  BY <1>1 DEF Fault, Dies
<1>3. ~ReadFails /\ \A d \in Drains : ~ClaimFails(d)
  BY <1>2 DEF ReadFails, ClaimFails
<1>4. \A c \in Consumers :
        ~ProcessFails(c) /\ ~AckFails(c) /\ ~LetterFails(c) /\ ~CrashAfterCommit(c)
  BY <1>2 DEF ProcessFails, AckFails, LetterFails, CrashAfterCommit
<1>5. CalmStep
  BY <1>2, <1>3, <1>4 DEF Next, CalmStep, Entry, Drain, Crash
<1>6. UNCHANGED <<faults, crashes>>
  <2>1. CASE Worker
    BY <2>1 DEF Worker, Emit, PublishOk, PublishFails, consumerVars, bounds
  <2>2. CASE Poll \/ Deliver \/ \E d \in Drains : Claim(d) \/ Unregister(d)
    BY <2>2 DEF Poll, Deliver, Claim, Unregister, bounds
  <2>3. CASE \E c \in Consumers : Reject(c) \/ Reshow(c) \/ Store(c) \/ Ack(c) \/ Letter(c)
    BY <2>3 DEF Reject, Reshow, Store, Ack, Letter, bounds
  <2>4. CASE (\E n \in {1, 2} : OwnRows(n)) \/ Park \/ Register \/ Boot
    BY <2>4 DEF OwnRows, Park, Register, Boot, consumerVars, bounds
  <2> QED
    BY <1>5, <2>1, <2>2, <2>3, <2>4 DEF CalmStep
<1> QED
  BY <1>1, <1>5, <1>6 DEF NoFault

\* What a calm step does with the entries the consumers have in hand.
LEMMA HandSteps ==
  ASSUME Inv, OnlyPoison, Resting, CalmStep
  PROVE  \/ UNCHANGED <<todo, delivered>>
         \/ /\ todo[Loop] = {} /\ delivered' = Len(stream) /\ UNCHANGED stream
            /\ todo' = [todo EXCEPT ![Loop] = (delivered + 1)..Len(stream)]
         \/ /\ UNCHANGED delivered
            /\ \E d \in Drains : todo' = [todo EXCEPT ![d] = pel]
         \/ /\ UNCHANGED delivered
            /\ \E c \in Consumers : \E i \in todo[c] :
                 Done(stream[i]) /\ todo' = [todo EXCEPT ![c] = @ \ {i}]
<1>1. CASE Worker
  BY <1>1 DEF Worker, Emit, PublishOk, PublishFails, consumerVars, groupVars
<1>2. CASE Poll \/ \E d \in Drains : Claim(d) \/ Unregister(d)
  BY <1>2 DEF Poll, Claim, Unregister, Goto, groupVars
<1>3. CASE Deliver
  BY <1>3 DEF Deliver, Give, Resting, workerVars
<1>4. ASSUME NEW c \in Consumers, Reject(c) \/ Reshow(c) \/ Store(c) \/ Letter(c)
      PROVE  UNCHANGED <<todo, delivered>>
  BY <1>4 DEF Reject, Reshow, Store, Letter, Goto, groupVars
<1>5. ASSUME NEW c \in Consumers, Ack(c)
      PROVE  /\ UNCHANGED delivered
             /\ \E i \in todo[c] :
                  Done(stream[i]) /\ todo' = [todo EXCEPT ![c] = @ \ {i}]
  <2>1. PICK i \in todo[c] : At(c, i) /\ Leave(c, i)
    BY <1>5 DEF Ack
  <2>2. Recorded(stream[i])
    BY <1>5, <2>1 DEF Ack, Inv, InHand
  <2> QED
    BY <1>5, <2>1, <2>2 DEF Ack, Leave, Recorded, Done, OnlyPoison
<1>6. CASE (\E n \in {1, 2} : OwnRows(n)) \/ Park \/ Register \/ Boot
  BY <1>6 DEF OwnRows, Park, Register, Boot, consumerVars, groupVars
<1> QED
  BY <1>1, <1>2, <1>3, <1>4, <1>5, <1>6 DEF CalmStep

\* Where consumers go, and what becomes a dead letter, in a calm step.
LEMMA PlaceStep ==
  ASSUME TypeOK, OnlyPoison, Resting, CalmStep
  PROVE  OnlyPoison' /\ Resting'
<1>t. /\ DOMAIN pc = Consumers /\ DOMAIN todo = Consumers
      /\ Loop \in Consumers /\ Loop \notin Drains /\ Drains \subseteq Consumers
  BY IngestAssumption DEF TypeOK, Consumers
<1>1. ASSUME UNCHANGED <<pc, todo>>, letters' \subseteq Poison
      PROVE  OnlyPoison' /\ Resting'
  BY <1>1 DEF OnlyPoison, Resting
<1>2. ASSUME NEW x \in Consumers, NEW to, Goto(x, to), letters' \subseteq Poison,
             to \notin {"letter", "letterack", "lost"},
             x = Loop => to \notin {"rest", "polling"} \/ pc[x] = "rest"
      PROVE  OnlyPoison' /\ Resting'
  BY <1>t, <1>2 DEF Goto, OnlyPoison, Resting
<1>3. CASE Worker
  BY <1>1, <1>3 DEF Worker, Emit, PublishOk, PublishFails, consumerVars, OnlyPoison
<1>4. CASE Poll
  BY <1>t, <1>2, <1>4 DEF Poll, OnlyPoison
<1>5. CASE Deliver
  <2>1. Len(stream) \in Nat /\ delivered \in 0..Len(stream)
    BY Events
  <2>2. ~(delivered < Len(stream)) => (delivered + 1)..Len(stream) = {}
    BY <2>1
  <2>3. /\ pc' = [pc EXCEPT ![Loop] = IF delivered < Len(stream) THEN "run" ELSE "rest"]
        /\ todo' = [todo EXCEPT ![Loop] = (delivered + 1)..Len(stream)]
        /\ UNCHANGED letters
    BY <1>5 DEF Deliver
  <2>4. OnlyPoison'
    BY <1>t, <2>3 DEF OnlyPoison
  <2>5. Resting'
    BY <1>t, <2>2, <2>3 DEF Resting
  <2> QED
    BY <2>4, <2>5
<1>6. ASSUME NEW d \in Drains, Claim(d)
      PROVE  OnlyPoison' /\ Resting'
  BY <1>t, <1>6 DEF Claim, OnlyPoison, Resting
<1>7. ASSUME NEW d \in Drains, Unregister(d)
      PROVE  OnlyPoison' /\ Resting'
  BY <1>t, <1>2, <1>7 DEF Unregister, OnlyPoison
<1>8. ASSUME NEW c \in Consumers, Reject(c)
      PROVE  OnlyPoison' /\ Resting'
  <2>1. letters' \subseteq Poison
    BY <1>8 DEF Reject, OnlyPoison
  <2> QED
    BY <1>2, <1>8, <2>1 DEF Reject
<1>9. ASSUME NEW c \in Consumers, Reshow(c) \/ Store(c)
      PROVE  OnlyPoison' /\ Resting'
  BY <1>2, <1>9 DEF Reshow, Store, OnlyPoison
<1>10. ASSUME NEW c \in Consumers, Letter(c)
       PROVE  FALSE
  BY <1>10 DEF Letter, OnlyPoison
<1>11. ASSUME NEW c \in Consumers, Ack(c)
       PROVE  OnlyPoison' /\ Resting'
  <2>1. PICK i \in todo[c] : Leave(c, i)
    BY <1>11 DEF Ack
  <2>2. UNCHANGED letters
    BY <1>11 DEF Ack
  <2> QED
    BY <1>t, <2>1, <2>2 DEF Leave, OnlyPoison, Resting
<1>12. CASE (\E n \in {1, 2} : OwnRows(n)) \/ Park \/ Register \/ Boot
  BY <1>1, <1>12 DEF OwnRows, Park, Register, Boot, consumerVars, OnlyPoison
<1> QED
  BY <1>3, <1>4, <1>5, <1>6, <1>7, <1>8, <1>9, <1>10, <1>11, <1>12 DEF CalmStep

\* What is done stays done.
LEMMA DoneKept ==
  ASSUME Grows, NEW j \in 1..Len(stream), Done(stream[j])
  PROVE  Done(stream[j])'
<1>1. stream'[j] = stream[j]
  BY DEF Grows
<1> QED
  BY <1>1 DEF Grows, Done, Stored

LEMMA HandsStep ==
  ASSUME Inv, Grows, OnlyPoison, Resting, LoopHas, AllBefore, CalmStep
  PROVE  LoopHas' /\ AllBefore'
<1>0. /\ Len(stream) \in Nat /\ delivered \in 0..Len(stream) /\ pel \subseteq 1..delivered
      /\ DOMAIN todo = Consumers /\ Loop \in Consumers /\ Loop \notin Drains
      /\ Drains \subseteq Consumers
      /\ \A c \in Consumers : todo[c] \subseteq 1..delivered
  BY Events, IngestAssumption DEF Inv, TypeOK, Consumers
<1>1. \A j \in 1..Len(stream) : Done(stream[j]) => Done(stream[j])'
  BY DoneKept
<1>2. /\ \A j \in 1..delivered : j \in 1..Len(stream)
      /\ \A c \in Consumers : \A i \in todo[c] : \A j \in 1..i : j \in 1..Len(stream)
  BY <1>0
\* A consumer's new entries have all before them that is not done.
<1>3. ASSUME NEW c \in Consumers,
             \A x \in Consumers : x # c => todo'[x] = todo[x],
             \A i \in todo'[c] : \A j \in 1..i : j \in todo'[c] \/ Done(stream[j])'
      PROVE  AllBefore'
  <2> SUFFICES ASSUME NEW x \in Consumers, x # c,
                      NEW i \in todo[x], NEW j \in 1..i, j \notin todo[x]
               PROVE  Done(stream[j])'
    BY <1>3 DEF AllBefore
  <2>1. Done(stream[j])
    BY DEF AllBefore
  <2> QED
    BY <1>1, <1>2, <2>1
<1>4. CASE UNCHANGED <<todo, delivered>>
  <2>1. LoopHas'
    BY <1>1, <1>2, <1>4 DEF LoopHas
  <2>2. \A i \in todo'[Loop] : \A j \in 1..i : j \in todo'[Loop] \/ Done(stream[j])'
    BY <1>0, <1>1, <1>2, <1>4 DEF AllBefore
  <2> QED
    BY <1>0, <1>3, <1>4, <2>1, <2>2
<1>5. CASE /\ todo[Loop] = {} /\ delivered' = Len(stream) /\ UNCHANGED stream
           /\ todo' = [todo EXCEPT ![Loop] = (delivered + 1)..Len(stream)]
  <2>1. /\ todo'[Loop] = (delivered + 1)..Len(stream)
        /\ \A x \in Consumers : x # Loop => todo'[x] = todo[x]
    BY <1>0, <1>5
  <2>2. \A j \in 1..Len(stream) : j \in todo'[Loop] \/ j \in 1..delivered
    BY <1>0, <2>1
  <2>3. \A j \in 1..Len(stream) : j \in todo'[Loop] \/ Done(stream[j])'
    BY <1>1, <1>2, <1>5, <2>2 DEF LoopHas
  <2>4. LoopHas'
    BY <1>5, <2>3 DEF LoopHas
  <2>5. \A i \in todo'[Loop] : \A j \in 1..i : j \in 1..Len(stream)
    BY <1>0, <2>1
  <2> QED
    BY <1>0, <1>3, <2>1, <2>3, <2>4, <2>5
<1>6. ASSUME NEW d \in Drains, todo' = [todo EXCEPT ![d] = pel], UNCHANGED delivered
      PROVE  LoopHas' /\ AllBefore'
  <2>1. todo'[d] = pel /\ \A x \in Consumers : x # d => todo'[x] = todo[x]
    BY <1>0, <1>6
  <2>2. LoopHas'
    BY <1>0, <1>1, <1>2, <1>6, <2>1 DEF LoopHas
  <2>3. \A j \in 1..delivered : j \in pel \/ Done(stream[j])
    BY DEF Inv, AckedIsRecorded, Recorded, Done, OnlyPoison
  <2>4. \A i \in pel : \A j \in 1..i : j \in 1..delivered
    BY <1>0
  <2> QED
    BY <1>0, <1>1, <1>2, <1>3, <2>1, <2>2, <2>3, <2>4
<1>7. ASSUME NEW c \in Consumers, NEW i \in todo[c], Done(stream[i]),
             todo' = [todo EXCEPT ![c] = @ \ {i}], UNCHANGED delivered
      PROVE  LoopHas' /\ AllBefore'
  <2>1. todo'[c] = todo[c] \ {i} /\ \A x \in Consumers : x # c => todo'[x] = todo[x]
    BY <1>0, <1>7
  <2>2. i \in 1..Len(stream) /\ Done(stream[i])'
    BY <1>0, <1>1, <1>2, <1>7
  <2>3. ASSUME NEW j \in 1..delivered, j \notin todo'[Loop]
        PROVE  Done(stream[j])'
    <3>1. CASE j = i
      BY <2>2, <3>1
    <3>2. CASE j # i
      <4>1. j \notin todo[Loop]
        BY <1>0, <2>1, <2>3, <3>2
      <4> QED
        BY <1>1, <1>2, <4>1 DEF LoopHas
    <3> QED
      BY <3>1, <3>2
  <2>4. LoopHas'
    BY <1>7, <2>3 DEF LoopHas
  <2>5. ASSUME NEW k \in todo'[c], NEW j \in 1..k, j \notin todo'[c]
        PROVE  Done(stream[j])'
    <3>1. k \in todo[c]
      BY <2>1, <2>5
    <3>2. CASE j = i
      BY <2>2, <3>2
    <3>3. CASE j # i
      <4>1. j \notin todo[c]
        BY <2>1, <2>5, <3>3
      <4>2. Done(stream[j])
        BY <3>1, <4>1 DEF AllBefore
      <4> QED
        BY <1>1, <1>2, <3>1, <4>2
    <3> QED
      BY <3>2, <3>3
  <2>6. AllBefore'
    BY <1>3, <2>1, <2>5
  <2> QED
    BY <2>4, <2>6
<1> QED
  BY HandSteps, <1>4, <1>5, <1>6, <1>7

-----------------------------------------------------------------------------
\* How a step treats stream and rows: one of the two grows, or none.
LEMMA AddSteps ==
  ASSUME TypeOK, Next
  PROVE  \/ UNCHANGED table
         \/ /\ UNCHANGED stream
            /\ \E n \in {1, 2} : OwnRows(n)
         \/ /\ UNCHANGED stream
            /\ \E c \in Consumers : \E i \in todo[c] :
                 /\ At(c, i) /\ stream[i] \notin Poison /\ ~Stored(stream[i])
                 /\ Insert(stream[i])
<1> USE DEF storeVars, consumerVars
<1>1. CASE Worker
  BY <1>1 DEF Worker, Emit, PublishOk, PublishFails
<1>2. CASE Poll \/ Deliver \/ ReadFails \/ \E d \in Drains : Drain(d)
  BY <1>2 DEF Poll, Deliver, ReadFails, Drain, Claim, ClaimFails
<1>3. ASSUME NEW c \in Consumers, Entry(c)
      PROVE  \/ UNCHANGED table
             \/ /\ UNCHANGED stream
                /\ \E i \in todo[c] :
                     /\ At(c, i) /\ stream[i] \notin Poison /\ ~Stored(stream[i])
                     /\ Insert(stream[i])
  <2>1. CASE Store(c)
    BY <2>1 DEF Store, workerVars
  <2>2. CASE ~Store(c)
    BY <1>3, <2>2 DEF Entry, Reject, Reshow, Ack, Letter, ProcessFails, AckFails, LetterFails
  <2> QED
    BY <2>1, <2>2
<1>4. CASE BackendStep
  <2>1. ASSUME NEW c \in Consumers, CrashAfterCommit(c)
        PROVE  /\ UNCHANGED stream
               /\ \E i \in todo[c] :
                    /\ At(c, i) /\ stream[i] \notin Poison /\ ~Stored(stream[i])
                    /\ Insert(stream[i])
    BY <2>1 DEF CrashAfterCommit, Dies, workerVars
  <2>2. ASSUME NEW n \in {1, 2}, OwnRows(n)
        PROVE  UNCHANGED stream
    BY <2>2 DEF OwnRows, workerVars
  <2> QED
    BY <1>4, <2>1, <2>2 DEF BackendStep, Unregister, Park, Register, Crash, Boot
<1> QED
  BY Steps, <1>1, <1>2, <1>3, <1>4

\* The backend's own rows stand for no event.
LEMMA OwnStores ==
  ASSUME TypeOK, NEW n \in {1, 2}, OwnRows(n)
  PROVE  \A s \in DOMAIN table' :
           table'[s] # Own => s \in DOMAIN table /\ table'[s] = table[s]
<1>1. /\ next \in Nat /\ DOMAIN table = 0..(next - 1)
  BY DEF TypeOK
<1>2. /\ next' \in Nat /\ DOMAIN table' = 0..(next' - 1)
      /\ \A s \in DOMAIN table' : s >= next => table'[s] = Own
      /\ \A s \in DOMAIN table : table'[s] = table[s]
  BY OwnAppends
<1>3. \A s \in DOMAIN table' : s >= next \/ s \in DOMAIN table
  BY <1>1, <1>2
<1> QED
  BY <1>2, <1>3

LEMMA Longer ==
  ASSUME TypeOK, TypeOK', Grows
  PROVE  \A i \in 1..Len(stream) : i \in 1..Len(stream') /\ stream'[i] = stream[i]
<1>1. Len(stream) \in Nat /\ Len(stream') \in Nat
  BY LenProperties DEF TypeOK
<1> QED
  BY <1>1 DEF Grows

LEMMA FromStreamStep ==
  ASSUME TypeOK, TypeOK', Grows, FromStream, Next
  PROVE  FromStream'
<1>1. \A s \in DOMAIN table : table[s] # Own =>
        \E i \in 1..Len(stream') : stream'[i] = table[s]
  BY Longer DEF FromStream
<1>2. CASE UNCHANGED table
  BY <1>1, <1>2 DEF FromStream
<1>3. ASSUME NEW n \in {1, 2}, OwnRows(n)
      PROVE  FromStream'
  BY <1>1, <1>3, OwnStores DEF FromStream
<1>4. ASSUME NEW c \in Consumers, NEW i \in todo[c], Insert(stream[i])
      PROVE  FromStream'
  <2>1. i \in 1..Len(stream') /\ stream'[i] = stream[i]
    BY EntryIsEvent, Longer
  <2>2. \A s \in DOMAIN table' : s \in DOMAIN table \/ table'[s] = stream[i]
    BY <1>4 DEF Insert
  <2>3. \A s \in DOMAIN table : table'[s] = table[s]
    BY DEF Grows
  <2> QED
    BY <1>1, <2>1, <2>2, <2>3 DEF FromStream
<1> QED
  BY AddSteps, <1>2, <1>3, <1>4

LEMMA RefusedKept ==
  ASSUME Next
  PROVE  refused \subseteq refused'
<1>1. Worker \/ UNCHANGED workerVars
  BY Idle
<1> QED
  BY <1>1 DEF Worker, Emit, PublishOk, PublishFails, workerVars

\* An event is stored or an earlier one is landed again: the earlier one is done,
\* unless the stream had refused it.
LEMMA DownwardStep ==
  ASSUME Inv, TypeOK', Grows, Replayed, Replayed', FromStream, AllBefore, Downward, Next
  PROVE  Downward'
<1> USE DEF Inv
<1>0. /\ Len(stream) \in Nat /\ \A e \in WorkerEvents : e # Own
      /\ \A i \in 1..Len(stream) : stream[i] \in WorkerEvents /\ stream[i] \in Nat
  BY Events
<1>1. /\ \A j \in 1..Len(stream) : Done(stream[j]) => Done(stream[j])'
      /\ refused \subseteq refused'
  BY DoneKept, RefusedKept
<1>2. CASE UNCHANGED table
  <2> SUFFICES ASSUME NEW i \in 1..Len(stream'), NEW j \in 1..Len(stream'),
                      stream'[j] < stream'[i], Stored(stream[i])', stream'[j] \notin refused'
               PROVE  Done(stream[j])'
    BY DEF Downward
  <2>1. /\ Len(stream') \in Nat /\ stream'[i] \in WorkerEvents
    BY LenProperties, ElementOfSeq DEF TypeOK
  <2>2. PICK a \in 1..Len(stream) : stream[a] = stream'[i] /\ Stored(stream[a])
    BY <1>0, <1>2, <2>1 DEF FromStream, Stored
  <2>3. \A k \in 1..Len(stream) : k \in 1..Len(stream') /\ stream'[k] = stream[k]
    BY Longer
  <2>4. \E k \in 1..Len(stream) : stream[k] = stream'[j]
    <3>1. CASE j \in 1..Len(stream)
      BY <2>3, <3>1
    <3>2. CASE j \notin 1..Len(stream)
      <4>1. a < j
        BY <1>0, <2>1, <3>2
      <4>2. PICK k \in 1..a : stream'[k] = stream'[j]
        BY <2>2, <2>3, <4>1 DEF Replayed
      <4>3. k \in 1..Len(stream)
        BY <1>0, <4>2
      <4> QED
        BY <2>3, <4>2, <4>3
    <3> QED
      BY <3>1, <3>2
  <2>5. PICK k \in 1..Len(stream) : stream[k] = stream'[j]
    BY <2>4
  <2>6. Done(stream[k])
    BY <1>1, <2>2, <2>5 DEF Downward
  <2> QED
    BY <1>2, <2>5, <2>6 DEF Done, Stored
<1>3. ASSUME UNCHANGED stream,
             \A i, j \in 1..Len(stream) :
               /\ stream[j] < stream[i] /\ Stored(stream[i])' /\ ~Stored(stream[i])
               /\ stream[j] \notin refused
               => Done(stream[j])
      PROVE  Downward'
  <2> SUFFICES ASSUME NEW i \in 1..Len(stream), NEW j \in 1..Len(stream),
                      stream[j] < stream[i], Stored(stream[i])', stream[j] \notin refused'
               PROVE  Done(stream[j])'
    BY <1>3 DEF Downward
  <2>1. Done(stream[j])
    BY <1>1, <1>3 DEF Downward
  <2> QED
    BY <1>1, <2>1
<1>4. ASSUME UNCHANGED stream, NEW n \in {1, 2}, OwnRows(n)
      PROVE  Downward'
  <2>1. \A i \in 1..Len(stream) : Stored(stream[i])' => Stored(stream[i])
    BY <1>0, <1>4, OwnStores DEF Stored
  <2> QED
    BY <1>3, <1>4, <2>1
<1>5. ASSUME UNCHANGED stream, NEW c \in Consumers, NEW i \in todo[c], At(c, i), Insert(stream[i])
      PROVE  Downward'
  <2>1. i \in 1..Len(stream) /\ todo[c] \subseteq 1..Len(stream)
    BY EntryIsEvent
  <2>2. \A k \in 1..Len(stream) : k < i => Done(stream[k])
    <3> SUFFICES ASSUME NEW k \in 1..Len(stream), k < i
                 PROVE  Done(stream[k])
      OBVIOUS
    <3>1. k \notin todo[c] /\ k \in 1..i
      BY <1>0, <1>5, <2>1 DEF At
    <3> QED
      BY <3>1 DEF AllBefore
  <2>3. ASSUME NEW a \in 1..Len(stream), NEW j \in 1..Len(stream),
               stream[j] < stream[a], Stored(stream[a])', ~Stored(stream[a]),
               stream[j] \notin refused
        PROVE  Done(stream[j])
    <3>1. stream[a] = stream[i]
      BY <1>5, <2>3 DEF Insert, Stored
    <3>2. CASE j < i
      BY <2>2, <3>2
    <3>3. CASE ~(j < i)
      <4>1. i < j
        BY <1>0, <2>1, <2>3, <3>1, <3>3
      <4>2. PICK k \in 1..i : stream[k] = stream[j]
        BY <2>1, <2>3, <3>1, <4>1 DEF Replayed
      <4>3. k \in 1..Len(stream) /\ k < i
        BY <1>0, <2>1, <2>3, <3>1, <4>2
      <4> QED
        BY <2>2, <4>2, <4>3
    <3> QED
      BY <3>2, <3>3
  <2> QED
    BY <1>3, <1>5, <2>3
<1> QED
  BY AddSteps, <1>2, <1>4, <1>5

\* A new row is of a later event than the rows before it.
LEMMA AscendingStep ==
  ASSUME Inv, Grows, FromStream, Downward, Ascending, Next
  PROVE  Ascending'
<1> USE DEF Inv
<1>0. /\ Len(stream) \in Nat
      /\ \A i \in 1..Len(stream) : stream[i] \in WorkerEvents /\ stream[i] \in Nat
  BY Events
<1>1. CASE UNCHANGED table
  BY <1>1, RefusedKept DEF Ascending
<1>2. ASSUME NEW n \in {1, 2}, OwnRows(n)
      PROVE  Ascending'
  BY <1>2, OwnStores, RefusedKept DEF Ascending
<1>3. ASSUME NEW c \in Consumers, NEW i \in todo[c],
             stream[i] \notin Poison, ~Stored(stream[i]), Insert(stream[i])
      PROVE  Ascending'
  <2> DEFINE e == stream[i]
  <2>1. i \in 1..Len(stream) /\ e \in WorkerEvents /\ e \in Nat
    BY <1>0, EntryIsEvent
  <2>2. /\ next \in Nat /\ DOMAIN table = 0..(next - 1)
        /\ DOMAIN table' = DOMAIN table \cup {next}
        /\ table'[next] = e /\ \A s \in DOMAIN table : table'[s] = table[s]
    BY <1>3, <2>1, InsertAppends DEF TypeOK, Insert
  <2>3. ASSUME NEW s \in DOMAIN table, table[s] # Own, e \notin refused
        PROVE  table[s] < e
    <3>1. PICK a \in 1..Len(stream) : stream[a] = table[s]
      BY <2>3 DEF FromStream
    <3>2. Stored(stream[a]) /\ stream[a] # e
      BY <1>3, <2>3, <3>1 DEF Stored
    <3>3. ~(e < stream[a])
      <4> SUFFICES ASSUME e < stream[a]
                   PROVE  FALSE
        OBVIOUS
      <4>1. Done(e)
        BY <2>1, <2>3, <3>2 DEF Downward
      <4> QED
        BY <1>3, <4>1 DEF Done
    <3> QED
      BY <1>0, <2>1, <3>1, <3>2, <3>3
  <2> SUFFICES ASSUME NEW s \in DOMAIN table', NEW u \in DOMAIN table', s < u,
                      table'[s] # Own, table'[u] # Own, table'[u] \notin refused
               PROVE  table'[s] < table'[u]
    BY RefusedKept DEF Ascending
  <2>4. s \in DOMAIN table
    BY <2>2
  <2>5. CASE u = next
    BY <2>2, <2>3, <2>4, <2>5
  <2>6. CASE u # next
    BY <2>2, <2>4, <2>6 DEF Ascending
  <2> QED
    BY <2>5, <2>6
<1> QED
  BY AddSteps, <1>1, <1>2, <1>3

-----------------------------------------------------------------------------
LEMMA OrderInit ==
  ASSUME Init
  PROVE  OrderInv
<1>1. Len(stream) = 0 /\ DOMAIN table = {}
  BY EmptySeq DEF Init
<1>2. Batched /\ Replayed /\ FromStream /\ Downward /\ Ascending
  BY <1>1 DEF Batched, Replayed, FromStream, Downward, Ascending
<1>3. OnlyPoison /\ Resting /\ LoopHas /\ AllBefore
  BY DEF Init, OnlyPoison, Resting, LoopHas, AllBefore, Consumers
<1> QED
  BY InitInv, <1>2, <1>3 DEF OrderInv, Orderly

LEMMA OrderNext ==
  ASSUME OrderInv, [Next]_vars
  PROVE  OrderInv'
<1>1. CASE Next
  <2> USE DEF OrderInv
  <2>1. Inv' /\ TypeOK' /\ Grows
    BY <1>1, NextInv, NextType DEF Inv
  <2>2. Batched' /\ Replayed'
    BY <1>1, StreamStep DEF Inv
  <2>3. FromStream'
    BY <1>1, <2>1, FromStreamStep DEF Inv
  <2>4. ASSUME NoFault'
        PROVE  Orderly'
    <3>1. NoFault /\ CalmStep
      BY <1>1, <2>4, Calm DEF Inv
    <3>2. Orderly
      BY <3>1
    <3>3. OnlyPoison' /\ Resting'
      BY <3>1, <3>2, PlaceStep DEF Inv, Orderly
    <3>4. LoopHas' /\ AllBefore'
      BY <2>1, <3>1, <3>2, HandsStep DEF Orderly
    <3>5. Downward'
      BY <1>1, <2>1, <2>2, <3>2, DownwardStep DEF Orderly
    <3>6. Ascending'
      BY <1>1, <2>1, <3>2, AscendingStep DEF Orderly
    <3> QED
      BY <3>3, <3>4, <3>5, <3>6 DEF Orderly
  <2> QED
    BY <2>1, <2>2, <2>3, <2>4
<1>2. CASE UNCHANGED vars
  <2>1. Inv'
    BY <1>2, NextInv DEF OrderInv
  <2>2. UNCHANGED <<emitted, settled, stream, refused, delivered, table, letters, pc, todo, faults, crashes>>
    BY <1>2 DEF vars, workerVars, groupVars, storeVars, bounds
  <2>3. Batched' /\ Replayed' /\ FromStream'
    BY <2>2 DEF OrderInv, Batched, Replayed, FromStream
  <2>4. NoFault' => Orderly'
    BY <2>2 DEF OrderInv, NoFault, Orderly, OnlyPoison, Resting, LoopHas, AllBefore,
                Downward, Ascending, Done, Stored
  <2> QED
    BY <2>1, <2>3, <2>4 DEF OrderInv
<1> QED
  BY <1>1, <1>2

\* While no call of the backend failed and it never crashed, the rows of the
\* worker's events stand in the order of their emission: for every number of
\* retries, drains, own rows and poison pills, unless an attempt of the forwarder
\* landed the later event and not the earlier (publish_events, _drain_run).
THEOREM Ordered == Spec => []InOrder
<1>1. Init => OrderInv
  BY OrderInit
<1>2. OrderInv /\ [Next]_vars => OrderInv'
  BY OrderNext
<1>3. OrderInv => InOrder
  BY DEF OrderInv, Orderly, NoFault, Ascending, InOrder
<1> QED
  BY <1>1, <1>2, <1>3, PTL DEF Spec
=============================================================================
