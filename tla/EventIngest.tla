----------------------------- MODULE EventIngest -----------------------------
(***************************************************************************)
(* The way of one thread's events from its worker into the events table:   *)
(* the forwarder's retried XADD, the run's Redis stream with its consumer  *)
(* group, the ingest loop, the drain that leaving the run starts beside    *)
(* it, the rows the backend writes itself from the same counter, and a     *)
(* crash of the backend at any point (worker/forwarder.py, events/bus.py). *)
(*                                                                         *)
(* Database calls are synchronous, so what _process does between two Redis *)
(* calls is one action; a Redis call may fail, with or without its effect. *)
(***************************************************************************)
EXTENDS Naturals, Sequences

CONSTANTS
  MaxEvents,   \* bound: events the worker emits
  Poison,      \* the events that fail validation at the backend
  MaxTries,    \* attempts of publish_events (3 in the code)
  Drains,      \* drains that may run at the same time
  MaxDirect,   \* bound: rows the backend writes itself
  MaxMoves,    \* bound: steps of the run between stages and in or out of the read set
  MaxFaults,   \* bound: failing calls of the backend, and its crashes, together
  MaxCrashes   \* bound: crashes of the backend

WorkerEvents == 1..MaxEvents    \* numbered in the order they are emitted
Own == 0                        \* a row the backend wrote itself
Loop == "loop"
Consumers == {Loop} \cup Drains

ASSUME IngestAssumption ==
  /\ MaxEvents \in Nat /\ Poison \subseteq WorkerEvents
  /\ MaxTries \in Nat \ {0}
  /\ MaxDirect \in Nat /\ MaxMoves \in Nat /\ MaxFaults \in Nat /\ MaxCrashes \in Nat
  /\ Loop \notin Drains

VARIABLES
  emitted,     \* events the worker has emitted
  settled,     \* those whose publish_events call has returned, or given up
  tries,       \* attempts the call in progress has made
  stream,      \* the stream events:<run>, as events
  refused,     \* history: events an attempt did not land although it landed a later one
  delivered,   \* entries the group has been given
  pel,         \* entries given and not acknowledged (positions in stream)
  table,       \* the events rows: seq |-> event
  next,        \* Thread.next_seq
  letters,     \* events in the dead-letter stream
  frames,      \* [seq, ev] of the step frames relayed
  pc, todo,    \* each consumer: where it is, entries it still has to process
  registered,  \* the stream is in run_streams
  parked,      \* the run's stage is one the boot sweep does not look at
  worker,      \* FALSE once abandon_run or the boot sweep stopped the container
  alive,       \* FALSE between a crash of the backend and its next boot
  direct, moves, faults, crashes

workerVars == <<emitted, settled, tries, stream, refused>>
groupVars  == <<delivered, pel>>
storeVars  == <<table, next, frames>>
runVars    == <<registered, parked, worker, moves>>
bounds     == <<alive, direct, crashes>>
vars == <<workerVars, groupVars, storeVars, letters, pc, todo, runVars, bounds, faults>>

\* run: the next entry is due; ack: _process acknowledges it; letter and
\* letterack: the caller's _deadletter after an exception; lost: the loop's
\* task has died.
Pcs == {"rest", "polling", "claim", "lost", "run", "ack", "letter", "letterack"}

TypeOK ==
  /\ emitted \in 0..MaxEvents /\ settled \in 0..emitted
  /\ tries \in 0..MaxTries
  /\ stream \in Seq(WorkerEvents)
  /\ refused \subseteq WorkerEvents
  /\ delivered \in 0..Len(stream)
  /\ pel \subseteq 1..delivered
  /\ next \in Nat
  /\ table \in [0..(next - 1) -> WorkerEvents \cup {Own}]
  /\ letters \subseteq WorkerEvents
  /\ frames \subseteq [seq : Nat, ev : WorkerEvents]
  /\ pc \in [Consumers -> Pcs]
  /\ todo \in [Consumers -> SUBSET (1..delivered)]
  /\ registered \in BOOLEAN /\ parked \in BOOLEAN /\ worker \in BOOLEAN
  /\ alive \in BOOLEAN
  /\ direct \in 0..MaxDirect /\ moves \in 0..MaxMoves /\ faults \in 0..MaxFaults /\ crashes \in 0..MaxCrashes

\* create_run registers the stream before the lane exists.
Init ==
  /\ emitted = 0 /\ settled = 0 /\ tries = 0
  /\ stream = <<>> /\ refused = {} /\ delivered = 0 /\ pel = {}
  /\ table = [s \in {} |-> Own] /\ next = 0 /\ frames = {}
  /\ letters = {}
  /\ pc = [c \in Consumers |-> "rest"] /\ todo = [c \in Consumers |-> {}]
  /\ registered = TRUE /\ parked = FALSE /\ worker = TRUE
  /\ alive = TRUE /\ direct = 0 /\ moves = 0 /\ faults = 0 /\ crashes = 0

-----------------------------------------------------------------------------
(* The worker (Forwarder.publish_events).                                  *)

consumerVars == <<groupVars, storeVars, letters, pc, todo, faults>>

\* The engine hands over its next events once the previous call has returned.
Emit ==
  /\ worker /\ settled = emitted
  /\ emitted' \in (emitted + 1)..MaxEvents
  /\ tries' = 0
  /\ UNCHANGED <<settled, stream, refused, consumerVars, runVars, bounds>>

Batch == (settled + 1)..emitted   \* the events of the call in progress
InFull == [i \in 1..(emitted - settled) |-> settled + i]

\* What of the batch an attempt may land: some of its events, in their order.
Landings ==
  UNION {{part \in [1..n -> Batch] : \A i, j \in 1..n : i < j => part[i] < part[j]} :
           n \in 0..(emitted - settled)}

\* The events of the batch that the part leaves out, before one that it holds.
Holes(part) ==
  {e \in Batch : /\ \E i \in DOMAIN part : e < part[i]
                 /\ \A i \in DOMAIN part : e # part[i]}

PublishOk ==
  /\ worker /\ settled < emitted
  /\ stream' = stream \o InFull
  /\ settled' = emitted
  /\ UNCHANGED <<emitted, tries, refused, consumerVars, runVars, bounds>>

\* The pipeline is no transaction: the server is sent every command, and runs
\* those it does not refuse; the first refusal, or the lost connection, raises.
\* So any part of the batch may have landed, all of it included.  The last
\* attempt gives up.
PublishFails ==
  /\ worker /\ settled < emitted
  /\ \E part \in Landings :
       stream' = stream \o part /\ refused' = refused \cup Holes(part)
  /\ tries' = tries + 1
  /\ settled' = IF tries + 1 = MaxTries THEN emitted ELSE settled
  /\ UNCHANGED <<emitted, consumerVars, runVars, bounds>>

-----------------------------------------------------------------------------
(* The consumers (IngestConsumer._loop and _drain_run).                    *)

Fault == faults + crashes < MaxFaults /\ faults' = faults + 1

\* Mutant: the entries of a read are processed side by side.
AtMutant(c, i) == i \in todo[c]

\* Entries are processed in stream order.
At(c, i) == i \in todo[c] /\ \A j \in todo[c] : i <= j

Goto(c, to) == pc' = [pc EXCEPT ![c] = to] /\ UNCHANGED todo

\* The consumer is done with entry i.
Leave(c, i) ==
  /\ todo' = [todo EXCEPT ![c] = @ \ {i}]
  /\ pc' = [pc EXCEPT ![c] = IF todo[c] = {i} THEN "rest" ELSE "run"]

\* The read set is a snapshot: the stream may leave run_streams while the read
\* blocks.
Poll ==
  /\ pc[Loop] = "rest" /\ alive /\ registered
  /\ Goto(Loop, "polling")
  /\ UNCHANGED <<workerVars, groupVars, storeVars, letters, faults, runVars, bounds>>

\* Entries given to the group stay pending until they are acknowledged.
Give ==
  /\ delivered' = Len(stream)
  /\ pel' = pel \cup (delivered + 1)..Len(stream)

Deliver ==
  /\ pc[Loop] = "polling"
  /\ Give
  /\ todo' = [todo EXCEPT ![Loop] = (delivered + 1)..Len(stream)]
  /\ pc' = [pc EXCEPT ![Loop] = IF delivered < Len(stream) THEN "run" ELSE "rest"]
  /\ UNCHANGED <<workerVars, storeVars, letters, faults, runVars, bounds>>

\* The loop goes on after a ResponseError.  A connection error is none: it ends
\* the loop's task, for every run, until the backend is restarted; the entries
\* it was about to bring may have been given.
ReadFails ==
  /\ pc[Loop] = "polling" /\ Fault
  /\ \/ Goto(Loop, "rest") /\ UNCHANGED groupVars
     \/ Goto(Loop, "lost") /\ (Give \/ UNCHANGED groupVars)
  /\ UNCHANGED <<workerVars, storeVars, letters, runVars, bounds>>

\* _drain_run claims everything pending, the entries the loop is working on
\* included.
Claim(d) ==
  /\ pc[d] = "claim"
  /\ todo' = [todo EXCEPT ![d] = pel]
  /\ pc' = [pc EXCEPT ![d] = IF pel = {} THEN "rest" ELSE "run"]
  /\ UNCHANGED <<workerVars, groupVars, storeVars, letters, faults, runVars, bounds>>

ClaimFails(d) ==
  /\ pc[d] = "claim" /\ Fault
  /\ Goto(d, "rest")
  /\ UNCHANGED <<workerVars, groupVars, storeVars, letters, runVars, bounds>>

-----------------------------------------------------------------------------
(* IngestConsumer._process and the handler around it.                      *)

\* The dedupe on the uid: the event has a row.
Stored(e) == \E s \in DOMAIN table : table[s] = e

Frame(s, e) == frames \cup {[seq |-> s, ev |-> e]}

\* A new row takes the thread's counter for its seq, and moves it on.
Insert(e) ==
  /\ table' = [s \in DOMAIN table \cup {next} |-> IF s = next THEN e ELSE table[s]]
  /\ next' = next + 1

\* Mutant: a poison pill is acknowledged and dropped.
RejectMutant(c) ==
  /\ pc[c] = "run"
  /\ \E i \in todo[c] : At(c, i) /\ stream[i] \in Poison
  /\ Goto(c, "ack")
  /\ UNCHANGED <<workerVars, groupVars, storeVars, letters, faults, runVars, bounds>>

\* A payload that fails validation: the dead-letter stream, then the ack.
Reject(c) ==
  /\ pc[c] = "run"
  /\ \E i \in todo[c] :
       /\ At(c, i) /\ stream[i] \in Poison
       /\ letters' = letters \cup {stream[i]}
  /\ Goto(c, "ack")
  /\ UNCHANGED <<workerVars, groupVars, storeVars, faults, runVars, bounds>>

\* A redelivered event is shown again under the seq of its row.
Reshow(c) ==
  /\ pc[c] = "run"
  /\ \E i \in todo[c] :
       /\ At(c, i) /\ stream[i] \notin Poison
       /\ \E s \in DOMAIN table :
            table[s] = stream[i] /\ frames' = Frame(s, stream[i])
  /\ Goto(c, "ack")
  /\ UNCHANGED <<workerVars, groupVars, table, next, letters, faults, runVars, bounds>>

\* Mutant: the frame goes out with the seq the worker believed.
StoreHintMutant(c) ==
  /\ pc[c] = "run"
  /\ \E i \in todo[c] :
       /\ At(c, i) /\ stream[i] \notin Poison /\ ~Stored(stream[i])
       /\ Insert(stream[i]) /\ frames' = Frame(stream[i] - 1, stream[i])
  /\ Goto(c, "ack")
  /\ UNCHANGED <<workerVars, groupVars, letters, faults, runVars, bounds>>

\* Mutant: the uid is not looked up before the insert.
StoreTwiceMutant(c) ==
  /\ pc[c] = "run"
  /\ \E i \in todo[c] :
       /\ At(c, i) /\ stream[i] \notin Poison
       /\ Insert(stream[i]) /\ frames' = Frame(next, stream[i])
  /\ Goto(c, "ack")
  /\ UNCHANGED <<workerVars, groupVars, letters, faults, runVars, bounds>>

\* A new one is stored, committed and shown.  An insert that collides on seq
\* without a row of its uid is dropped.
Store(c) ==
  /\ pc[c] = "run"
  /\ \E i \in todo[c] :
       /\ At(c, i) /\ stream[i] \notin Poison /\ ~Stored(stream[i])
       /\ IF next \in DOMAIN table
          THEN UNCHANGED storeVars
          ELSE Insert(stream[i]) /\ frames' = Frame(next, stream[i])
  /\ Goto(c, "ack")
  /\ UNCHANGED <<workerVars, groupVars, letters, faults, runVars, bounds>>

\* Mutant: the exception is logged and the entry left.
ProcessFailsMutant(c) ==
  /\ pc[c] = "run" /\ Fault
  /\ \E i \in todo[c] : At(c, i) /\ Leave(c, i)
  /\ UNCHANGED <<workerVars, groupVars, storeVars, letters, runVars, bounds>>

\* The database or the dead-letter stream raises before anything is kept; the
\* failed write may have had its effect in Redis.
ProcessFails(c) ==
  /\ pc[c] = "run" /\ Fault
  /\ \E i \in todo[c] :
       /\ At(c, i)
       /\ letters' \in {letters} \cup {letters \cup {e} : e \in {stream[i]} \cap Poison}
  /\ Goto(c, "letter")
  /\ UNCHANGED <<workerVars, groupVars, storeVars, runVars, bounds>>

Ack(c) ==
  /\ pc[c] \in {"ack", "letterack"}
  /\ \E i \in todo[c] : At(c, i) /\ pel' = pel \ {i} /\ Leave(c, i)
  /\ UNCHANGED <<workerVars, delivered, storeVars, letters, faults, runVars, bounds>>

\* An ack that raises inside _process sends the event to the dead letters; in
\* the handler the entry is left as it is.
AckFails(c) ==
  /\ Fault
  /\ \E i \in todo[c] :
       /\ At(c, i) /\ pel' \in {pel, pel \ {i}}
       /\ \/ pc[c] = "ack" /\ Goto(c, "letter")
          \/ pc[c] = "letterack" /\ Leave(c, i)
  /\ UNCHANGED <<workerVars, delivered, storeVars, letters, runVars, bounds>>

Letter(c) ==
  /\ pc[c] = "letter"
  /\ \E i \in todo[c] : At(c, i) /\ letters' = letters \cup {stream[i]}
  /\ Goto(c, "letterack")
  /\ UNCHANGED <<workerVars, groupVars, storeVars, faults, runVars, bounds>>

\* "message will be retried": it stays pending, and is left as it is.
LetterFails(c) ==
  /\ pc[c] = "letter" /\ Fault
  /\ \E i \in todo[c] :
       /\ At(c, i) /\ Leave(c, i)
       /\ letters' \in {letters, letters \cup {stream[i]}}
  /\ UNCHANGED <<workerVars, groupVars, storeVars, runVars, bounds>>

-----------------------------------------------------------------------------
(* Rows the backend writes itself, the run's way through its stages, and   *)
(* the backend's crash and boot.                                           *)

\* The user's message, a pinned finding, a test run with or without its
\* screenshots.
OwnRows(n) ==
  /\ alive /\ direct + n <= MaxDirect
  /\ direct' = direct + n
  /\ table' = [s \in DOMAIN table \cup next..(next + n - 1) |->
                 IF s >= next THEN Own ELSE table[s]]
  /\ next' = next + n
  /\ UNCHANGED <<workerVars, groupVars, frames, letters, pc, todo, faults, runVars,
                 alive, crashes>>

Move == alive /\ moves < MaxMoves /\ moves' = moves + 1

\* The blueprint leaves the run in awaiting_user or verifying; the worker idles.
Park ==
  /\ Move /\ registered /\ ~parked
  /\ parked' = TRUE
  /\ UNCHANGED <<workerVars, consumerVars, registered, worker, bounds>>

\* A spawn registers the stream of its run.
Register ==
  /\ Move /\ (~registered \/ parked)
  /\ registered' = TRUE /\ parked' = FALSE
  /\ UNCHANGED <<workerVars, consumerVars, worker, bounds>>

\* abandon_run: its containers are gone, or about to be; the drain starts.
Unregister(d) ==
  /\ Move /\ registered /\ pc[d] = "rest"
  /\ registered' = FALSE /\ worker' \in {worker, FALSE}
  /\ Goto(d, "claim")
  /\ UNCHANGED <<workerVars, groupVars, storeVars, letters, faults, parked, bounds>>

Dies ==
  /\ alive /\ alive' = FALSE
  /\ crashes < MaxCrashes /\ faults + crashes < MaxFaults /\ crashes' = crashes + 1
  /\ pc' = [c \in Consumers |-> "rest"] /\ todo' = [c \in Consumers |-> {}]
  /\ UNCHANGED <<workerVars, groupVars, letters, faults, runVars, direct>>

Crash == Dies /\ UNCHANGED storeVars

\* The crash comes between the commit of an event and its frame.
CrashAfterCommit(c) ==
  /\ Dies
  /\ pc[c] = "run"
  /\ \E i \in todo[c] :
       /\ At(c, i) /\ stream[i] \notin Poison /\ ~Stored(stream[i])
       /\ next \notin DOMAIN table /\ Insert(stream[i])
  /\ UNCHANGED frames

\* reconcile_on_boot: only a run in a working stage is looked at.  With a sign
\* of life it is registered again, without one its containers are stopped.
Boot ==
  /\ ~alive /\ alive' = TRUE
  /\ \/ registered' = (registered /\ ~parked) /\ UNCHANGED worker
     \/ registered /\ ~parked /\ registered' = FALSE /\ worker' = FALSE
  /\ UNCHANGED <<workerVars, consumerVars, parked, moves, direct, crashes>>

-----------------------------------------------------------------------------
Worker == Emit \/ PublishOk \/ PublishFails

Entry(c) ==
  \/ Reject(c) \/ Reshow(c) \/ Store(c) \/ Ack(c) \/ Letter(c)
  \/ ProcessFails(c) \/ AckFails(c) \/ LetterFails(c)

Drain(d) == Claim(d) \/ ClaimFails(d)

Next ==
  \/ Worker
  \/ Poll \/ Deliver \/ ReadFails
  \/ \E d \in Drains : Drain(d) \/ Unregister(d)
  \/ \E c \in Consumers : Entry(c) \/ CrashAfterCommit(c)
  \/ \E n \in {1, 2} : OwnRows(n)
  \/ Park \/ Register \/ Crash \/ Boot

Spec == Init /\ [][Next]_vars

\* The loop and the drains run on; the backend is restarted.  The worker, the
\* owner and the failures owe nothing.
FairSpec ==
  /\ Spec
  /\ WF_vars(Poll) /\ WF_vars(Deliver) /\ WF_vars(Boot)
  /\ \A d \in Drains : WF_vars(Drain(d))
  /\ \A c \in Consumers : WF_vars(Entry(c))

-----------------------------------------------------------------------------
(* Properties.                                                             *)

\* What the record knows of an event: its row, or its dead letter.
Recorded(e) == Stored(e) \/ e \in letters

\* An entry that left the pending list is on record: no crash, failed call or
\* concurrent drain acknowledges an event that nobody stored or dead-lettered.
AckedIsRecorded ==
  \A i \in 1..delivered : i \in pel \/ Recorded(stream[i])

\* Every frame a subscriber got names the row of its event: a redelivery, a
\* drain or a row of the backend in between never shows an event at a place
\* where the replay holds another one.
FramesTrue ==
  \A f \in frames : f.seq \in DOMAIN table /\ table[f.seq] = f.ev

\* As long as no call of the backend failed and it never crashed, the replay
\* shows the worker's events in the order of their emission, whatever the
\* forwarder retried and however the drain and the loop overlap.  The exception
\* is the forwarder's: an event the stream refused in an attempt that landed a
\* later one comes with the retry, after that one.
InOrder ==
  faults = 0 /\ crashes = 0 =>
    \A s, u \in DOMAIN table :
      s < u /\ Own \notin {table[s], table[u]} /\ table[u] \notin refused
        => table[s] < table[u]

\* The promise to the readers of the events.
Log == INSTANCE EventLog
         WITH log <- [i \in 1..next |-> table[i - 1]],
              shown <- {<<f.seq + 1, f.ev>> : f \in frames}

LogSpec == Log!Spec

Positions == 1..(MaxEvents * MaxTries)

\* A landed event is eventually on record although a call fails, unless the run
\* is left, the reader itself is lost or the backend crashes.  A second failure
\* may keep back the dead letter too.
LandedIsRecorded ==
  \A i \in Positions :
    i <= Len(stream) ~> \/ i <= Len(stream) /\ Recorded(stream[i])
                        \/ ~registered \/ pc[Loop] = "lost" \/ crashes > 0 \/ faults > 1

\* A crash of the backend loses no event that it had read: once it is back and
\* serves the run, each gets its row or its dead letter.
CrashLosesNothing ==
  \A i \in Positions :
    i <= delivered ~> \/ i <= delivered /\ Recorded(stream[i])
                      \/ ~registered

\* A restart of the backend goes on reading the stream of every run whose worker
\* survived it.
SurvivorsAreServed ==
  [][~alive /\ alive' /\ registered /\ worker' => registered']_vars
=============================================================================
