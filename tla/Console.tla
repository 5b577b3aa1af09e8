------------------------------ MODULE Console ------------------------------
(***************************************************************************)
(* What a user sees of a run: the backend's relay (events/relay.py, with   *)
(* the socket endpoint ws/events.py) fans frames out to bounded queues,    *)
(* and the web console (stores/run.ts, lib/ws.ts) folds them into the      *)
(* history it fetched.  The fanout keeps nothing: a console that was cut   *)
(* off, or evicted for being slow, asks again for what it missed.          *)
(*                                                                         *)
(* One console, which opens one run after the other.  Its requests are     *)
(* read by the server and answered in any order, and what they bring is    *)
(* folded in only if the console is still where it was when it asked.      *)
(***************************************************************************)
EXTENDS Integers, Sequences, FiniteSets, SequencesExt

CONSTANTS
  Runs, Threads,  \* thread ids are numbers: the server sorts by them
  RunOf,          \* the run of a thread
  NoRun,
  QueueSize,      \* frames a relay queue holds
  Page,           \* events one replay request answers
  Events,         \* bound: the events of each thread
  MaxOpens,       \* bound: runs opened or left
  MaxSpent        \* bound: cuts, failing requests, ends of runs, deltas, polls, frames relayed again

ASSUME ConsoleAssumption ==
  /\ Threads \subseteq Nat /\ IsFiniteSet(Threads) /\ RunOf \in [Threads -> Runs] /\ NoRun \notin Runs
  /\ QueueSize \in Nat \ {0} /\ Page \in Nat \ {0} /\ Events \in [Threads -> Nat]
  /\ MaxOpens \in Nat /\ MaxSpent \in Nat

VARIABLES
  stored,  \* the number of durable events of each thread
  unsent,  \* events that are durable, and not relayed yet
  runStage, \* "working", "ended" in the row, and "told" to the relay
  sub,     \* the socket's end at the backend
  queue,   \* the frames it has not sent
  sock,    \* the console's end
  gen,     \* openRunGen
  shown,   \* the run on the screen, with its stage, rack, history and bubbles
  asked,   \* requests on their way
  pending, \* pendingCatchups
  blind,   \* the latest question after a cut was not answered
  spent    \* what MaxSpent bounds

server == <<stored, unsent, runStage>>
vars == <<stored, unsent, runStage, sub, queue, sock, gen, shown, asked, pending, blind, spent>>

Stages == {"working", "ended"}
\* The seqs the bound leaves.
Seqs == UNION {0..Events[t] : t \in Threads}

Row(r) == IF runStage[r] = "working" THEN "working" ELSE "ended"
Blank == [run |-> NoRun, stage |-> "working", lanes |-> NoRun,
          view |-> [t \in Threads |-> <<>>], bubbles |-> {}]

Sentinel == [type |-> "drop", thread |-> 0, seq |-> 0]
Step(t, n) == [type |-> "step", thread |-> t, seq |-> n]
Frame == [type : {"step", "delta", "run_stage", "drop"}, thread : Nat, seq : Nat]

Question == [kind : {"open", "resync", "catchup", "lanes", "poll", "intent"}, gen : Nat,
            run : Runs, thread : Threads \cup {-1}, no : Nat,
            after : Nat \cup {-1}, row : {"unread"} \cup Stages,
            rows : SUBSET (Threads \X Nat), whole : BOOLEAN]

TypeOK ==
  /\ stored \in [Threads -> Nat] /\ \A t \in Threads : stored[t] <= Events[t]
  /\ runStage \in [Runs -> Stages \cup {"told"}]
  /\ unsent \subseteq Threads \X (Seqs)
  /\ sub \in {"none", "accepted", "subscribed", "evicted"}
  /\ queue \in Seq(Frame) /\ Len(queue) <= QueueSize
  /\ sock \in {"none", "connecting", "reconnecting", "open", "waiting"}
  /\ gen \in 0..MaxOpens /\ asked \subseteq Question /\ pending \subseteq Threads
  /\ shown \in [run : Runs \cup {NoRun}, stage : Stages, lanes : Runs \cup {NoRun},
                view : [Threads -> Seq(Nat)], bubbles : SUBSET Threads]
  /\ blind \in BOOLEAN
  /\ spent \in 0..MaxSpent

Init ==
  /\ stored = [t \in Threads |-> 0] /\ unsent = {} /\ runStage = [r \in Runs |-> "working"]
  /\ sub = "none" /\ queue = <<>> /\ sock = "none" /\ gen = 0 /\ shown = Blank
  /\ asked = {} /\ pending = {} /\ blind = FALSE
  /\ spent = 0

-----------------------------------------------------------------------------
(* The history: per thread, in the order of seq, each event once.  A frame *)
(* that is there already replaces itself.                                  *)

Upsert(s, n) ==
  LET higher == {i \in 1..Len(s) : s[i] > n}
  IN IF n \in ToSet(s) THEN s
     ELSE IF higher = {} THEN Append(s, n) ELSE InsertAt(s, Min(higher), n)

\* maxSeqForThread
Newest(t) == IF shown.view[t] = <<>> THEN -1
             ELSE CHOOSE n \in ToSet(shown.view[t]) : \A k \in ToSet(shown.view[t]) : k <= n

\* Folds fetched events into a history, in the order in which the server sorted
\* them within a thread.
Upserts(s, seqs) ==
  MapThenFoldSet(LAMBDA n, h : Upsert(h, n), s, LAMBDA n : n, Max, seqs)
Of(rows, t) == {e[2] : e \in {r \in rows : r[1] = t}}
Folded(view, rows) == [t \in Threads |-> Upserts(view[t], Of(rows, t))]

\* replay_events: the events after a seq, by thread and seq, up to the limit.
Replay(r, among, after) ==
  LET all == {e \in among \X (Seqs) : RunOf[e[1]] = r /\ e[2] < stored[e[1]] /\ e[2] > after}
      Before(e) == {d \in all : d[1] < e[1] \/ (d[1] = e[1] /\ d[2] < e[2])}
  IN {e \in all : Cardinality(Before(e)) < Page}

-----------------------------------------------------------------------------
(* The relay. *)

\* A bug: the queue is dropped, and its socket waits for ever.
EvictMutant == sub' = "evicted" /\ queue' = queue

\* Steps for others' runs go to others' queues; one full queue is evicted, and
\* its oldest frame makes room for the word that ends its socket.
Evict == sub' = "evicted" /\ queue' = Append(Tail(queue), Sentinel)

Fanout(r, frame) ==
  IF sub = "subscribed" /\ shown.run = r
  THEN IF Len(queue) < QueueSize
       THEN queue' = Append(queue, frame) /\ UNCHANGED sub
       ELSE Evict
  ELSE UNCHANGED <<sub, queue>>

\* An event is committed under the lock of its thread, so in the order of seq;
\* ingest and the backend's own writers relay theirs later, each at its time.
Store(t) ==
  /\ stored[t] < Events[t] /\ runStage[RunOf[t]] = "working"
  /\ stored' = [stored EXCEPT ![t] = @ + 1]
  /\ unsent' = unsent \cup {<<t, stored[t]>>}
  /\ UNCHANGED <<runStage, sub, queue, sock, gen, shown, asked, pending, blind, spent>>

PublishStep(t, n) ==
  /\ <<t, n>> \in unsent /\ unsent' = unsent \ {<<t, n>>}
  /\ Fanout(RunOf[t], Step(t, n))
  /\ UNCHANGED <<stored, runStage, sock, gen, shown, asked, pending, blind, spent>>

\* An entry that was delivered again is relayed again.
RelayAgain(t, n) ==
  /\ n < stored[t] /\ <<t, n>> \notin unsent /\ spent < MaxSpent
  /\ Fanout(RunOf[t], Step(t, n))
  /\ spent' = spent + 1
  /\ UNCHANGED <<server, sock, gen, shown, asked, pending, blind>>

Delta(t) ==
  /\ stored[t] < Events[t] /\ sub = "subscribed" /\ spent < MaxSpent
  /\ Fanout(RunOf[t], [type |-> "delta", thread |-> t, seq |-> 0])
  /\ spent' = spent + 1
  /\ UNCHANGED <<server, sock, gen, shown, asked, pending, blind>>

RunEnds(r) ==
  /\ runStage[r] = "working" /\ spent < MaxSpent
  /\ runStage' = [runStage EXCEPT ![r] = "ended"] /\ spent' = spent + 1
  /\ UNCHANGED <<stored, unsent, sub, queue, sock, gen, shown, asked, pending, blind>>

PublishStage(r) ==
  /\ runStage[r] = "ended" /\ runStage' = [runStage EXCEPT ![r] = "told"]
  /\ Fanout(r, [type |-> "run_stage", thread |-> 0, seq |-> 0])
  /\ UNCHANGED <<stored, unsent, sock, gen, shown, asked, pending, blind, spent>>

-----------------------------------------------------------------------------
(* The socket.  The server subscribes after it accepted, so a console may  *)
(* take itself for connected before it is.                                 *)

Accept ==
  /\ sock \in {"connecting", "reconnecting"} /\ sub = "none" /\ sub' = "accepted"
  /\ UNCHANGED <<server, queue, sock, gen, shown, asked, pending, blind, spent>>

Subscribe ==
  /\ sub = "accepted" /\ sub' = "subscribed" /\ queue' = <<>>
  /\ UNCHANGED <<server, sock, gen, shown, asked, pending, blind, spent>>

Ask(kind, t, after) ==
  [kind |-> kind, gen |-> gen, run |-> shown.run, thread |-> t, no |-> spent,
   after |-> after, row |-> "unread", rows |-> {}, whole |-> FALSE]

\* onopen: a socket that was cut before asks for everything again.
OnOpen ==
  /\ sock \in {"connecting", "reconnecting"} /\ sub # "none" /\ sock' = "open"
  /\ IF sock = "reconnecting"
     THEN asked' = asked \cup {Ask("resync", -1, -1)} /\ blind' = FALSE
     ELSE UNCHANGED <<asked, blind>>
  /\ UNCHANGED <<server, sub, queue, gen, shown, pending, spent>>

\* onclose: a run that has ended gets no event that would take a bubble away.
OnClose ==
  /\ sock' = "waiting" /\ sub' = "none" /\ queue' = <<>>
  /\ shown' = [shown EXCEPT !.bubbles = IF shown.stage = "ended" THEN {} ELSE @]

Cut ==
  /\ sock \in {"connecting", "reconnecting", "open"} /\ spent < MaxSpent
  /\ spent' = spent + 1
  /\ OnClose
  /\ UNCHANGED <<server, gen, asked, pending, blind>>

\* The session is over (4401) or the run is not ours (4404): no retry.
Refused ==
  /\ sock \in {"connecting", "reconnecting"} /\ sub = "none" /\ spent < MaxSpent
  /\ spent' = spent + 1 /\ sock' = "none"
  /\ UNCHANGED <<server, sub, queue, gen, shown, asked, pending, blind>>

Reconnect ==
  /\ sock = "waiting" /\ sock' = "reconnecting"
  /\ UNCHANGED <<server, sub, queue, gen, shown, asked, pending, blind, spent>>

-----------------------------------------------------------------------------
(* onMessage.                                                              *)

Frame1 == Head(queue)

Receiving(type) == sock = "open" /\ queue # <<>> /\ Frame1.type = type

ReceiveStep ==
  LET t == Frame1.thread
      gap == Newest(t) >= 0 /\ Frame1.seq > Newest(t) + 1 /\ t \notin pending
  IN
  /\ Receiving("step") /\ queue' = Tail(queue)
  /\ shown' = [shown EXCEPT !.view[t] = Upsert(@, Frame1.seq), !.bubbles = @ \ {t}]
  /\ asked' = asked \cup (IF gap THEN {Ask("catchup", t, Newest(t))} ELSE {})
  /\ pending' = pending \cup (IF gap THEN {t} ELSE {})
  /\ UNCHANGED <<server, sub, sock, gen, blind, spent>>

ReceiveDelta ==
  /\ Receiving("delta") /\ queue' = Tail(queue)
  /\ shown' = [shown EXCEPT !.bubbles = @ \cup {Frame1.thread}]
  /\ UNCHANGED <<server, sub, sock, gen, asked, pending, blind, spent>>

ReceiveStage ==
  /\ Receiving("run_stage") /\ queue' = Tail(queue)
  /\ shown' = [shown EXCEPT !.stage = "ended", !.bubbles = {}]
  /\ asked' = asked \cup {Ask("lanes", -1, -1)}
  /\ UNCHANGED <<server, sub, sock, gen, pending, blind, spent>>

\* The endpoint reads the sentinel, and closes.
ReceiveDrop ==
  /\ Receiving("drop") /\ OnClose
  /\ UNCHANGED <<server, gen, asked, pending, blind, spent>>

-----------------------------------------------------------------------------
(* What the user does, and the requests that follow.                       *)

Leave == gen < MaxOpens /\ gen' = gen + 1 /\ sock' = "none" /\ sub' = "none" /\ queue' = <<>>

OpenRun(r) ==
  /\ Leave
  /\ asked' = asked \cup {[Ask("open", -1, -1) EXCEPT !.run = r, !.gen = gen + 1]}
  /\ UNCHANGED <<server, shown, pending, blind, spent>>

CloseRun ==
  /\ shown.run # NoRun /\ Leave /\ shown' = Blank
  /\ UNCHANGED <<server, asked, pending, blind, spent>>

\* The poll of the rack (refreshLanes), and the row after an intent (sendIntent).
Poll(kind) ==
  /\ kind \in {"poll", "intent"} /\ shown.run # NoRun /\ spent < MaxSpent
  /\ asked' = asked \cup {Ask(kind, -1, -1)}
  /\ spent' = spent + 1
  /\ UNCHANGED <<server, sub, queue, sock, gen, shown, pending, blind>>

\* The server reads the row of the run.
ReadRow(q) ==
  /\ q \in asked /\ q.kind \in {"open", "resync", "intent"} /\ q.row = "unread"
  /\ asked' = (asked \ {q}) \cup {[q EXCEPT !.row = Row(q.run)]}
  /\ UNCHANGED <<server, sub, queue, sock, gen, shown, pending, blind, spent>>

\* Mutant: one bounded page, whatever the thread holds.
ReadPageMutant(q) ==
  LET page == Replay(q.run, IF q.kind = "catchup" THEN {q.thread} ELSE Threads, q.after) IN
  /\ q \in asked /\ q.kind \in {"open", "resync", "catchup"} /\ ~q.whole
  /\ asked' = (asked \ {q}) \cup {[q EXCEPT !.rows = page, !.whole = TRUE]}
  /\ UNCHANGED <<server, sub, queue, sock, gen, shown, pending, blind, spent>>

\* It reads a page of the run's events; a short page is the last.  The next page starts
\* after the newest seq of any thread.  A catch-up asks for one page.
ReadPage(q) ==
  LET page == Replay(q.run, IF q.kind = "catchup" THEN {q.thread} ELSE Threads, q.after) IN
  /\ q \in asked /\ q.kind \in {"open", "resync", "catchup"} /\ ~q.whole
  /\ asked' = (asked \ {q}) \cup
       {[q EXCEPT !.rows = @ \cup page,
                  !.whole = q.kind = "catchup" \/ Cardinality(page) < Page,
                  !.after = IF page = {} THEN @
                            ELSE CHOOSE n \in {e[2] : e \in page} :
                                   \A e \in page : e[2] <= n]}
  /\ UNCHANGED <<server, sub, queue, sock, gen, shown, pending, blind, spent>>

Answered(q) ==
  /\ q \in asked /\ asked' = asked \ {q}
  /\ q.kind \in {"open", "resync", "intent"} => q.row # "unread"
  /\ q.kind \in {"open", "resync", "catchup"} => q.whole

\* A later open, or a close, has won: the answer is thrown away.
Current(q) == q.gen = gen

Opens(q) ==
  /\ q.kind = "open" /\ Answered(q)
  /\ IF Current(q)
     THEN /\ shown' = [run |-> q.run, stage |-> q.row, lanes |-> q.run,
                       view |-> Folded(Blank.view, q.rows), bubbles |-> {}]
          /\ sock' = "connecting" /\ sub' = "none" /\ queue' = <<>>
     ELSE UNCHANGED <<shown, sock, sub, queue>>
  /\ UNCHANGED <<server, gen, pending, blind, spent>>

Resyncs(q) ==
  /\ q.kind = "resync" /\ Answered(q)
  /\ shown' = IF Current(q)
              THEN [shown EXCEPT !.stage = q.row, !.lanes = q.run,
                                 !.view = Folded(@, q.rows),
                                 !.bubbles = IF q.row = "ended" THEN {} ELSE @]
              ELSE shown
  /\ UNCHANGED <<server, sub, queue, sock, gen, pending, blind, spent>>

CatchesUp(q) ==
  /\ q.kind = "catchup" /\ Answered(q) /\ pending' = pending \ {q.thread}
  /\ shown' = IF Current(q) THEN [shown EXCEPT !.view = Folded(@, q.rows)] ELSE shown
  /\ UNCHANGED <<server, sub, queue, sock, gen, blind, spent>>

\* The rack after a change of stage follows the generation; the poll and the
\* row after an intent follow the run that is shown.
Refreshes(q) ==
  /\ q.kind \in {"lanes", "poll", "intent"} /\ Answered(q)
  /\ shown' = IF (q.kind = "lanes" /\ Current(q)) \/ (q.kind = "poll" /\ shown.run = q.run)
              THEN [shown EXCEPT !.lanes = q.run]
              ELSE IF q.kind = "intent" /\ shown.run = q.run
              THEN [shown EXCEPT !.stage = q.row] ELSE shown
  /\ UNCHANGED <<server, sub, queue, sock, gen, pending, blind, spent>>

\* A request fails: the console keeps what it has.
Fails(q) ==
  /\ q \in asked /\ spent < MaxSpent /\ asked' = asked \ {q}
  /\ spent' = spent + 1
  /\ pending' = IF q.kind = "catchup" THEN pending \ {q.thread} ELSE pending
  /\ blind' = (blind \/ (q.kind = "resync" /\ Current(q)))
  /\ UNCHANGED <<server, sub, queue, sock, gen, shown>>

-----------------------------------------------------------------------------
Receives == ReceiveStep \/ ReceiveDelta \/ ReceiveStage \/ ReceiveDrop

Next ==
  \/ \E t \in Threads : Store(t) \/ Delta(t)
  \/ \E t \in Threads : \E n \in Seqs : PublishStep(t, n) \/ RelayAgain(t, n)
  \/ \E r \in Runs : RunEnds(r) \/ PublishStage(r) \/ OpenRun(r)
  \/ Accept \/ Subscribe \/ OnOpen \/ Cut \/ Refused \/ Reconnect
  \/ ReceiveStep \/ ReceiveDelta \/ ReceiveStage \/ ReceiveDrop
  \/ CloseRun \/ \E kind \in {"poll", "intent"} : Poll(kind)
  \/ \E q \in asked :
       ReadRow(q) \/ ReadPage(q) \/ Opens(q) \/ Resyncs(q) \/ CatchesUp(q) \/ Refreshes(q) \/ Fails(q)

Progress ==
  \/ Accept \/ Subscribe \/ OnOpen \/ Reconnect \/ Receives
  \/ \E q \in asked : ReadRow(q) \/ ReadPage(q) \/ Opens(q) \/ Resyncs(q) \/ CatchesUp(q) \/ Refreshes(q)

\* The server answers, the endpoint subscribes, the browser reads its socket and
\* its timer fires: one of them moves whenever one can, which suffices as there
\* are finitely many frames.  Nobody has to write, to end, or to open anything.
Fairness == WF_vars(Progress)

Spec == Init /\ [][Next]_vars /\ Fairness

-----------------------------------------------------------------------------
\* What is on the screen belongs to one run: its rack, its bubbles, and of each of
\* its threads a history in the order of seq, each event once and none that is not
\* durable, however late an answer comes (openRunGen, run.ts:32-38).  A run is shown
\* as ended only if it has ended.
ShowsTheRun ==
  /\ shown.lanes = shown.run
  /\ \A t \in shown.bubbles : RunOf[t] = shown.run
  /\ \A t \in Threads : \A i \in 1..Len(shown.view[t]) :
       /\ RunOf[t] = shown.run /\ shown.view[t][i] < stored[t]
       /\ \A k \in 1..(i - 1) : shown.view[t][k] < shown.view[t][i]
  /\ shown.stage = "ended" => shown.run # NoRun /\ runStage[shown.run] # "working"

Missed(t, n) == (sock = "waiting" \/ sub = "evicted") /\ shown.run = RunOf[t] /\ n < stored[t]
CaughtUp(t, n) == n \in ToSet(shown.view[t]) \/ sock = "none" \/ blind

\* The server sorts the events of other threads of the run before this one, which is not
\* on the first page; the next page begins after the newest seq of any thread, so it may
\* be passed over (run.ts:91, sessions.py:69).
Earlier(t) ==
  {e \in Threads \X Seqs : RunOf[e[1]] = RunOf[t] /\ e[1] < t /\ e[2] < stored[e[1]]}
PassedOver(t, n) == Earlier(t) # {} /\ Cardinality(Earlier(t)) + n >= Page

\* A console that was cut off or evicted sees in the end every event that was durable by
\* then (relay.py, "the client resyncs on reconnect"), as many pages as its thread may
\* fill, unless the user leaves, the question that follows fails, or the backend refuses
\* it; but for an event behind other threads of the run and beyond the first page.
SeesWhatItMissed ==
  \A t \in Threads : \A n \in 0..(Events[t] - 1) :
    Missed(t, n) ~> CaughtUp(t, n) \/ PassedOver(t, n)

\* What run.ts:76-78 says of the pages: one bounded page must never truncate a long
\* run's tail, so the console pages until the run is exhausted.
NeverTruncated ==
  \A t \in Threads : \A n \in 0..(Events[t] - 1) : Missed(t, n) ~> CaughtUp(t, n)
=============================================================================
