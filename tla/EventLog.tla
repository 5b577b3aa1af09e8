------------------------------ MODULE EventLog ------------------------------
(***************************************************************************)
(* What the events of one thread promise their readers (the events table   *)
(* and the frames relayed from it, events/bus.py and db/models/event.py):  *)
(* an append-only log without gaps that holds a worker's event at most     *)
(* once, and frames that show an event at its place in that log.           *)
(***************************************************************************)
EXTENDS Naturals, Sequences

CONSTANTS
  WorkerEvents,  \* events a worker emits; each carries its own event_uid
  Own            \* an event the backend writes itself; it has no uid

VARIABLES
  log,    \* log[i] is the event stored with seq i - 1
  shown   \* the <<place, event>> pairs relayed to subscribers

Entries == {<<i, log[i]>> : i \in 1..Len(log)}

Init == log = <<>> /\ shown = {}

\* A worker's event is stored once, and may be shown at once.
Record(e) ==
  /\ \A i \in 1..Len(log) : log[i] # e
  /\ log' = Append(log, e)
  /\ shown' \in {shown, shown \cup {<<Len(log) + 1, e>>}}

\* The backend's own rows: a test run comes with its screenshots.
RecordOwn ==
  /\ log' \in {log \o <<Own>>, log \o <<Own, Own>>}
  /\ UNCHANGED shown

\* A stored event is shown (again).
Show ==
  /\ \E x \in Entries : shown' = shown \cup {x}
  /\ UNCHANGED log

Next == (\E e \in WorkerEvents : Record(e)) \/ RecordOwn \/ Show

Spec == Init /\ [][Next]_<<log, shown>>
=============================================================================
