-------------------------- MODULE Services_proofs --------------------------
(***************************************************************************)
(* What starts work, and does not start it twice: the slots of the fleet,  *)
(* for any number of replicas, lanes and repositories, any cap, and with   *)
(* or without database reservations; proposals and ideas, for any number   *)
(* of calls; and webhooks, for any triggers, cap and number of events.     *)
(* And what work leaves behind: the blocks a run is given, for any items,  *)
(* runs, lanes and size of the cache; and the distiller's nights, for any  *)
(* set of runs, corpus and draft bounds.                                   *)
(***************************************************************************)
EXTENDS Capacity, Promotions, Triggers, Knowledge, Distiller, FiniteSetTheorems,
        SequenceTheorems, WellFoundedInduction, TLAPS

-----------------------------------------------------------------------------
(* The inductive invariant.                                                *)

\* A spawn in progress works for a lane.
Busy == \A r \in Replicas : spawnPc[r] # "idle" => lane[r] \in Lanes

\* No lane is worked for twice.
Alone == \A r, q \in Replicas : lane[r] = lane[q] /\ lane[r] # NoLane => r = q

\* A spawn that has no row yet has the only right to make one.
Fresh == \A r \in Passed : row[lane[r]] = "none"

\* A lane is stamped "running" once.
StampedOnce == \A l \in reopened : row[l] # "none" /\ by[l] = NoReplica

Shape == CapTypeOK /\ Busy /\ Alone /\ Fresh /\ StampedOnce

LEMMA InitShape == CapInit => Shape
  BY CapacityAssumption
  DEF CapInit, Shape, CapTypeOK, Busy, Alone, Fresh, StampedOnce, Passed, SpawnPcs

\* The acquisition, which no row takes part in.
LEMMA AcquireShape ==
  ASSUME Shape, NEW r \in Replicas,
         (\E l \in Lanes : Count(r, l)) \/ Check(r) \/ Hold(r) \/ Reserve(r)
  PROVE  Shape'
<1> USE CapacityAssumption
<1>1. CASE \E l \in Lanes : Count(r, l)
  <2> PICK l \in Lanes : Count(r, l)
    BY <1>1
  <2>1. Cardinality(Open) \in Nat
    BY FS_Subset, FS_CardinalityType DEF Open
  <2>2. spawnPc' \in [Replicas -> SpawnPcs] /\ \A q \in Replicas : q # r => spawnPc'[q] = spawnPc[q]
    BY DEF Count, Goes, Shape, CapTypeOK, SpawnPcs
  <2>3. lane' = [lane EXCEPT ![r] = l] /\ row[l] = "none" /\ \A q \in Replicas : lane[q] # l
    BY DEF Count
  <2>4. CapTypeOK'
    BY <2>1, <2>2, <2>3 DEF Count, Shape, CapTypeOK
  <2>5. Busy' /\ Alone'
    BY <2>2, <2>3 DEF Shape, CapTypeOK, Busy, Alone
  <2>6. Fresh' /\ StampedOnce'
    BY <2>2, <2>3 DEF Count, Shape, CapTypeOK, Fresh, StampedOnce, Passed
  <2> QED
    BY <2>4, <2>5, <2>6 DEF Shape
<1>2. CASE Check(r) \/ Hold(r) \/ Reserve(r)
  <2>1. /\ spawnPc' \in [Replicas -> SpawnPcs] /\ \A q \in Replicas : q # r => spawnPc'[q] = spawnPc[q]
        /\ spawnPc[r] \in {"counted", "checked", "held"}
    BY <1>2 DEF Check, Hold, Reserve, Goes, Shape, CapTypeOK, SpawnPcs
  <2>2. lane' = lane /\ row' = row /\ by' = by /\ reopened' = reopened
    BY <1>2 DEF Check, Hold, Reserve
  <2>3. lane[r] \in Lanes
    BY <2>1 DEF Shape, Busy
  <2>4. tokens' \subseteq Lanes /\ old' \subseteq tokens'
    BY <1>2, <2>3 DEF Check, Hold, Reserve, Shape, CapTypeOK
  <2>5. CapTypeOK'
    BY <1>2, <2>1, <2>2, <2>4 DEF Check, Hold, Reserve, Shape, CapTypeOK
  <2>6. r \in Passed
    BY <2>1 DEF Passed
  <2>7. Passed' \subseteq Passed
    BY <2>1, <2>6 DEF Passed
  <2>8. Busy' /\ Alone' /\ Fresh' /\ StampedOnce'
    BY <2>1, <2>2, <2>3, <2>7 DEF Shape, Busy, Alone, Fresh, StampedOnce
  <2> QED
    BY <2>5, <2>8 DEF Shape
<1> QED
  BY <1>1, <1>2

\* The row and the end of the reservation.
LEMMA SpawnShape ==
  ASSUME Shape, NEW r \in Replicas, InsertRow(r) \/ Release(r) \/ ReleaseFails(r)
  PROVE  Shape'
<1> USE CapacityAssumption
<1>1. spawnPc[r] \in {"reserved", "inserted", "clash"} /\ lane[r] \in Lanes /\ lane' = lane
  BY DEF InsertRow, Release, ReleaseFails, Shape, Busy
<1>2. /\ spawnPc' \in [Replicas -> SpawnPcs] /\ \A q \in Replicas : q # r => spawnPc'[q] = spawnPc[q]
      /\ spawnPc'[r] \in {"inserted", "clash", "done", "refused"}
  BY DEF InsertRow, Release, ReleaseFails, Goes, Shape, CapTypeOK, SpawnPcs
<1>3. Busy' /\ Alone'
  BY <1>1, <1>2 DEF Shape, Busy, Alone
<1>4. Passed' = Passed \ {r}
  BY <1>2 DEF Passed
<1>5. CASE InsertRow(r)
  <2>1. spawnPc[r] = "reserved" /\ row[lane[r]] = "none"
    BY <1>5 DEF InsertRow, Shape, Fresh, Passed
  <2>2. \/ row' = [row EXCEPT ![lane[r]] = "open"] /\ by' = [by EXCEPT ![lane[r]] = r]
        \/ row' = row /\ by' = by
    BY <1>5 DEF InsertRow
  <2>3. CapTypeOK'
    BY <1>1, <1>2, <1>5, <2>2 DEF InsertRow, Shape, CapTypeOK
  <2>4. lane[r] \notin reopened
    BY <2>1 DEF Shape, StampedOnce
  <2>5. \A q \in Passed' : row'[lane[q]] = "none"
    <3> TAKE q \in Passed'
    <3>1. q \in Passed /\ q # r /\ q \in Replicas
      BY <1>4 DEF Passed
    <3>2. row[lane[q]] = "none" /\ lane[q] \in Lanes /\ lane[q] # lane[r]
      BY <1>1, <3>1 DEF Shape, CapTypeOK, Fresh, Busy, Alone, Passed
    <3> QED
      BY <2>2, <3>2 DEF Shape, CapTypeOK
  <2>6. StampedOnce'
    BY <1>5, <2>2, <2>4 DEF InsertRow, Shape, CapTypeOK, StampedOnce
  <2> QED
    BY <1>1, <1>3, <2>3, <2>5, <2>6 DEF Shape, Fresh
<1>6. CASE Release(r) \/ ReleaseFails(r)
  <2>1. row' = row /\ reopened' = reopened
    BY <1>6 DEF Release, ReleaseFails
  <2>2. by' = by \/ by' = [by EXCEPT ![lane[r]] = NoReplica]
    BY <1>6 DEF Release, ReleaseFails
  <2>3. CapTypeOK'
    BY <1>1, <1>2, <1>6, <2>2 DEF Release, ReleaseFails, Shape, CapTypeOK
  <2>4. Fresh' /\ StampedOnce'
    BY <1>1, <1>4, <2>1, <2>2 DEF Shape, CapTypeOK, Fresh, StampedOnce
  <2> QED
    BY <1>3, <2>3, <2>4 DEF Shape
<1> QED
  BY <1>5, <1>6

\* The end of a call, and of a process.
LEMMA LeaveShape ==
  ASSUME Shape, NEW r \in Replicas, Return(r) \/ ReplicaCrash(r)
  PROVE  Shape'
<1> USE CapacityAssumption
<1>1. spawnPc' = [spawnPc EXCEPT ![r] = "idle"] /\ lane' = [lane EXCEPT ![r] = NoLane]
  BY DEF Return, ReplicaCrash, Goes
<1>2. row' = row /\ reopened' = reopened
  BY DEF Return, ReplicaCrash
<1>3. /\ by' \in [Lanes -> Replicas \cup {NoReplica}]
      /\ \A l \in Lanes : by[l] = NoReplica => by'[l] = NoReplica
  BY DEF Return, ReplicaCrash, Shape, CapTypeOK
<1>4. lost' \subseteq Lanes
  BY DEF Return, ReplicaCrash, Shape, CapTypeOK
<1>5. CapTypeOK'
  BY <1>1, <1>2, <1>3, <1>4 DEF Return, ReplicaCrash, Shape, CapTypeOK, SpawnPcs
<1>6. Busy' /\ Alone'
  BY <1>1 DEF Shape, CapTypeOK, Busy, Alone
<1>7. Passed' \subseteq Passed \ {r}
  BY <1>1 DEF Shape, CapTypeOK, Passed
<1>8. \A q \in Replicas : q # r => lane'[q] = lane[q]
  BY <1>1 DEF Shape, CapTypeOK
<1>9. Fresh' /\ StampedOnce'
  BY <1>2, <1>3, <1>7, <1>8 DEF Shape, CapTypeOK, Fresh, StampedOnce, Passed
<1> QED
  BY <1>5, <1>6, <1>9 DEF Shape

\* The last write of a spawn, the closing of lanes and the age of reservations.
LEMMA RowShape ==
  ASSUME Shape,
         (\E l \in Lanes : Stamp(l) \/ Fail(l) \/ Age(l)) \/ (\E L \in SUBSET Open : Close(L))
  PROVE  Shape'
<1> USE CapacityAssumption
<1>1. lane' = lane /\ spawnPc' = spawnPc
  BY DEF Stamp, Fail, Age, Close
<1>2. Busy' /\ Alone' /\ Passed' = Passed
  BY <1>1 DEF Shape, Busy, Alone, Passed
<1>3. CASE \E l \in Lanes : Stamp(l) \/ Fail(l)
  <2> PICK l \in Lanes : Stamp(l) \/ Fail(l)
    BY <1>3
  <2>1. by[l] # NoReplica /\ by' = [by EXCEPT ![l] = NoReplica] /\ \A r \in Replicas : lane[r] # l
    BY DEF Stamp, Fail
  <2>2. /\ row' \in [Lanes -> {"none", "open", "closed"}]
        /\ \A m \in Lanes : m # l => row'[m] = row[m]
        /\ row' # row => row'[l] \in {"open", "closed"}
    BY DEF Stamp, Fail, Shape, CapTypeOK
  <2>3. reopened' = reopened \/ (reopened' = reopened \cup {l} /\ row'[l] = "open")
    BY DEF Stamp, Fail, Shape, CapTypeOK
  <2>4. CapTypeOK'
    BY <2>1, <2>2, <2>3 DEF Stamp, Fail, Shape, CapTypeOK
  <2>5. Fresh'
    BY <1>1, <1>2, <2>1, <2>2 DEF Shape, CapTypeOK, Fresh, Busy, Passed
  <2>6. StampedOnce'
    BY <2>1, <2>2, <2>3 DEF Shape, CapTypeOK, StampedOnce
  <2> QED
    BY <1>2, <2>4, <2>5, <2>6 DEF Shape
<1>4. CASE \E l \in Lanes : Age(l)
  BY <1>1, <1>2, <1>4 DEF Age, Shape, CapTypeOK, Fresh, StampedOnce
<1>5. CASE \E L \in SUBSET Open : Close(L)
  <2> PICK L \in SUBSET Open : Close(L)
    BY <1>5
  <2>1. /\ row' \in [Lanes -> {"none", "open", "closed"}]
        /\ \A l \in Lanes : (row'[l] = "none") <=> (row[l] = "none")
    BY DEF Close, Open, Shape, CapTypeOK
  <2>2. CapTypeOK'
    BY <2>1 DEF Close, Shape, CapTypeOK
  <2>3. \A r \in Passed : lane[r] \in Lanes
    BY DEF Shape, Busy, Passed
  <2>4. Fresh' /\ StampedOnce'
    BY <1>1, <1>2, <2>1, <2>3 DEF Close, Shape, CapTypeOK, Fresh, StampedOnce
  <2> QED
    BY <1>2, <2>2, <2>4 DEF Shape
<1> QED
  BY <1>3, <1>4, <1>5

LEMMA StutterShape ==
  ASSUME Shape, UNCHANGED capVars
  PROVE  Shape'
  BY DEF Shape, CapTypeOK, Busy, Alone, Fresh, StampedOnce, Passed, capVars

LEMMA StepShape ==
  ASSUME Shape, [CapNext]_capVars
  PROVE  Shape'
  BY AcquireShape, SpawnShape, LeaveShape, RowShape, StutterShape DEF CapNext

\* The invariant: a spawn in progress works for a lane of its own, which has no row
\* before it is inserted, and no lane is reopened twice.
THEOREM ShapeInvariance == CapSpec => []Shape
  BY InitShape, StepShape, PTL DEF CapSpec

\* Types, for every constant.
THEOREM CapTypeCorrect == CapSpec => []CapTypeOK
<1>1. Shape => CapTypeOK
  BY DEF Shape
<1> QED
  BY <1>1, ShapeInvariance, PTL

-----------------------------------------------------------------------------
(* The one writer of a repository.                                         *)

\* Writers of one repository are each other's rivals.
LEMMA RivalsMutual ==
  ASSUME NEW l \in Lanes, NEW m \in Lanes, m \in Rivals(l)
  PROVE  l \in Rivals(m)
  BY DEF Rivals

\* What opens at most one lane, without a rival, leaves one writer.
LEMMA OneOpens ==
  ASSUME OneWriter, NEW l \in Lanes, Open \cap Rivals(l) = {}, Open' \subseteq Open \cup {l}
  PROVE  OneWriter'
<1> SUFFICES ASSUME NEW m \in Open', NEW n \in Open' \cap Rivals(m)
             PROVE  FALSE
  BY DEF OneWriter, Rivals
<1>1. m \in Lanes /\ n \in Lanes /\ m # n
  BY DEF Open, Rivals
<1>2. n \in Open => m = l
  BY DEF OneWriter
<1>3. CASE n \in Open
  BY <1>2, <1>3
<1>4. CASE n = l
  BY <1>1, <1>4, RivalsMutual
<1> QED
  BY <1>3, <1>4

\* What opens no lane leaves one writer.
LEMMA NoneOpens ==
  ASSUME OneWriter, Open' \subseteq Open
  PROVE  OneWriter'
  BY DEF OneWriter, Rivals

LEMMA StepWriter ==
  ASSUME Shape, OneWriter, [CapNext]_capVars
  PROVE  OneWriter'
<1>1. CASE \E r \in Replicas : InsertRow(r)
  <2> PICK r \in Replicas : InsertRow(r)
    BY <1>1
  <2>1. lane[r] \in Lanes
    BY DEF InsertRow, Shape, Busy
  <2>2. CASE Open \cap Rivals(lane[r]) = {}
    <3>1. Open' \subseteq Open \cup {lane[r]}
      BY <2>1, <2>2 DEF InsertRow, Open, Shape, CapTypeOK
    <3> QED
      BY <2>1, <2>2, <3>1, OneOpens
  <2>3. CASE Open \cap Rivals(lane[r]) # {}
    BY <2>3, NoneOpens DEF InsertRow, Open
  <2> QED
    BY <2>2, <2>3
<1>2. CASE \E l \in Lanes : Stamp(l)
  <2> PICK l \in Lanes : Stamp(l)
    BY <1>2
  <2>1. CASE Open \cap Rivals(l) = {}
    <3>1. Open' \subseteq Open \cup {l}
      BY DEF Stamp, Open, Shape, CapTypeOK
    <3> QED
      BY <2>1, <3>1, OneOpens
  <2>2. CASE Open \cap Rivals(l) # {}
    BY <2>2, NoneOpens DEF Stamp, Open
  <2> QED
    BY <2>1, <2>2
<1>3. CASE \E l \in Lanes : Fail(l)
  <2>1. Open' \subseteq Open
    BY <1>3 DEF Fail, Open, Shape, CapTypeOK
  <2> QED
    BY <2>1, NoneOpens
<1>4. CASE \E L \in SUBSET Open : Close(L)
  <2>1. Open' \subseteq Open
    BY <1>4 DEF Close, Open
  <2> QED
    BY <2>1, NoneOpens
<1>5. CASE row' = row
  BY <1>5, NoneOpens DEF Open
<1>6. \A r \in Replicas :
        ((\E l \in Lanes : Count(r, l)) \/ Check(r) \/ Hold(r) \/ Reserve(r)
          \/ Release(r) \/ ReleaseFails(r) \/ Return(r) \/ ReplicaCrash(r)) => row' = row
  BY DEF Count, Check, Hold, Reserve, Release, ReleaseFails, Return, ReplicaCrash
<1>7. (\E l \in Lanes : Age(l)) \/ UNCHANGED capVars => row' = row
  BY DEF Age, capVars
<1> QED
  BY <1>1, <1>2, <1>3, <1>4, <1>5, <1>6, <1>7 DEF CapNext

\* Whatever the replicas read before they wrote, and whatever a late "running"
\* reopens, a repository has one lane that writes it.
THEOREM SingleWriter == CapSpec => []OneWriter
<1>1. CapInit => OneWriter
  BY CapacityAssumption DEF CapInit, OneWriter, Open
<1>2. Shape /\ OneWriter /\ [CapNext]_capVars => OneWriter'
  BY StepWriter
<1> QED
  BY <1>1, <1>2, ShapeInvariance, PTL DEF CapSpec

-----------------------------------------------------------------------------
(* The reservations.                                                       *)

LEMMA StepReservations ==
  ASSUME Shape, Shape', ReservationsDropped, [CapNext]_capVars
  PROVE  ReservationsDropped'
<1> DEFINE Holder(l, q) == lane[q] = l /\ spawnPc[q] \in {"reserved", "inserted", "clash"}
<1> SUFFICES ASSUME NEW l \in tokens' \ lost'
             PROVE  \E q \in Replicas : Holder(l, q)'
  BY DEF ReservationsDropped
<1>1. l \in Lanes
  BY DEF Shape, CapTypeOK
<1>2. lost \subseteq lost'
  BY DEF CapNext, Count, Check, Hold, Reserve, InsertRow, Release, ReleaseFails, Return, ReplicaCrash,
         Stamp, Fail, Age, Close, capVars
<1>3. l \in tokens => \E q \in Replicas : Holder(l, q)
  BY <1>2 DEF ReservationsDropped
<1>4. ASSUME NEW r \in Replicas,
             (\E m \in Lanes : Count(r, m)) \/ Check(r) \/ Hold(r) \/ Return(r)
      PROVE  \E q \in Replicas : Holder(l, q)'
  <2>1. tokens' = tokens /\ spawnPc[r] \notin {"reserved", "inserted", "clash"}
    BY <1>4 DEF Count, Check, Hold, Return
  <2>2. \A q \in Replicas : q # r => spawnPc'[q] = spawnPc[q] /\ lane'[q] = lane[q]
    BY <1>4 DEF Count, Check, Hold, Return, Goes, Shape, CapTypeOK
  <2> QED
    BY <1>3, <2>1, <2>2
<1>5. ASSUME NEW r \in Replicas, Reserve(r)
      PROVE  \E q \in Replicas : Holder(l, q)'
  <2>1. \A q \in Replicas : q # r => spawnPc'[q] = spawnPc[q] /\ lane'[q] = lane[q]
    BY <1>5 DEF Reserve, Goes, Shape, CapTypeOK
  <2>2. l \in tokens \/ (l = lane[r] /\ lane'[r] = lane[r] /\ spawnPc'[r] = "reserved")
    BY <1>5 DEF Reserve, Goes, Shape, CapTypeOK
  <2>3. spawnPc[r] = "held"
    BY <1>5 DEF Reserve
  <2> QED
    BY <1>3, <2>1, <2>2, <2>3
<1>6. ASSUME NEW r \in Replicas, InsertRow(r)
      PROVE  \E q \in Replicas : Holder(l, q)'
  <2>1. /\ tokens' = tokens /\ lane' = lane /\ spawnPc'[r] \in {"inserted", "clash"}
        /\ \A q \in Replicas : q # r => spawnPc'[q] = spawnPc[q]
    BY <1>6 DEF InsertRow, Goes, Shape, CapTypeOK
  <2> QED
    BY <1>3, <2>1
<1>7. ASSUME NEW r \in Replicas, Release(r) \/ ReleaseFails(r) \/ ReplicaCrash(r)
      PROVE  \E q \in Replicas : Holder(l, q)'
  <2>1. l \in tokens
    BY <1>7 DEF Release, ReleaseFails, ReplicaCrash
  <2>2. l # lane[r]
    BY <1>1, <1>7, CapacityAssumption DEF Release, ReleaseFails, ReplicaCrash
  <2>3. \A q \in Replicas : q # r => spawnPc'[q] = spawnPc[q] /\ lane'[q] = lane[q]
    BY <1>7 DEF Release, ReleaseFails, ReplicaCrash, Goes, Shape, CapTypeOK
  <2> QED
    BY <1>3, <2>1, <2>2, <2>3
<1>8. CASE \/ \E m \in Lanes : Stamp(m) \/ Fail(m) \/ Age(m)
           \/ \E L \in SUBSET Open : Close(L)
           \/ UNCHANGED capVars
  <2>1. tokens' = tokens /\ spawnPc' = spawnPc /\ lane' = lane
    BY <1>8 DEF Stamp, Fail, Age, Close, capVars
  <2> QED
    BY <1>3, <2>1
<1> QED
  BY <1>4, <1>5, <1>6, <1>7, <1>8 DEF CapNext

\* A reservation is dropped by the spawn that made it, unless the process ended or
\* the deletion failed.
THEOREM NoReservationLeaks == CapSpec => []ReservationsDropped
<1>1. CapInit => ReservationsDropped
  BY DEF CapInit, ReservationsDropped
<1>2. Shape /\ Shape' /\ ReservationsDropped /\ [CapNext]_capVars => ReservationsDropped'
  BY StepReservations
<1> QED
  BY <1>1, <1>2, ShapeInvariance, PTL DEF CapSpec

-----------------------------------------------------------------------------
(* The cap.                                                                *)

LEMMA Countable ==
  ASSUME Shape
  PROVE  /\ IsFiniteSet(Open) /\ IsFiniteSet(Passed) /\ IsFiniteSet(reopened)
         /\ Cardinality(Open) \in Nat /\ Cardinality(Passed) \in Nat
         /\ Cardinality(reopened) \in Nat /\ Cardinality(Replicas) \in Nat
         /\ Cardinality(Passed) <= Cardinality(Replicas)
<1>1. Open \in SUBSET Lanes /\ Passed \in SUBSET Replicas /\ reopened \in SUBSET Lanes
  BY DEF Open, Passed, Shape, CapTypeOK
<1> QED
  BY <1>1, CapacityAssumption, FS_Subset, FS_CardinalityType

LEMMA AddOne ==
  ASSUME NEW S, IsFiniteSet(S), NEW x, NEW T \in SUBSET (S \cup {x})
  PROVE  IsFiniteSet(T) /\ Cardinality(T) <= Cardinality(S) + 1
<1>1. /\ IsFiniteSet(S \cup {x})
      /\ Cardinality(S \cup {x}) = IF x \in S THEN Cardinality(S) ELSE Cardinality(S) + 1
  BY FS_AddElement, Zenon
<1>2. IsFiniteSet(T) /\ Cardinality(T) <= Cardinality(S \cup {x})
  BY <1>1, FS_Subset
<1>3. Cardinality(S) \in Nat /\ Cardinality(T) \in Nat
  BY <1>2, FS_CardinalityType
<1> QED
  BY <1>1, <1>2, <1>3

\* A step that opens nothing and passes nobody keeps the bound.
LEMMA NothingTaken ==
  ASSUME Shape, Shape', CapBound, Open' \subseteq Open, Passed' \subseteq Passed,
         reopened' = reopened
  PROVE  CapBound'
<1>1. Cardinality(Open') <= Cardinality(Open) /\ Cardinality(Passed') <= Cardinality(Passed)
  BY Countable, FS_Subset
<1>2. /\ Cardinality(Open') \in Nat /\ Cardinality(Passed') \in Nat
      /\ Cardinality(reopened') = Cardinality(reopened)
  <2>1. IsFiniteSet(Open') /\ IsFiniteSet(Passed')
    BY Countable, FS_Subset
  <2> QED
    BY <2>1, FS_CardinalityType
<1> QED
  BY <1>1, <1>2, Countable, CapacityAssumption DEF CapBound

\* A lane that takes its row gives its place among the passed for it.
LEMMA InsertBound ==
  ASSUME Shape, Shape', CapBound, NEW r \in Replicas, InsertRow(r)
  PROVE  CapBound'
<1>1. lane[r] \in Lanes /\ r \in Passed
  BY DEF InsertRow, Shape, Busy, Passed
<1>2. Passed' = Passed \ {r} /\ reopened' = reopened
  BY DEF InsertRow, Goes, Passed, Shape, CapTypeOK
<1>3. Open' \in SUBSET (Open \cup {lane[r]})
  BY <1>1 DEF InsertRow, Open, Shape, CapTypeOK
<1>4. Cardinality(Passed') = Cardinality(Passed) - 1
  BY <1>1, <1>2, Countable, FS_RemoveElement
<1>5. IsFiniteSet(Open') /\ Cardinality(Open') <= Cardinality(Open) + 1
  BY <1>3, Countable, AddOne
<1>6. Cardinality(Open') \in Nat /\ Cardinality(reopened') = Cardinality(reopened)
  BY <1>2, <1>5, FS_CardinalityType
<1> QED
  BY <1>4, <1>5, <1>6, Countable, CapacityAssumption DEF CapBound

\* A lane that is reopened is reopened for the first time.
LEMMA StampBound ==
  ASSUME Shape, Shape', CapBound, NEW l \in Lanes, Stamp(l)
  PROVE  CapBound'
<1>1. Passed' = Passed
  BY DEF Stamp, Passed
<1>2. CASE row' = row /\ reopened' = reopened
  BY <1>1, <1>2, NothingTaken DEF Open
<1>3. CASE ~(row' = row /\ reopened' = reopened)
  <2>1. reopened' = reopened \cup {l} /\ l \notin reopened
    BY <1>3 DEF Stamp, Shape, StampedOnce
  <2>2. Open' \in SUBSET (Open \cup {l})
    BY DEF Stamp, Open, Shape, CapTypeOK
  <2>3. Cardinality(reopened') = Cardinality(reopened) + 1
    BY <2>1, Countable, FS_AddElement
  <2>4. IsFiniteSet(Open') /\ Cardinality(Open') <= Cardinality(Open) + 1
    BY <2>2, Countable, AddOne
  <2>5. Cardinality(Open') \in Nat /\ Cardinality(Passed') = Cardinality(Passed)
    BY <1>1, <2>4, FS_CardinalityType
  <2> QED
    BY <2>3, <2>4, <2>5, Countable, CapacityAssumption DEF CapBound
<1> QED
  BY <1>2, <1>3

\* Who passes the count has counted fewer lanes than the cap, and there is one spawn
\* for each replica.
LEMMA CountBound ==
  ASSUME Shape, Shape', CapBound, NEW r \in Replicas, NEW l \in Lanes, Count(r, l)
  PROVE  CapBound'
<1>1. row' = row /\ reopened' = reopened /\ Open' = Open
  BY DEF Count, Open
<1>2. CASE Cardinality(Open) < Cap
  <2>1. Cardinality(Passed') \in Nat /\ Cardinality(Passed') <= Cardinality(Replicas)
    <3>1. Passed' \in SUBSET Replicas
      BY DEF Passed
    <3> QED
      BY <3>1, CapacityAssumption, FS_Subset, FS_CardinalityType
  <2>2. Cardinality(Open') = Cardinality(Open) /\ Cardinality(reopened') = Cardinality(reopened)
    BY <1>1
  <2> QED
    BY <1>2, <2>1, <2>2, Countable, CapacityAssumption DEF CapBound
<1>3. CASE ~(Cardinality(Open) < Cap)
  <2>1. Passed' \subseteq Passed
    BY <1>3 DEF Count, Goes, Passed, Shape, CapTypeOK
  <2> QED
    BY <1>1, <2>1, NothingTaken
<1> QED
  BY <1>2, <1>3

LEMMA StepBound ==
  ASSUME Shape, Shape', CapBound, [CapNext]_capVars
  PROVE  CapBound'
<1>1. ASSUME NEW r \in Replicas,
             Check(r) \/ Hold(r) \/ Reserve(r) \/ Release(r) \/ ReleaseFails(r)
               \/ Return(r) \/ ReplicaCrash(r)
      PROVE  CapBound'
  <2>1. row' = row /\ reopened' = reopened
    BY <1>1 DEF Check, Hold, Reserve, Release, ReleaseFails, Return, ReplicaCrash
  <2>2. /\ \A q \in Replicas : q # r => spawnPc'[q] = spawnPc[q]
        /\ spawnPc'[r] \in {"checked", "held", "reserved"} => r \in Passed
        /\ spawnPc'[r] # "counted"
    BY <1>1 DEF Check, Hold, Reserve, Release, ReleaseFails, Return, ReplicaCrash, Goes, Passed, Shape,
                CapTypeOK
  <2>3. Passed' \subseteq Passed
    BY <2>2 DEF Passed
  <2>4. Open' = Open
    BY <2>1 DEF Open
  <2> QED
    BY <2>1, <2>3, <2>4, NothingTaken
<1>2. CASE (\E l \in Lanes : Fail(l) \/ Age(l)) \/ (\E L \in SUBSET Open : Close(L))
           \/ UNCHANGED capVars
  <2>1. spawnPc' = spawnPc /\ reopened' = reopened
    BY <1>2 DEF Fail, Age, Close, capVars
  <2>2. Open' \subseteq Open
    BY <1>2 DEF Fail, Age, Close, capVars, Open, Shape, CapTypeOK
  <2>3. Passed' = Passed
    BY <2>1 DEF Passed
  <2> QED
    BY <2>1, <2>2, <2>3, NothingTaken
<1> QED
  BY <1>1, <1>2, CountBound, InsertBound, StampBound DEF CapNext

\* The cap is passed by at most one lane for each other replica and by the lanes a
\* late "running" has reopened.
THEOREM CapNearlyHeld == CapSpec => []CapBound
<1>1. CapInit => CapBound
  <2> SUFFICES ASSUME CapInit PROVE CapBound
    OBVIOUS
  <2>1. Open = {} /\ Passed = {} /\ reopened = {}
    BY DEF CapInit, Open, Passed
  <2>2. Cardinality(Replicas) \in Nat
    BY CapacityAssumption, FS_CardinalityType
  <2> QED
    BY <2>1, <2>2, CapacityAssumption, FS_EmptySet DEF CapBound
<1>2. Shape /\ Shape' /\ CapBound /\ [CapNext]_capVars => CapBound'
  BY StepBound
<1> QED
  BY <1>1, <1>2, ShapeInvariance, PTL DEF CapSpec

-----------------------------------------------------------------------------
(* Proposals and ideas: one run each.                                      *)

CallRow == [pc : CallPcs, on : Things \cup {NoCall}, run : 0..MaxRuns]

\* What a call is about, and what its row can say.
Kinds ==
  /\ call \in [Calls -> CallRow] /\ runOf \in Seq(Things)
  /\ \A c \in Calls :
       /\ ~CallAt(c, "new") => call[c].on \in Things
       /\ call[c].pc \in {"dismissing", "drafted"} => call[c].on \in Proposals
       /\ CallAt(c, "asked") => call[c].on \in Ideas
  /\ status \in [Things -> Statuses]
  /\ \A p \in Proposals : status[p] \in {"proposed", "accepting", "accepted", "dismissed"}
  /\ \A i \in Ideas : status[i] \in {"open", "summarized", "promoting", "promoted"}

\* Call c holds a claim on x.
Works(c, x) == call[c].pc \in {"claimed", "made", "failed"} /\ call[c].on = x

\* A thing whose claims were respected has one claimant, while its row says so, and
\* a run only when that claimant has made it or the row is settled.
Sound(x) == x \notin orphan \cup undone =>
  /\ \A c, d \in Calls : Works(c, x) /\ Works(d, x) => c = d
  /\ \A c \in Calls : Works(c, x) => status[x] \in Claims
  /\ \A n \in RunsFor(x) :
       /\ status[x] \in Claims \cup {"accepted", "promoted"}
       /\ \A c \in Calls : Works(c, x) => CallAt(c, "made")
  /\ \A n, k \in RunsFor(x) : n = k

PromInv == Kinds /\ \A x \in Things : Sound(x)

LEMMA CallGoing ==
  ASSUME Kinds, NEW c \in Calls, NEW pc \in CallPcs, CallGoes(c, pc)
  PROVE  /\ call' \in [Calls -> CallRow]
         /\ call'[c].pc = pc /\ call'[c].on = call[c].on /\ call'[c].run = call[c].run
         /\ \A d \in Calls : d # c => call'[d] = call[d]
  BY DEF CallGoes, Kinds, CallRow

LEMMA CallStarting ==
  ASSUME Kinds, NEW c \in Calls, NEW pc \in CallPcs, NEW x \in Things, Starts(c, x, pc)
  PROVE  /\ call' \in [Calls -> CallRow] /\ CallAt(c, "new")
         /\ call'[c].pc = pc /\ call'[c].on = x
         /\ \A d \in Calls : d # c => call'[d] = call[d]
<1> PICK now \in CallRow : now = call[c]
  BY DEF Kinds
<1> DEFINE next == [now EXCEPT !.pc = pc, !.on = x]
<1>1. next \in CallRow /\ next.pc = pc /\ next.on = x
  BY DEF CallRow
<1>2. CallAt(c, "new") /\ call' = [call EXCEPT ![c] = next]
  BY DEF Starts, CallRow
<1> HIDE DEF next
<1> QED
  BY <1>1, <1>2 DEF Kinds

\* A run appended for y is no run of another thing.
LEMMA RunAdded ==
  ASSUME Kinds, NEW y \in Things, runOf' = Append(runOf, y)
  PROVE  /\ runOf' \in Seq(Things)
         /\ \A x : x # y => (RunsFor(x))' = RunsFor(x)
         /\ (RunsFor(y))' = RunsFor(y) \cup {Len(runOf) + 1}
<1>1. /\ Append(runOf, y) \in Seq(Things) /\ Len(Append(runOf, y)) = Len(runOf) + 1
      /\ \A i \in 1..Len(runOf) : Append(runOf, y)[i] = runOf[i]
      /\ Append(runOf, y)[Len(runOf) + 1] = y
  BY AppendProperties DEF Kinds
<1>2. /\ DOMAIN runOf = 1..Len(runOf) /\ Len(runOf) \in Nat
      /\ DOMAIN runOf' = 1..(Len(runOf) + 1)
  BY <1>1, LenProperties DEF Kinds
<1> QED
  BY <1>1, <1>2 DEF RunsFor

\* What a step that is about something else leaves of x.
LEMMA Elsewhere ==
  ASSUME NEW x \in Things, Sound(x), status'[x] = status[x],
         orphan \subseteq orphan', undone \subseteq undone',
         (RunsFor(x))' = RunsFor(x),
         \A d \in Calls : (Works(d, x))' =>
           Works(d, x) /\ (CallAt(d, "made") => (CallAt(d, "made"))')
  PROVE  (Sound(x))'
  BY DEF Sound, CallAt

\* A call that looks at no claim, or lets go of it, or fails before it has made a run.
LEMMA SoundStays ==
  ASSUME PromInv, NEW c \in Calls, status' = status, runOf' = runOf,
         orphan \subseteq orphan', undone \subseteq undone',
         \A d \in Calls : d # c => call'[d] = call[d],
         \A x \in Things : (Works(c, x))' => Works(c, x) /\ ~CallAt(c, "made")
  PROVE  \A x \in Things : (Sound(x))'
<1> SUFFICES ASSUME NEW x \in Things PROVE (Sound(x))'
  OBVIOUS
<1>1. Sound(x) /\ status'[x] = status[x] /\ (RunsFor(x))' = RunsFor(x)
  BY DEF PromInv, RunsFor
<1>2. ASSUME NEW d \in Calls, (Works(d, x))'
      PROVE  Works(d, x) /\ (CallAt(d, "made") => (CallAt(d, "made"))')
  BY <1>2 DEF Works, CallAt
<1> QED
  BY <1>1, <1>2, Elsewhere

\* What is free has neither a claimant nor a run.
LEMMA FreeIsFree ==
  ASSUME PromInv, NEW x \in Things, Free(x), x \notin orphan \cup undone
  PROVE  RunsFor(x) = {} /\ \A c \in Calls : ~Works(c, x)
<1>1. status[x] \notin Claims \cup {"accepted", "promoted"}
  BY DEF Free, PromInv, Kinds, Claims, Things
<1> QED
  BY <1>1 DEF PromInv, Sound

LEMMA PromBegin == PromotionsAssumption /\ PromInit => PromInv
<1> SUFFICES ASSUME PromotionsAssumption, PromInit PROVE PromInv
  OBVIOUS
<1>1. runOf \in Seq(Things) /\ DOMAIN runOf = {}
  BY EmptySeq DEF PromInit
<1>2. status \in [Things -> Statuses]
  BY DEF PromInit, Statuses, Things
<1>3. \A p \in Proposals : status[p] = "proposed"
  BY DEF PromInit, Things
<1>4. \A i \in Ideas : status[i] = "open"
  BY DEF PromInit, Things, PromotionsAssumption
<1>5. call \in [Calls -> CallRow] /\ \A c \in Calls : CallAt(c, "new")
  BY DEF PromInit, CallRow, CallPcs, CallAt, PromotionsAssumption
<1>6. Kinds
  BY <1>1, <1>2, <1>3, <1>4, <1>5 DEF Kinds, CallAt
<1>7. ASSUME NEW x \in Things PROVE Sound(x)
  <2>1. RunsFor(x) = {}
    BY <1>1 DEF RunsFor
  <2>2. \A c \in Calls : ~Works(c, x)
    BY <1>5 DEF Works, CallAt
  <2> QED
    BY <2>1, <2>2 DEF Sound
<1> QED
  BY <1>6, <1>7 DEF PromInv

\* The claim, and the calls that begin without one.
LEMMA PromStarts ==
  ASSUME PromotionsAssumption, PromInv, NEW c \in Calls, NEW x \in Things,
         ClaimRow(c, x) \/ (x \in Proposals /\ Dismiss(c, x)) \/ (x \in Ideas /\ Summarize(c, x))
  PROVE  PromInv'
<1>1. runOf' = runOf /\ orphan' = orphan /\ undone' = undone /\ Kinds
  BY DEF ClaimRow, Dismiss, Summarize, PromInv
<1>2. CASE ClaimRow(c, x) /\ Free(x)
  <2>1. Starts(c, x, "claimed") /\ "claimed" \in CallPcs
    BY <1>2 DEF ClaimRow, CallPcs
  <2>2. /\ call' \in [Calls -> CallRow] /\ CallAt(c, "new")
        /\ call'[c].pc = "claimed" /\ call'[c].on = x
        /\ \A d \in Calls : d # c => call'[d] = call[d]
    BY <1>1, <2>1, CallStarting
  <2>3. status' = [status EXCEPT ![x] = IF x \in Proposals THEN "accepting" ELSE "promoting"]
    BY <1>2 DEF ClaimRow
  <2>4. /\ status' \in [Things -> Statuses] /\ status'[x] \in Claims
        /\ \A y \in Things : y # x => status'[y] = status[y]
        /\ x \in Proposals => status'[x] = "accepting"
        /\ x \notin Proposals => status'[x] = "promoting"
    BY <2>3 DEF PromInv, Kinds, Statuses, Claims
  <2>5. /\ \A p \in Proposals : status'[p] \in {"proposed", "accepting", "accepted", "dismissed"}
        /\ \A i \in Ideas : i # x => status'[i] \in {"open", "summarized", "promoting", "promoted"}
    BY <2>4 DEF PromInv, Kinds, Things
  <2>6. x \in Ideas => x \notin Proposals
    BY DEF PromotionsAssumption
  <2>7. Kinds'
    BY <1>1, <2>2, <2>4, <2>5, <2>6 DEF Kinds, CallAt
  <2>8. (Sound(x))'
    <3> SUFFICES ASSUME x \notin orphan \cup undone PROVE (Sound(x))'
      BY <1>1 DEF Sound
    <3>1. RunsFor(x) = {} /\ \A d \in Calls : ~Works(d, x)
      BY <1>2, FreeIsFree
    <3>2. (RunsFor(x))' = {} /\ \A d \in Calls : (Works(d, x))' => d = c
      BY <1>1, <2>2, <3>1 DEF RunsFor, Works
    <3> QED
      BY <2>4, <3>2 DEF Sound
  <2>9. ASSUME NEW y \in Things, y # x PROVE (Sound(y))'
    <3>1. \A d \in Calls : (Works(d, y))' => d # c /\ call'[d] = call[d]
      BY <2>2, <2>9 DEF Works
    <3>2. Sound(y) /\ (RunsFor(y))' = RunsFor(y) /\ status'[y] = status[y]
      BY <1>1, <2>4, <2>9 DEF PromInv, RunsFor
    <3> QED
      BY <1>1, <3>1, <3>2, Elsewhere DEF Works, CallAt
  <2> QED
    BY <2>7, <2>8, <2>9 DEF PromInv
<1>3. CASE ~(ClaimRow(c, x) /\ Free(x))
  <2>1. /\ status' = status
        /\ \/ Starts(c, x, "refused")
           \/ x \in Proposals /\ Starts(c, x, "dismissing")
           \/ x \in Ideas /\ Starts(c, x, "asked")
    BY <1>3 DEF ClaimRow, Dismiss, Summarize
  <2>2. /\ call' \in [Calls -> CallRow]
        /\ call'[c].on = x /\ \A d \in Calls : d # c => call'[d] = call[d]
        /\ \/ call'[c].pc = "refused"
           \/ x \in Proposals /\ call'[c].pc = "dismissing"
           \/ x \in Ideas /\ call'[c].pc = "asked"
    BY <1>1, <2>1, CallStarting DEF CallPcs
  <2>3. Kinds'
    BY <1>1, <2>1, <2>2 DEF Kinds, CallAt
  <2>4. \A y \in Things : (Sound(y))'
    BY <1>1, <2>1, <2>2, SoundStays DEF Works
  <2> QED
    BY <2>3, <2>4 DEF PromInv
<1> QED
  BY <1>2, <1>3


\* The ceiling, and a run that could not be created or stamped.
LEMMA PromFails ==
  ASSUME PromInv, NEW c \in Calls, OverCeiling(c) \/ CreateFails(c) \/ StampFails(c)
  PROVE  PromInv'
<1> PICK y \in Things : y = call[c].on
  BY DEF OverCeiling, CreateFails, StampFails, PromInv, Kinds, CallAt
<1>1. Kinds /\ status' = status /\ undone' = undone
  BY DEF OverCeiling, CreateFails, StampFails, PromInv, Kinds, CallAt
<1>2. \E pc \in {"failed", "done"} : pc \in CallPcs /\ CallGoes(c, pc)
  BY DEF OverCeiling, CreateFails, StampFails, CallPcs
<1>3. /\ call' \in [Calls -> CallRow] /\ call'[c].pc \in {"failed", "done"}
      /\ call'[c].on = y /\ \A d \in Calls : d # c => call'[d] = call[d]
  BY <1>1, <1>2, CallGoing
<1>4. runOf' \in Seq(Things) => Kinds'
  BY <1>1, <1>3 DEF Kinds, CallAt
<1>5. CASE CallAt(c, "claimed") /\ runOf' = runOf /\ orphan' = orphan
  <2>1. \A x \in Things : (Sound(x))'
    BY <1>1, <1>3, <1>5, SoundStays DEF Works, CallAt
  <2> QED
    BY <1>1, <1>4, <1>5, <2>1 DEF PromInv, Kinds
<1>6. CASE CreateFails(c) /\ runOf' = Append(runOf, y) /\ orphan' = orphan \cup {y}
  <2>1. /\ runOf' \in Seq(Things)
        /\ \A x : x # y => (RunsFor(x))' = RunsFor(x)
    BY <1>1, <1>6, RunAdded
  <2>2. ASSUME NEW x \in Things, x # y PROVE (Sound(x))'
    <3>1. Sound(x) /\ (RunsFor(x))' = RunsFor(x)
      BY <2>1, <2>2 DEF PromInv
    <3>2. \A d \in Calls : (Works(d, x))' => d # c /\ call'[d] = call[d]
      BY <1>3, <2>2 DEF Works
    <3> QED
      BY <1>1, <1>6, <3>1, <3>2, Elsewhere DEF Works, CallAt
  <2>3. (Sound(y))'
    BY <1>6 DEF Sound
  <2> QED
    BY <1>4, <2>1, <2>2, <2>3 DEF PromInv
<1>7. CASE StampFails(c) /\ y \in Ideas
  <2>1. runOf' = runOf /\ orphan' = orphan \cup {y}
    BY <1>7 DEF StampFails
  <2>2. ASSUME NEW x \in Things, x # y PROVE (Sound(x))'
    <3>1. Sound(x) /\ (RunsFor(x))' = RunsFor(x)
      BY <2>1 DEF PromInv, RunsFor
    <3>2. \A d \in Calls : (Works(d, x))' => d # c /\ call'[d] = call[d]
      BY <1>3, <2>2 DEF Works
    <3> QED
      BY <1>1, <2>1, <3>1, <3>2, Elsewhere DEF Works, CallAt
  <2>3. (Sound(y))'
    BY <2>1 DEF Sound
  <2> QED
    BY <1>1, <1>4, <2>1, <2>2, <2>3 DEF PromInv, Kinds
<1>8. CASE StampFails(c) /\ y \notin Ideas
  <2>1. CallGoes(c, "done") /\ "done" \in CallPcs /\ runOf' = runOf /\ orphan' = orphan
    BY <1>8 DEF StampFails, CallPcs
  <2>2. call'[c].pc = "done"
    BY <1>1, <2>1, CallGoing
  <2>3. \A x \in Things : (Sound(x))'
    BY <1>1, <1>3, <2>1, <2>2, SoundStays DEF Works
  <2> QED
    BY <1>1, <1>4, <2>1, <2>3 DEF PromInv, Kinds
<1> QED
  BY <1>5, <1>6, <1>7, <1>8 DEF OverCeiling, CreateFails, StampFails

\* The claimant makes the one run.
LEMMA PromMakes ==
  ASSUME PromotionsAssumption, PromInv, NEW c \in Calls, CreateRun(c)
  PROVE  PromInv'
<1> PICK y \in Things : y = call[c].on
  BY DEF CreateRun, PromInv, Kinds, CallAt
<1>1. /\ Kinds /\ CallAt(c, "claimed")
      /\ status' = status /\ orphan' = orphan /\ undone' = undone
      /\ runOf' = Append(runOf, y)
  BY DEF CreateRun, PromInv, Kinds, CallAt
<1>2. Len(runOf) \in Nat /\ Len(runOf) + 1 \in 0..MaxRuns
  <2>1. Len(runOf) \in Nat
    BY <1>1, LenProperties DEF Kinds
  <2> QED
    BY <2>1 DEF CreateRun, PromotionsAssumption
<1>3. /\ call' \in [Calls -> CallRow] /\ call'[c].pc = "made" /\ call'[c].on = y
      /\ \A d \in Calls : d # c => call'[d] = call[d]
  <2>1. call' = [call EXCEPT ![c].pc = "made", ![c].run = Len(runOf) + 1]
    BY DEF CreateRun
  <2>2. call \in [Calls -> CallRow] /\ "made" \in CallPcs
    BY <1>1 DEF Kinds, CallPcs
  <2> HIDE DEF CallPcs
  <2> QED
    BY <1>2, <2>1, <2>2 DEF CallRow
<1>4. /\ runOf' \in Seq(Things)
      /\ \A x : x # y => (RunsFor(x))' = RunsFor(x)
      /\ (RunsFor(y))' = RunsFor(y) \cup {Len(runOf) + 1}
  BY <1>1, RunAdded
<1>5. Kinds'
  BY <1>1, <1>3, <1>4 DEF Kinds, CallAt
<1>6. ASSUME NEW x \in Things, x # y PROVE (Sound(x))'
  <2>1. Sound(x) /\ (RunsFor(x))' = RunsFor(x)
    BY <1>4, <1>6 DEF PromInv
  <2>2. \A d \in Calls : (Works(d, x))' => d # c /\ call'[d] = call[d]
    BY <1>3, <1>6 DEF Works
  <2> QED
    BY <1>1, <2>1, <2>2, Elsewhere DEF Works, CallAt
<1>7. (Sound(y))'
  <2> SUFFICES ASSUME y \notin orphan \cup undone PROVE (Sound(y))'
    BY <1>1 DEF Sound
  <2>1. Works(c, y) /\ \A d \in Calls : Works(d, y) => d = c
    BY <1>1 DEF Works, CallAt, PromInv, Sound
  <2>2. RunsFor(y) = {} /\ status[y] \in Claims
    BY <1>1, <2>1 DEF PromInv, Sound, CallAt
  <2>3. \A d \in Calls : (Works(d, y))' => d = c
    BY <1>3, <2>1 DEF Works
  <2>4. (RunsFor(y))' = {Len(runOf) + 1}
    BY <1>4, <2>2
  <2> QED
    BY <1>1, <1>3, <2>2, <2>3, <2>4 DEF Sound, CallAt
<1> QED
  BY <1>5, <1>6, <1>7 DEF PromInv


\* The row is stamped, or the claim given up: its thing has no claimant any more.
LEMMA PromLetsGo ==
  ASSUME PromotionsAssumption, PromInv, NEW c \in Calls, StampRow(c) \/ ReleaseClaim(c)
  PROVE  PromInv'
<1> PICK y \in Things : y = call[c].on
  BY DEF StampRow, ReleaseClaim, PromInv, Kinds, CallAt
<1>1. /\ Kinds /\ Works(c, y) /\ (StampRow(c) => CallAt(c, "made")) /\ (ReleaseClaim(c) => CallAt(c, "failed"))
      /\ orphan' = orphan /\ undone' = undone /\ runOf' = runOf
      /\ \E pc \in {"done", "refused"} : pc \in CallPcs /\ CallGoes(c, pc)
  BY DEF StampRow, ReleaseClaim, PromInv, Works, CallAt, CallPcs
<1>2. /\ call' \in [Calls -> CallRow] /\ call'[c].pc \in {"done", "refused"} /\ call'[c].on = y
      /\ \A d \in Calls : d # c => call'[d] = call[d]
  BY <1>1, CallGoing
<1>3. PICK word : /\ status' = [status EXCEPT ![y] = word]
                  /\ StampRow(c) => word = IF y \in Proposals THEN "accepted" ELSE "promoted"
                  /\ ReleaseClaim(c) => word = Released(y)
  <2>1. ~(StampRow(c) /\ ReleaseClaim(c))
    BY DEF StampRow, ReleaseClaim, CallAt
  <2>2. CASE StampRow(c)
    <3>1. status' = [status EXCEPT ![y] = IF y \in Proposals THEN "accepted" ELSE "promoted"]
      BY <2>2 DEF StampRow
    <3> QED
      BY <2>1, <2>2, <3>1
  <2>3. CASE ReleaseClaim(c)
    <3>1. status' = [status EXCEPT ![y] = Released(y)]
      BY <2>3 DEF ReleaseClaim
    <3> QED
      BY <2>1, <2>3, <3>1
  <2> QED
    BY <2>2, <2>3
<1>4. /\ word \in Statuses
      /\ y \in Proposals => word \in {"proposed", "accepting", "accepted", "dismissed"}
      /\ y \in Ideas => word \in {"open", "summarized", "promoting", "promoted"}
  <2>1. CASE StampRow(c)
    BY <1>3, <2>1 DEF Statuses, Final, Claims, Things, PromotionsAssumption
  <2>2. CASE ReleaseClaim(c)
    <3>1. word = Released(y)
      BY <1>3, <2>2
    <3>2. CASE status[y] = "accepting"
      BY <1>1, <3>1, <3>2 DEF Released, Kinds, Statuses, PromotionsAssumption
    <3>3. CASE status[y] = "promoting"
      BY <1>1, <3>1, <3>3 DEF Released, Kinds, Statuses, PromotionsAssumption
    <3>4. CASE status[y] \notin {"accepting", "promoting"}
      BY <1>1, <3>1, <3>4 DEF Released, Kinds
    <3> QED
      BY <3>2, <3>3, <3>4
  <2> QED
    BY <2>1, <2>2
<1>5. status' \in [Things -> Statuses] /\ status'[y] = word
      /\ \A x \in Things : x # y => status'[x] = status[x]
  BY <1>1, <1>3, <1>4 DEF Kinds
<1>6. Kinds'
  <2>1. /\ \A p \in Proposals : status'[p] \in {"proposed", "accepting", "accepted", "dismissed"}
        /\ \A i \in Ideas : status'[i] \in {"open", "summarized", "promoting", "promoted"}
    BY <1>1, <1>4, <1>5 DEF Kinds, Things
  <2> QED
    BY <1>1, <1>2, <1>5, <2>1 DEF Kinds, CallAt
<1>7. ASSUME NEW x \in Things, x # y PROVE (Sound(x))'
  <2>1. Sound(x) /\ (RunsFor(x))' = RunsFor(x)
    BY <1>1 DEF PromInv, RunsFor
  <2>2. \A d \in Calls : (Works(d, x))' => d # c /\ call'[d] = call[d]
    BY <1>2, <1>7 DEF Works
  <2> QED
    BY <1>1, <1>5, <1>7, <2>1, <2>2, Elsewhere DEF Works, CallAt
<1>8. (Sound(y))'
  <2> SUFFICES ASSUME y \notin orphan \cup undone PROVE (Sound(y))'
    BY <1>1 DEF Sound
  <2>1. Sound(y) /\ (RunsFor(y))' = RunsFor(y)
    BY <1>1 DEF PromInv, RunsFor
  <2>2. \A d \in Calls : ~(Works(d, y))'
    BY <1>1, <1>2, <2>1 DEF Works, Sound
  <2>3. CASE StampRow(c)
    <3>1. status'[y] \in {"accepted", "promoted"}
      BY <1>3, <1>5, <2>3
    <3> QED
      BY <2>1, <2>2, <3>1 DEF Sound
  <2>4. CASE ReleaseClaim(c)
    <3>1. RunsFor(y) = {}
      BY <1>1, <2>1, <2>4 DEF Sound, CallAt
    <3> QED
      BY <2>1, <2>2, <3>1 DEF Sound
  <2> QED
    BY <2>3, <2>4
<1> QED
  BY <1>6, <1>7, <1>8 DEF PromInv

\* A dismissal and a summary are written over whatever the row has become.
LEMMA PromOverwrites ==
  ASSUME PromotionsAssumption, PromInv, NEW c \in Calls,
         DraftPreference(c) \/ Dismissed(c) \/ \E good \in BOOLEAN : Summarized(c, good)
  PROVE  PromInv'
<1> PICK y \in Things : y = call[c].on
  BY DEF DraftPreference, Dismissed, Summarized, PromInv, Kinds, CallAt
<1>1. /\ Kinds /\ orphan' = orphan /\ runOf' = runOf
      /\ call[c].pc \in {"dismissing", "drafted", "asked"}
  BY DEF DraftPreference, Dismissed, Summarized, PromInv, CallAt
<1>2. ASSUME NEW pc \in {"done", "refused", "drafted"}, CallGoes(c, pc)
      PROVE  /\ call' \in [Calls -> CallRow] /\ call'[c].pc = pc /\ call'[c].on = y
             /\ \A d \in Calls : d # c => call'[d] = call[d]
             /\ \A x, d : d \in Calls /\ (Works(d, x))' => d # c /\ call'[d] = call[d]
  <2>1. pc \in CallPcs
    BY DEF CallPcs
  <2>2. /\ call' \in [Calls -> CallRow] /\ call'[c].pc = pc /\ call'[c].on = y
        /\ \A d \in Calls : d # c => call'[d] = call[d]
    BY <1>1, <1>2, <2>1, CallGoing
  <2> QED
    BY <2>2 DEF Works
<1>3. CASE \E pc \in {"refused", "drafted"} :
             /\ CallGoes(c, pc) /\ status' = status /\ undone' = undone
             /\ pc = "drafted" => CallAt(c, "dismissing")
  <2>1. PICK pc \in {"refused", "drafted"} :
          /\ CallGoes(c, pc) /\ status' = status /\ undone' = undone
          /\ pc = "drafted" => CallAt(c, "dismissing")
    BY <1>3
  <2>2. /\ call' \in [Calls -> CallRow] /\ call'[c].pc = pc /\ call'[c].on = y
        /\ \A d \in Calls : d # c => call'[d] = call[d]
    BY <1>2, <2>1
  <2>3. Kinds'
    BY <1>1, <2>1, <2>2 DEF Kinds, CallAt
  <2>4. \A x \in Things : (Sound(x))'
    BY <1>1, <2>1, <2>2, SoundStays DEF Works
  <2> QED
    BY <2>3, <2>4 DEF PromInv
<1>4. CASE \E word \in {"dismissed", "summarized"} :
             /\ CallGoes(c, "done") /\ status' = [status EXCEPT ![y] = word]
             /\ undone' = Overwrites(y)
             /\ IF word = "dismissed" THEN y \in Proposals ELSE y \in Ideas
  <2>1. PICK word \in {"dismissed", "summarized"} :
          /\ CallGoes(c, "done") /\ status' = [status EXCEPT ![y] = word]
          /\ undone' = Overwrites(y)
          /\ IF word = "dismissed" THEN y \in Proposals ELSE y \in Ideas
    BY <1>4
  <2>2. /\ call' \in [Calls -> CallRow] /\ call'[c].pc = "done" /\ call'[c].on = y
        /\ \A d \in Calls : d # c => call'[d] = call[d]
        /\ \A x, d : d \in Calls /\ (Works(d, x))' => d # c /\ call'[d] = call[d]
    BY <1>2, <2>1
  <2>3. status' \in [Things -> Statuses] /\ status'[y] = word
        /\ \A x \in Things : x # y => status'[x] = status[x]
    BY <1>1, <2>1 DEF Kinds, Statuses, Final
  <2>4. /\ \A p \in Proposals : status'[p] \in {"proposed", "accepting", "accepted", "dismissed"}
        /\ \A i \in Ideas : status'[i] \in {"open", "summarized", "promoting", "promoted"}
    BY <1>1, <2>1, <2>3 DEF Kinds, Things, PromotionsAssumption
  <2>5. Kinds'
    BY <1>1, <2>2, <2>3, <2>4 DEF Kinds, CallAt
  <2>6. undone \subseteq undone'
    BY <2>1 DEF Overwrites
  <2>7. ASSUME NEW x \in Things, x # y PROVE (Sound(x))'
    <3>1. Sound(x) /\ (RunsFor(x))' = RunsFor(x)
      BY <1>1 DEF PromInv, RunsFor
    <3> QED
      BY <1>1, <2>2, <2>3, <2>6, <2>7, <3>1, Elsewhere DEF Works, CallAt
  <2>8. (Sound(y))'
    <3> SUFFICES ASSUME y \notin orphan, y \notin undone' PROVE (Sound(y))'
      BY <1>1 DEF Sound
    <3>1. status[y] \notin Claims \cup {"accepted", "promoted"}
      BY <2>1 DEF Overwrites
    <3>2. RunsFor(y) = {} /\ \A d \in Calls : ~Works(d, y)
      BY <2>6, <3>1 DEF PromInv, Sound
    <3>3. (RunsFor(y))' = {} /\ \A d \in Calls : ~(Works(d, y))'
      BY <1>1, <2>2, <3>2 DEF RunsFor, Works
    <3> QED
      BY <3>3 DEF Sound
  <2> QED
    BY <2>5, <2>7, <2>8 DEF PromInv
<1>5. CASE DraftPreference(c)
  <2>1. status' = status /\ undone' = undone /\ CallAt(c, "dismissing")
        /\ (CallGoes(c, "drafted") \/ CallGoes(c, "refused"))
    BY <1>5 DEF DraftPreference
  <2> QED
    BY <1>3, <2>1
<1>6. CASE Dismissed(c)
  <2>1. CallGoes(c, "done") /\ status' = [status EXCEPT ![y] = "dismissed"] /\ undone' = Overwrites(y)
        /\ y \in Proposals
    BY <1>1, <1>6 DEF Dismissed, Kinds, CallAt
  <2> QED
    BY <1>4, <2>1
<1>7. ASSUME NEW good \in BOOLEAN, Summarized(c, good) PROVE PromInv'
  <2>1. y \in Ideas
    BY <1>1, <1>7 DEF Summarized, Kinds
  <2>2. \/ CallGoes(c, "done") /\ status' = [status EXCEPT ![y] = "summarized"] /\ undone' = Overwrites(y)
        \/ CallGoes(c, "refused") /\ status' = status /\ undone' = undone
    BY <1>7 DEF Summarized
  <2> QED
    BY <1>3, <1>4, <2>1, <2>2
<1> QED
  BY <1>5, <1>6, <1>7

\* The process dies, and nobody holds a claim.
LEMMA PromDies ==
  ASSUME PromInv, CallsDie
  PROVE  PromInv'
<1>1. UNCHANGED <<status, runOf, orphan, undone>> /\ Kinds
  BY DEF CallsDie, PromInv
<1>2. ASSUME NEW d \in Calls
      PROVE  /\ call'[d] \in CallRow /\ call'[d].on = call[d].on
             /\ call'[d].pc = IF CallAt(d, "new") THEN "new" ELSE "refused"
  <2>1. call[d] \in CallRow /\ "refused" \in CallPcs
    BY <1>1 DEF Kinds, CallPcs
  <2>2. call'[d] = IF call[d].pc = "new" THEN call[d] ELSE [call[d] EXCEPT !.pc = "refused"]
    BY DEF CallsDie
  <2> QED
    BY <2>1, <2>2 DEF CallRow, CallAt
<1>3. call' \in [Calls -> CallRow]
  <2>1. call' = [d \in Calls |-> call'[d]]
    BY DEF CallsDie
  <2> QED
    BY <1>2, <2>1
<1>4. Kinds'
  BY <1>1, <1>2, <1>3 DEF Kinds, CallAt
<1>5. ASSUME NEW x \in Things PROVE (Sound(x))'
  <2>1. Sound(x) /\ (RunsFor(x))' = RunsFor(x)
    BY <1>1 DEF PromInv, RunsFor
  <2>2. \A d \in Calls : ~(Works(d, x))'
    BY <1>2 DEF Works
  <2> QED
    BY <1>1, <2>1, <2>2, Elsewhere
<1> QED
  BY <1>4, <1>5 DEF PromInv

LEMMA PromStep == PromotionsAssumption /\ PromInv /\ [PromNext]_ideaVars => PromInv'
<1> SUFFICES ASSUME PromotionsAssumption, PromInv, [PromNext]_ideaVars PROVE PromInv'
  OBVIOUS
<1>1. ASSUME NEW c \in Calls, NEW x \in Things,
             ClaimRow(c, x) \/ (x \in Proposals /\ Dismiss(c, x)) \/ (x \in Ideas /\ Summarize(c, x))
      PROVE  PromInv'
  BY <1>1, PromStarts
<1>2. ASSUME NEW c \in Calls, OverCeiling(c) \/ CreateFails(c) \/ StampFails(c) PROVE PromInv'
  BY <1>2, PromFails
<1>3. ASSUME NEW c \in Calls, CreateRun(c) \/ StampRow(c) \/ ReleaseClaim(c) PROVE PromInv'
  BY <1>3, PromMakes, PromLetsGo
<1>4. ASSUME NEW c \in Calls,
             DraftPreference(c) \/ Dismissed(c) \/ \E good \in BOOLEAN : Summarized(c, good)
      PROVE  PromInv'
  BY <1>4, PromOverwrites
<1>5. CASE CallsDie
  BY <1>5, PromDies
<1>6. CASE SpendMoves \/ UNCHANGED ideaVars
  <2>1. UNCHANGED <<status, call, runOf, orphan, undone>>
    BY <1>6 DEF SpendMoves, ideaVars
  <2> QED
    BY <2>1 DEF PromInv, Kinds, Sound, Works, RunsFor, CallAt
<1> QED
  BY <1>1, <1>2, <1>3, <1>4, <1>5, <1>6 DEF PromNext, Things

\* Among any number of accepts, promotes, dismissals and summaries that interleave
\* at their commits, a proposal or an idea gets one run (H-32, W9-H1), unless a run was
\* left behind a claim that was given up, or the claim was overwritten.
THEOREM PromotedOnce == ASSUME PromotionsAssumption PROVE PromSpec => []OneRunPerThing
<1>1. PromInit => PromInv
  BY PromBegin
<1>2. PromInv /\ [PromNext]_ideaVars => PromInv'
  BY PromStep
<1>3. PromInv => OneRunPerThing
  <2> SUFFICES ASSUME PromInv, NEW x \in Things, x \notin orphan \cup undone
               PROVE  Cardinality(RunsFor(x)) <= 1
    BY DEF OneRunPerThing
  <2>1. \A n, k \in RunsFor(x) : n = k
    BY DEF PromInv, Sound
  <2>2. RunsFor(x) = {} \/ \E n : RunsFor(x) = {n}
    BY <2>1
  <2>3. CASE RunsFor(x) = {}
    BY <2>3, FS_EmptySet
  <2>4. ASSUME NEW n, RunsFor(x) = {n} PROVE Cardinality(RunsFor(x)) <= 1
    <3>1. Cardinality({n}) = 1
      BY FS_Singleton
    <3> QED
      BY <2>4, <3>1
  <2> QED
    BY <2>2, <2>3, <2>4
<1> QED
  BY <1>1, <1>2, <1>3, PTL DEF PromSpec

-----------------------------------------------------------------------------
(* Webhooks: one run per event and trigger.                                *)

\* A dispatch is of an event, and of a webhook's own; what it starts or nudges for
\* is a trigger; a queued row has its verdicts, and what is drained its trigger.
Placed ==
  /\ \A p \in Tasks :
       /\ proc[p].pc # "idle" => proc[p].ev \in Events /\ (p \in Events => proc[p].ev = p)
       /\ proc[p].pc \in {"nudging", "creating", "telling"} => proc[p].now \in Triggers
  /\ \A e \in Events : log[e].st = "queued" => log[e].verdicts # <<>>
  /\ sweep.phase = "drain" => \A entry \in sweep.todo : entry.trigger \in Triggers

Logged == TypeOK /\ Placed

RunsOf(e) == {i \in DOMAIN run : run[i].ev = e}
Started(got) == \E k \in DOMAIN got : got[k].st = "started"

\* A row is "received" while its webhook is at work, within the grace window; the
\* runs of the event so far are told of by its verdicts, or about to be; and a queued
\* event has none, unless the sweep has just made it.
Accounts(e) ==
  /\ log[e].st = "none" => RunsOf(e) = {}
  /\ log[e].st # "recovering"
  /\ log[e].st = "received" <=> proc[e].pc # "idle"
  /\ log[e].st = "received" => log[e].age < Grace
  /\ proc[e].pc # "idle" => \A i \in RunsOf(e) :
       /\ proc[e].pc = "telling" \/ Started(proc[e].got)
       /\ run[i].trigger \in proc[e].left => proc[e].pc = "telling" /\ run[i].trigger = proc[e].now
  /\ proc[e].pc \in {"nudging", "creating", "telling"} => proc[e].now \in proc[e].left
  /\ log[e].st = "queued" =>
       RunsOf(e) = {} \/ (proc[Sweep].pc = "telling" /\ proc[Sweep].ev = e)

\* The sweep finds nothing to recover, and drains each queued event once.
Drains ==
  /\ proc[Sweep].pc \in {"idle", "creating", "telling"}
  /\ proc[Sweep].pc # "idle" => sweep.phase = "drain" /\ log[proc[Sweep].ev].st = "queued"
  /\ proc[Sweep].pc = "creating" => RunsOf(proc[Sweep].ev) = {}
  /\ sweep.phase = "recover" => sweep.todo = {}
  /\ sweep.phase = "drain" => \A entry \in sweep.todo :
       /\ log[entry.ev].st = "queued"
       /\ proc[Sweep].pc # "idle" => entry.ev # proc[Sweep].ev
       /\ \A other \in sweep.todo : other.ev = entry.ev => other = entry

Calmly == faults = 0 /\ ~late

OnceInv == Calmly => Once /\ (\A e \in Events : Accounts(e)) /\ Drains

LEMMA RowsAtRest == TriggersAssumption => NoRow \in LogRow /\ AtRest \in Dispatch
<1> SUFFICES ASSUME TriggersAssumption PROVE NoRow \in LogRow /\ AtRest \in Dispatch
  OBVIOUS
<1>1. <<>> \in Seq(Verdict)
  BY EmptySeq
<1>2. 0 \in 0..Hour
  BY DEF TriggersAssumption
<1> QED
  BY <1>1, <1>2 DEF NoRow, AtRest, LogRow, Dispatch, Owners, Authors

LEMMA Below ==
  ASSUME NEW S \in SUBSET Nat, NEW R, NEW x \in S,
         \A y \in S : y < x => <<y, x>> \in R,
         \A y \in S : <<y, x>> \notin R
  PROVE  \A y \in S : x <= y
<1> TAKE y \in S
<1>1. ~(y < x)
  OBVIOUS
<1>2. x \in Nat /\ y \in Nat
  OBVIOUS
<1> QED
  BY <1>1, <1>2, SMT

\* A set of numbers that is not empty has a least member.
LEMMA Least ==
  ASSUME NEW S \in SUBSET Nat, S # {}
  PROVE  Min(S) \in S
<1>1. \A x, y \in Nat : x < y => <<x, y>> \in OpToRel(<, Nat)
  BY DEF OpToRel
<1>2. \E x \in S : \A y \in S : <<y, x>> \notin OpToRel(<, Nat)
  BY NatLessThanWellFounded, WFMin, Zenon
<1>3. \E x \in S : \A y \in S : x <= y
  BY <1>1, <1>2, Below, Zenon
<1> QED
  BY <1>3 DEF Min

\* What the last verdict makes of the row.
LEMMA SettledRow ==
  ASSUME NEW entry \in LogRow, NEW got \in Seq(Verdict), got # <<>>
  PROVE  /\ Settled(entry, got) \in LogRow
         /\ Settled(entry, got).st \in {"queued", "failed", "matched"}
         /\ Settled(entry, got).st = "queued" => \A k \in DOMAIN got : got[k].st = "queued"
         /\ Settled(entry, got).verdicts = got
<1>1. DOMAIN got \subseteq Nat /\ \A k \in DOMAIN got : got[k] \in Verdict
  BY LenProperties, ElementOfSeq
<1>2. StartedRun(got) \in Nat
  <2> DEFINE S == {k \in DOMAIN got : got[k].st = "started"}
  <2>1. CASE S = {}
    BY <2>1 DEF StartedRun
  <2>2. CASE S # {}
    <3>1. Min(S) \in S
      <4>1. S \in SUBSET Nat
        BY <1>1
      <4> HIDE DEF S
      <4> QED
        BY <2>2, <4>1, Least
    <3>2. got[Min(S)].run \in Nat
      BY <1>1, <3>1 DEF Verdict
    <3> QED
      BY <2>2, <3>2 DEF StartedRun
  <2> QED
    BY <2>1, <2>2
<1>3. Resolved(got) \in Owners
  <2> DEFINE S == {k \in DOMAIN got : got[k].owner # NoOwner}
  <2>1. CASE S = {}
    BY <2>1 DEF Resolved, Owners
  <2>2. CASE S # {}
    <3>1. Min(S) \in S
      <4>1. S \in SUBSET Nat
        BY <1>1
      <4> HIDE DEF S
      <4> QED
        BY <2>2, <4>1, Least
    <3>2. got[Min(S)].owner \in Owners
      BY <1>1, <3>1 DEF Verdict
    <3> QED
      BY <2>2, <3>2 DEF Resolved
  <2> QED
    BY <2>1, <2>2
<1>4. /\ Outcome(got) \in {"queued", "failed", "matched"}
      /\ Outcome(got) = "queued" => \A k \in DOMAIN got : got[k].st = "queued"
  BY DEF Outcome
<1> QED
  BY <1>2, <1>3, <1>4 DEF Settled, LogRow

\* A verdict is added to those a dispatch has.
LEMMA VerdictAdded ==
  ASSUME NEW got \in Seq(Verdict), NEW v \in Verdict
  PROVE  /\ Append(got, v) \in Seq(Verdict) /\ Append(got, v) # <<>>
         /\ Started(got) => Started(Append(got, v))
         /\ v.st = "started" => Started(Append(got, v))
         /\ v.st # "queued" => \E k \in DOMAIN Append(got, v) : Append(got, v)[k].st # "queued"
<1>1. /\ Append(got, v) \in Seq(Verdict) /\ Len(Append(got, v)) = Len(got) + 1 /\ Len(got) \in Nat
      /\ \A i \in 1..Len(got) : Append(got, v)[i] = got[i]
      /\ Append(got, v)[Len(got) + 1] = v
      /\ DOMAIN got = 1..Len(got)
  BY AppendProperties, LenProperties
<1>2. DOMAIN Append(got, v) = 1..(Len(got) + 1) /\ Append(got, v) # <<>>
  BY <1>1, LenProperties, EmptySeq
<1> QED
  BY <1>1, <1>2 DEF Started

\* The owner a trigger's run would have.
LEMMA OwnerType == ASSUME NEW t, NEW author PROVE Owner(t, author) \in Owners
  BY DEF Owner, Owners

\* How a dispatch begins.
LEMMA Beginning ==
  ASSUME TriggersAssumption, Logged, NEW p \in Tasks, NEW e \in Events,
         NEW entry \in LogRow, Begin(p, e, entry), entry.st \in {"received", "recovering"}
  PROVE  /\ log' \in [Events -> LogRow] /\ proc' \in [Tasks -> Dispatch]
         /\ \A f \in Events : f # e => log'[f] = log[f]
         /\ \A q \in Tasks : q # p => proc'[q] = proc[q]
         /\ \/ log'[e].st = "ignored" /\ proc' = proc
            \/ /\ log'[e] = entry
               /\ proc'[p].pc = "judging" /\ proc'[p].ev = e /\ proc'[p].left = entry.for
               /\ proc'[p].now = NoTrigger /\ proc'[p].got = <<>>
<1>1. log \in [Events -> LogRow] /\ proc \in [Tasks -> Dispatch] /\ AtRest \in Dispatch
  BY RowsAtRest DEF Logged, TypeOK
<1>2. CASE entry.by = "self" \/ entry.for = {}
  <2>1. log' = [log EXCEPT ![e] = [entry EXCEPT !.st = "ignored"]] /\ proc' = proc
    BY <1>2 DEF Begin
  <2>2. [entry EXCEPT !.st = "ignored"] \in LogRow /\ [entry EXCEPT !.st = "ignored"].st = "ignored"
    BY DEF LogRow
  <2> QED
    BY <1>1, <2>1, <2>2
<1>3. CASE ~(entry.by = "self" \/ entry.for = {})
  <2> DEFINE d == [AtRest EXCEPT !.pc = "judging", !.ev = e, !.left = entry.for]
  <2>1. log' = [log EXCEPT ![e] = entry] /\ proc' = [proc EXCEPT ![p] = d]
    BY <1>3 DEF Begin
  <2>2. AtRest.now = NoTrigger /\ AtRest.got = <<>>
    BY DEF AtRest
  <2>3. entry.for \in SUBSET Triggers
    BY DEF LogRow
  <2>4. /\ d \in Dispatch /\ d.pc = "judging" /\ d.ev = e /\ d.left = entry.for
        /\ d.now = NoTrigger /\ d.got = <<>>
    BY <1>1, <2>2, <2>3 DEF Dispatch
  <2> HIDE DEF d
  <2> QED
    BY <1>1, <2>1, <2>4
<1> QED
  BY <1>2, <1>3

\* The verdicts a dispatch has with one more, and what becomes of it and of the row.
Got(p, e, t, verdict, got) ==
  /\ got # <<>> /\ (Started(proc[p].got) => Started(got))
  /\ verdict = "started" => Started(got)
  /\ verdict # "queued" => \E k \in DOMAIN got : got[k].st # "queued"
  /\ log' \in [Events -> LogRow] /\ proc' \in [Tasks -> Dispatch]
  /\ \A f \in Events : f # e => log'[f] = log[f]
  /\ \A q \in Tasks : q # p => proc'[q] = proc[q]
  /\ \/ /\ log'[e].st \in {"queued", "failed", "matched"}
        /\ log'[e].st = "queued" => \A k \in DOMAIN got : got[k].st = "queued"
        /\ log'[e].verdicts = got /\ proc'[p] = AtRest
     \/ /\ log' = log
        /\ proc'[p].pc = "judging" /\ proc'[p].ev = e
        /\ proc'[p].left = proc[p].left \ {t} /\ proc'[p].got = got

\* How a verdict leaves the dispatch and its row.
LEMMA Getting ==
  ASSUME TriggersAssumption, Logged, NEW p \in Tasks, NEW e \in Events,
         e = proc[p].ev, NEW t \in Triggers,
         NEW verdict \in {"failed", "nudged", "queued", "started"}, NEW i \in Nat, Gets(p, t, verdict, i)
  PROVE  \E got \in Seq(Verdict) : Got(p, e, t, verdict, got)
<1> DEFINE v == [trigger |-> t, st |-> verdict, run |-> i, owner |-> Owner(t, log[e].by)]
           got == Append(proc[p].got, v)
           d == [proc[p] EXCEPT !.pc = "judging", !.now = NoTrigger,
                                !.left = proc[p].left \ {t}, !.got = got]
<1>1. log \in [Events -> LogRow] /\ proc \in [Tasks -> Dispatch] /\ AtRest \in Dispatch
  BY RowsAtRest DEF Logged, TypeOK
<1>2. e \in Events /\ log[e] \in LogRow /\ proc[p] \in Dispatch
  BY <1>1
<1>3. v \in Verdict /\ v.st = verdict
  BY OwnerType DEF Verdict
<1>4. proc[p].got \in Seq(Verdict)
  BY <1>2 DEF Dispatch
<1>5. IF proc[p].left = {t}
      THEN log' = [log EXCEPT ![e] = Settled(log[e], got)] /\ proc' = [proc EXCEPT ![p] = AtRest]
      ELSE proc' = [proc EXCEPT ![p] = d] /\ log' = log
  BY DEF Gets
<1>6. /\ got \in Seq(Verdict) /\ got # <<>> /\ (Started(proc[p].got) => Started(got))
      /\ verdict = "started" => Started(got)
      /\ verdict # "queued" => \E k \in DOMAIN got : got[k].st # "queued"
  <2> HIDE DEF v
  <2> QED
    BY <1>3, <1>4, VerdictAdded
<1> HIDE DEF v, got
<1>7. /\ d \in Dispatch /\ d.pc = "judging" /\ d.ev = e /\ d.left = proc[p].left \ {t} /\ d.got = got
  BY <1>2, <1>6 DEF Dispatch
<1> HIDE DEF d
<1>8. /\ Settled(log[e], got) \in LogRow
      /\ Settled(log[e], got).st \in {"queued", "failed", "matched"}
      /\ Settled(log[e], got).st = "queued" => \A k \in DOMAIN got : got[k].st = "queued"
      /\ Settled(log[e], got).verdicts = got
  BY <1>2, <1>6, SettledRow
<1>9. CASE proc[p].left = {t}
  <2>1. log' = [log EXCEPT ![e] = Settled(log[e], got)] /\ proc' = [proc EXCEPT ![p] = AtRest]
    BY <1>5, <1>9
  <2>2. /\ log' \in [Events -> LogRow] /\ proc' \in [Tasks -> Dispatch]
        /\ log'[e] = Settled(log[e], got) /\ proc'[p] = AtRest
        /\ \A f \in Events : f # e => log'[f] = log[f]
        /\ \A q \in Tasks : q # p => proc'[q] = proc[q]
    BY <1>1, <1>2, <1>8, <2>1
  <2>3. /\ log'[e].st \in {"queued", "failed", "matched"}
        /\ log'[e].st = "queued" => \A k \in DOMAIN got : got[k].st = "queued"
        /\ log'[e].verdicts = got
    BY <1>8, <2>2
  <2> QED
    BY <1>6, <2>2, <2>3 DEF Got
<1>10. CASE proc[p].left # {t}
  <2>1. log' = log /\ proc' = [proc EXCEPT ![p] = d]
    BY <1>5, <1>10
  <2>2. proc' \in [Tasks -> Dispatch] /\ proc'[p] = d /\ \A q \in Tasks : q # p => proc'[q] = proc[q]
    BY <1>1, <1>7, <2>1
  <2> QED
    BY <1>1, <1>6, <1>7, <2>1, <2>2 DEF Got
<1> QED
  BY <1>9, <1>10

LEMMA LoggedBegin == TriggersAssumption /\ Init => Logged
<1> SUFFICES ASSUME TriggersAssumption, Init PROVE Logged
  OBVIOUS
<1>1. <<>> \in Seq(RunRow)
  BY EmptySeq
<1>2. NoRow \in LogRow /\ AtRest \in Dispatch
  BY RowsAtRest
<1>3. TypeOK
  <2>1. log \in [Events -> LogRow] /\ proc \in [Tasks -> Dispatch] /\ run \in Seq(RunRow)
    BY <1>1, <1>2 DEF Init
  <2>3. faults \in 0..MaxFaults
    BY DEF Init, TriggersAssumption
  <2>4. late \in BOOLEAN /\ crashed \in BOOLEAN
    BY DEF Init
  <2>2. sweep \in [phase : {"rest", "recover", "drain"}, todo : SUBSET ReadRow]
    BY DEF Init
  <2> QED
    BY <2>1, <2>2, <2>3, <2>4 DEF TypeOK
<1>4. AtRest.pc = "idle" /\ NoRow.st = "none"
  BY DEF AtRest, NoRow
<1>5. Placed
  BY <1>4 DEF Init, Placed
<1> QED
  BY <1>3, <1>5 DEF Logged

\* What a step that leaves the sweep's list alone has to show.
LEMMA LoggedStays ==
  ASSUME Logged, log' \in [Events -> LogRow], run' \in Seq(RunRow), proc' \in [Tasks -> Dispatch],
         sweep' = sweep, faults' \in 0..MaxFaults, late' \in BOOLEAN, crashed' \in BOOLEAN,
         \A p \in Tasks : proc'[p] = proc[p] \/
           /\ proc'[p].pc # "idle" => proc'[p].ev \in Events /\ (p \in Events => proc'[p].ev = p)
           /\ proc'[p].pc \in {"nudging", "creating", "telling"} => proc'[p].now \in Triggers,
         \A e \in Events : log'[e].st = "queued" =>
           log'[e].verdicts # <<>> \/ (log[e].st = "queued" /\ log'[e].verdicts = log[e].verdicts)
  PROVE  Logged'
<1>1. TypeOK'
  BY DEF Logged, TypeOK
<1>2. Placed'
  BY DEF Logged, Placed
<1> QED
  BY <1>1, <1>2 DEF Logged

LEMMA LoggedDeliver ==
  ASSUME TriggersAssumption, Logged, NEW e \in Events, Deliver(e)
  PROVE  Logged'
<1>1. PICK c \in Changes[e] :
         Begin(e, e, [NoRow EXCEPT !.st = "received", !.by = c.by, !.for = c.for])
  BY DEF Deliver
<1> DEFINE entry == [NoRow EXCEPT !.st = "received", !.by = c.by, !.for = c.for]
<1>2. entry \in LogRow /\ entry.st = "received"
  <2>1. c.by \in Authors /\ c.for \in SUBSET Triggers
    BY DEF TriggersAssumption, Authors
  <2> QED
    BY <2>1, RowsAtRest DEF LogRow
<1>3. Begin(e, e, entry)
  BY <1>1
<1> HIDE DEF entry
<1>4. /\ log' \in [Events -> LogRow] /\ proc' \in [Tasks -> Dispatch]
      /\ \A f \in Events : f # e => log'[f] = log[f]
      /\ \A q \in Tasks : q # e => proc'[q] = proc[q]
      /\ \/ log'[e].st = "ignored" /\ proc' = proc
         \/ /\ log'[e] = entry
            /\ proc'[e].pc = "judging" /\ proc'[e].ev = e /\ proc'[e].left = entry.for
            /\ proc'[e].now = NoTrigger /\ proc'[e].got = <<>>
  BY <1>2, <1>3, Beginning DEF Tasks
<1>5. \A f \in Events : log'[f].st = "queued" => f # e
  BY <1>2, <1>4
<1> QED
  BY <1>4, <1>5, LoggedStays DEF Deliver, Logged, TypeOK

LEMMA LoggedGets ==
  ASSUME TriggersAssumption, Logged, NEW p \in Tasks, proc[p].pc # "idle", NEW t \in Triggers,
         NEW verdict \in {"failed", "nudged", "queued", "started"}, NEW i \in Nat, Gets(p, t, verdict, i),
         UNCHANGED <<run, sweep, faults, late, crashed>>
  PROVE  Logged'
<1> PICK e \in Events : e = proc[p].ev
  BY DEF Logged, Placed
<1> PICK got \in Seq(Verdict) : Got(p, e, t, verdict, got)
  BY Getting
<1>1. /\ got # <<>>
      /\ log' \in [Events -> LogRow] /\ proc' \in [Tasks -> Dispatch]
      /\ \A f \in Events : f # e => log'[f] = log[f]
      /\ \A q \in Tasks : q # p => proc'[q] = proc[q]
      /\ \/ log'[e].verdicts = got /\ proc'[p] = AtRest
         \/ log' = log /\ proc'[p].pc = "judging" /\ proc'[p].ev = e
  BY DEF Got
<1>2. p \in Events => e = p
  BY DEF Logged, Placed
<1>3. AtRest.pc = "idle"
  BY DEF AtRest
<1>4. ASSUME NEW q \in Tasks
      PROVE  proc'[q] = proc[q] \/
              /\ proc'[q].pc # "idle" => proc'[q].ev \in Events /\ (q \in Events => proc'[q].ev = q)
              /\ proc'[q].pc \in {"nudging", "creating", "telling"} => proc'[q].now \in Triggers
  BY <1>1, <1>2, <1>3
<1>5. ASSUME NEW f \in Events, log'[f].st = "queued"
      PROVE  log'[f].verdicts # <<>> \/ (log[f].st = "queued" /\ log'[f].verdicts = log[f].verdicts)
  BY <1>1, <1>5
<1> QED
  BY <1>1, <1>4, <1>5, LoggedStays DEF Logged, TypeOK

LEMMA LoggedSteps ==
  ASSUME TriggersAssumption, Logged, NEW p \in Tasks, DispatchStep(p)
  PROVE  Logged'
<1>1. /\ log \in [Events -> LogRow] /\ proc \in [Tasks -> Dispatch] /\ proc[p] \in Dispatch
      /\ run \in Seq(RunRow) /\ DOMAIN run \subseteq Nat /\ Len(run) \in Nat
  BY LenProperties DEF Logged, TypeOK
<1>2. CASE Told(p)
  <2>1. proc[p].pc \in {"telling", "nudging"} /\ UNCHANGED <<run, sweep, faults, late, crashed>>
    BY <1>2 DEF Told
  <2>2. proc[p].now \in Triggers /\ proc[p].run \in Nat
    BY <1>1, <2>1 DEF Logged, Placed, Dispatch
  <2>3. \E verdict \in {"started", "nudged"} : Gets(p, proc[p].now, verdict, proc[p].run)
    BY <1>2 DEF Told
  <2> QED
    BY <2>1, <2>2, <2>3, LoggedGets
<1>3. CASE Create(p)
  <2>1. proc[p].pc = "creating" /\ UNCHANGED <<log, sweep, faults, late, crashed>>
    BY <1>3 DEF Create
  <2>2. proc[p].ev \in Events /\ (p \in Events => proc[p].ev = p) /\ proc[p].now \in Triggers
    BY <2>1 DEF Logged, Placed
  <2>3. run' \in Seq(RunRow)
    <3> DEFINE new == [ev |-> proc[p].ev, trigger |-> proc[p].now, on |-> TRUE, owner |-> proc[p].owner]
    <3>1. new \in RunRow
      BY <1>1, <2>2 DEF RunRow, Dispatch
    <3>2. run' = Append(run, new)
      BY <1>3 DEF Create
    <3> HIDE DEF new
    <3> QED
      BY <1>1, <3>1, <3>2, AppendProperties
  <2>4. /\ proc' \in [Tasks -> Dispatch] /\ proc'[p].ev = proc[p].ev /\ proc'[p].now = proc[p].now
        /\ \A q \in Tasks : q # p => proc'[q] = proc[q]
    <3> DEFINE d == [proc[p] EXCEPT !.pc = "telling", !.run = Len(run) + 1]
    <3>1. d \in Dispatch /\ d.ev = proc[p].ev /\ d.now = proc[p].now
      <4>1. Len(run) + 1 \in Nat
        BY <1>1
      <4> PICK n \in Nat : n = Len(run) + 1
        BY <4>1
      <4> QED
        BY <1>1 DEF Dispatch
    <3>2. proc' = [proc EXCEPT ![p] = d]
      BY <1>1, <1>3 DEF Create, Dispatch
    <3> HIDE DEF d
    <3> QED
      BY <1>1, <3>1, <3>2
  <2>5. ASSUME NEW q \in Tasks
        PROVE  proc'[q] = proc[q] \/
                /\ proc'[q].pc # "idle" => proc'[q].ev \in Events /\ (q \in Events => proc'[q].ev = q)
                /\ proc'[q].pc \in {"nudging", "creating", "telling"} => proc'[q].now \in Triggers
    BY <2>2, <2>4
  <2> QED
    BY <2>1, <2>3, <2>4, <2>5, LoggedStays DEF Logged, TypeOK
<1>4. CASE Judge(p)
  <2>1. proc[p].pc = "judging" /\ UNCHANGED <<run, sweep, faults, late, crashed>>
    BY <1>4 DEF Judge
  <2>2. PICK t \in proc[p].left :
          \/ \E verdict \in {"failed", "queued"} : Gets(p, t, verdict, 0)
          \/ /\ log' = log
             /\ \E i \in RecentActive(t, proc[p].ev) :
                  proc' = [proc EXCEPT ![p].pc = "nudging", ![p].now = t, ![p].run = i]
          \/ /\ log' = log
             /\ \E own \in Owners :
                  proc' = [proc EXCEPT ![p].pc = "creating", ![p].now = t, ![p].owner = own]
    BY <1>4, OwnerType DEF Judge
  <2>3. t \in Triggers
    BY <1>1 DEF Dispatch
  <2>4. proc[p].ev \in Events /\ (p \in Events => proc[p].ev = p)
    BY <2>1 DEF Logged, Placed
  <2>5. ASSUME NEW i \in RecentActive(t, proc[p].ev) PROVE i \in Nat
    BY <1>1 DEF RecentActive
  <2>6. ASSUME NEW d \in Dispatch, proc' = [proc EXCEPT ![p] = d], log' = log,
               d.ev = proc[p].ev, d.now = t
        PROVE  Logged'
    <3>1. /\ proc' \in [Tasks -> Dispatch] /\ proc'[p] = d
          /\ \A q \in Tasks : q # p => proc'[q] = proc[q]
      BY <1>1, <2>6
    <3>2. ASSUME NEW q \in Tasks
          PROVE  proc'[q] = proc[q] \/
                  /\ proc'[q].pc # "idle" => proc'[q].ev \in Events /\ (q \in Events => proc'[q].ev = q)
                  /\ proc'[q].pc \in {"nudging", "creating", "telling"} => proc'[q].now \in Triggers
      BY <2>3, <2>4, <2>6, <3>1
    <3> QED
      BY <2>1, <2>6, <3>1, <3>2, LoggedStays DEF Logged, TypeOK
  <2>7. CASE \E verdict \in {"failed", "queued"} : Gets(p, t, verdict, 0)
    BY <2>1, <2>3, <2>7, LoggedGets
  <2>8. ASSUME log' = log, NEW i \in RecentActive(t, proc[p].ev),
               proc' = [proc EXCEPT ![p].pc = "nudging", ![p].now = t, ![p].run = i]
        PROVE  Logged'
    <3> DEFINE d == [proc[p] EXCEPT !.pc = "nudging", !.now = t, !.run = i]
    <3>1. d \in Dispatch /\ d.ev = proc[p].ev /\ d.now = t
      BY <1>1, <2>3, <2>5 DEF Dispatch
    <3>2. proc' = [proc EXCEPT ![p] = d]
      BY <1>1, <2>8 DEF Dispatch
    <3> HIDE DEF d
    <3> QED
      BY <2>6, <2>8, <3>1, <3>2
  <2>9. ASSUME log' = log, NEW own \in Owners,
               proc' = [proc EXCEPT ![p].pc = "creating", ![p].now = t, ![p].owner = own]
        PROVE  Logged'
    <3> DEFINE d == [proc[p] EXCEPT !.pc = "creating", !.now = t, !.owner = own]
    <3>1. d \in Dispatch /\ d.ev = proc[p].ev /\ d.now = t
      BY <1>1, <2>3 DEF Dispatch
    <3>2. proc' = [proc EXCEPT ![p] = d]
      BY <1>1, <2>9 DEF Dispatch
    <3> HIDE DEF d
    <3> QED
      BY <2>6, <2>9, <3>1, <3>2
  <2> QED
    BY <2>2, <2>7, <2>8, <2>9
<1> QED
  BY <1>2, <1>3, <1>4 DEF DispatchStep

\* What the sweep reads of logged events is what a list of its holds.
LEMMA ReadRows ==
  ASSUME Logged, NEW logged \in SUBSET Events
  PROVE  /\ Read(logged) \subseteq ReadRow
         /\ \A entry \in Read(logged) : entry.ev \in logged
         /\ \A entry, other \in Read(logged) : other.ev = entry.ev => other = entry
         /\ \A entry \in Read(logged) : log[entry.ev].verdicts # <<>> => entry.trigger \in Triggers
<1> DEFINE trigger(e) == IF log[e].verdicts = <<>> THEN NoTrigger ELSE log[e].verdicts[1].trigger
           entry(e) == [ev |-> e, owner |-> log[e].owner, trigger |-> trigger(e)]
<1>1. ASSUME NEW e \in Events
      PROVE  /\ trigger(e) \in Triggers \cup {NoTrigger} /\ log[e].owner \in Owners
             /\ log[e].verdicts # <<>> => trigger(e) \in Triggers
  <2>1. log[e].verdicts \in Seq(Verdict) /\ log[e].owner \in Owners
    BY DEF Logged, TypeOK, LogRow
  <2>2. ASSUME log[e].verdicts # <<>> PROVE log[e].verdicts[1] \in Verdict
    <3>1. PICK s \in Seq(Verdict) : s = log[e].verdicts
      BY <2>1
    <3>2. 1 \in 1..Len(s)
      BY <2>2, <3>1, EmptySeq, LenProperties
    <3> QED
      BY <3>1, <3>2, ElementOfSeq
  <2> QED
    BY <2>1, <2>2 DEF Verdict
<1>2. Read(logged) = {entry(e) : e \in logged}
  BY DEF Read
<1> HIDE DEF trigger
<1>3. ASSUME NEW e \in logged
      PROVE  entry(e) \in ReadRow /\ entry(e).ev = e /\ entry(e).trigger = trigger(e)
  BY <1>1 DEF ReadRow
<1> HIDE DEF entry
<1> QED
  BY <1>1, <1>2, <1>3

\* The sweep's own steps.
LEMMA LoggedSweeps ==
  ASSUME TriggersAssumption, Logged, Sweeps
  PROVE  Logged'
<1>1. log \in [Events -> LogRow] /\ proc \in [Tasks -> Dispatch] /\ AtRest \in Dispatch
  BY RowsAtRest DEF Logged, TypeOK
<1>2. sweep \in [phase : {"rest", "recover", "drain"}, todo : SUBSET ReadRow]
  BY DEF Logged, TypeOK
<1>3. Sweep \in Tasks /\ Sweep \notin Events
  BY DEF Tasks, TriggersAssumption
<1>4. ASSUME NEW todo \in SUBSET ReadRow, NEW phase \in {"rest", "recover", "drain"},
             sweep' = [phase |-> phase, todo |-> todo], UNCHANGED <<log, run, proc, faults, late, crashed>>,
             phase = "drain" => \A entry \in todo : entry.trigger \in Triggers
      PROVE  Logged'
  <2>1. /\ sweep' \in [phase : {"rest", "recover", "drain"}, todo : SUBSET ReadRow]
        /\ sweep'.phase = phase /\ sweep'.todo = todo
    BY <1>4
  <2>2. TypeOK'
    BY <1>4, <2>1 DEF Logged, TypeOK
  <2>3. Placed'
    BY <1>4, <2>1 DEF Logged, Placed
  <2> QED
    BY <2>2, <2>3 DEF Logged
<1>5. CASE RecoverStuck
  <2>1. PICK todo : /\ todo = Read({e \in Events : log[e].st = "received" /\ log[e].age >= Grace})
                    /\ sweep' = [phase |-> "recover", todo |-> todo]
    BY <1>5 DEF RecoverStuck
  <2>2. todo \in SUBSET ReadRow
    BY <2>1, ReadRows
  <2> QED
    BY <1>4, <1>5, <2>1, <2>2 DEF RecoverStuck
<1>6. CASE DrainQueued
  <2>1. PICK todo : /\ todo = Read({e \in Events : log[e].st = "queued"})
                    /\ sweep' = [phase |-> "drain", todo |-> todo]
    BY <1>6 DEF DrainQueued
  <2>2. todo \in SUBSET ReadRow /\ \A entry \in todo : entry.trigger \in Triggers
    BY <2>1, ReadRows DEF Logged, Placed
  <2> QED
    BY <1>4, <1>6, <2>1, <2>2 DEF DrainQueued
<1>7. CASE SweepRests
  <2>1. sweep' = [phase |-> "rest", todo |-> sweep.todo]
    BY <1>2, <1>7 DEF SweepRests
  <2> QED
    BY <1>2, <1>4, <1>7, <2>1 DEF SweepRests
<1>8. ASSUME NEW entry \in sweep.todo, sweep' = [sweep EXCEPT !.todo = sweep.todo \ {entry}],
             log' \in [Events -> LogRow], proc' \in [Tasks -> Dispatch],
             \A q \in Tasks : q # Sweep => proc'[q] = proc[q],
             proc'[Sweep] = proc[Sweep] \/
               /\ proc'[Sweep].ev \in Events
               /\ proc'[Sweep].pc \in {"nudging", "creating", "telling"} => proc'[Sweep].now \in Triggers,
             \A f \in Events : log'[f].st = "queued" => log'[f] = log[f],
             UNCHANGED <<run, faults, late, crashed>>
      PROVE  Logged'
  <2>1. /\ sweep' \in [phase : {"rest", "recover", "drain"}, todo : SUBSET ReadRow]
        /\ sweep'.phase = sweep.phase /\ sweep'.todo \subseteq sweep.todo
    BY <1>2, <1>8
  <2>2. TypeOK'
    BY <1>8, <2>1 DEF Logged, TypeOK
  <2>3. ASSUME NEW q \in Tasks
        PROVE  /\ proc'[q].pc # "idle" => proc'[q].ev \in Events /\ (q \in Events => proc'[q].ev = q)
               /\ proc'[q].pc \in {"nudging", "creating", "telling"} => proc'[q].now \in Triggers
    BY <1>3, <1>8 DEF Logged, Placed
  <2>4. \A f \in Events : log'[f].st = "queued" => log'[f].verdicts # <<>>
    BY <1>8 DEF Logged, Placed
  <2>5. sweep'.phase = "drain" => \A other \in sweep'.todo : other.trigger \in Triggers
    BY <2>1 DEF Logged, Placed
  <2>6. Placed'
    BY <2>3, <2>4, <2>5 DEF Placed
  <2> QED
    BY <2>2, <2>6 DEF Logged
<1>9. CASE Claim
  <2>1. PICK entry \in sweep.todo :
          /\ sweep' = [sweep EXCEPT !.todo = sweep.todo \ {entry}]
          /\ IF log[entry.ev].st = "received"
             THEN Begin(Sweep, entry.ev, [log[entry.ev] EXCEPT !.st = "recovering"])
             ELSE UNCHANGED <<log, proc>>
    BY <1>9 DEF Claim
  <2>2. entry.ev \in Events
    BY <1>2 DEF ReadRow
  <2>3. PICK e \in Events : e = entry.ev
    BY <2>2
  <2>4. CASE log[e].st = "received"
    <3> PICK was \in LogRow : was = log[e]
      BY <1>1
    <3> DEFINE new == [was EXCEPT !.st = "recovering"]
    <3>1. Begin(Sweep, e, new)
      BY <2>1, <2>3, <2>4
    <3>2. new \in LogRow /\ new.st = "recovering"
      BY DEF LogRow
    <3> HIDE DEF new
    <3>3. /\ log' \in [Events -> LogRow] /\ proc' \in [Tasks -> Dispatch]
          /\ \A f \in Events : f # e => log'[f] = log[f]
          /\ \A q \in Tasks : q # Sweep => proc'[q] = proc[q]
          /\ \/ log'[e].st = "ignored" /\ proc' = proc
             \/ /\ log'[e] = new
                /\ proc'[Sweep].pc = "judging" /\ proc'[Sweep].ev = e /\ proc'[Sweep].left = new.for
                /\ proc'[Sweep].now = NoTrigger /\ proc'[Sweep].got = <<>>
      <4>1. new.st \in {"received", "recovering"}
        BY <3>2
      <4> QED
        BY <1>3, <3>1, <3>2, <4>1, Beginning
    <3>4. \A f \in Events : log'[f].st = "queued" => log'[f] = log[f]
      BY <3>2, <3>3
    <3>5. UNCHANGED <<run, faults, late, crashed>>
      BY <1>9 DEF Claim
    <3>6. proc'[Sweep] = proc[Sweep] \/
           /\ proc'[Sweep].ev \in Events
           /\ proc'[Sweep].pc \in {"nudging", "creating", "telling"} => proc'[Sweep].now \in Triggers
      BY <3>3
    <3> QED
      BY <1>8, <2>1, <3>3, <3>4, <3>5, <3>6
  <2>5. CASE log[e].st # "received"
    <3>1. UNCHANGED <<log, proc, run, faults, late, crashed>>
      BY <1>9, <2>1, <2>3, <2>5 DEF Claim
    <3> QED
      BY <1>1, <1>8, <2>1, <3>1
  <2> QED
    BY <2>4, <2>5
<1>10. CASE DrainNext
  <2>1. UNCHANGED <<log, run, faults, late, crashed>> /\ sweep.phase = "drain"
    BY <1>10 DEF DrainNext
  <2>2. PICK entry \in sweep.todo :
          /\ sweep' = [sweep EXCEPT !.todo = sweep.todo \ {entry}]
          /\ proc' = proc \/
             proc' = [proc EXCEPT ![Sweep] =
                       [AtRest EXCEPT !.pc = "creating", !.ev = entry.ev,
                                      !.now = entry.trigger, !.owner = entry.owner]]
    BY <1>10 DEF DrainNext
  <2>3. entry.ev \in Events /\ entry.owner \in Owners /\ entry.trigger \in Triggers
    BY <1>2, <2>1 DEF ReadRow, Logged, Placed
  <2> DEFINE d == [AtRest EXCEPT !.pc = "creating", !.ev = entry.ev,
                                !.now = entry.trigger, !.owner = entry.owner]
  <2>4. d \in Dispatch /\ d.ev = entry.ev /\ d.now = entry.trigger
    BY <1>1, <2>3 DEF Dispatch
  <2>5. proc' = proc \/ proc' = [proc EXCEPT ![Sweep] = d]
    BY <2>2
  <2> HIDE DEF d
  <2>6. /\ proc' \in [Tasks -> Dispatch] /\ \A q \in Tasks : q # Sweep => proc'[q] = proc[q]
        /\ proc'[Sweep] = proc[Sweep] \/ proc'[Sweep] = d
    BY <1>1, <1>3, <2>4, <2>5
  <2>7. proc'[Sweep] = proc[Sweep] \/
         /\ proc'[Sweep].ev \in Events
         /\ proc'[Sweep].pc \in {"nudging", "creating", "telling"} => proc'[Sweep].now \in Triggers
    BY <2>3, <2>4, <2>6
  <2> QED
    BY <1>1, <1>8, <2>1, <2>2, <2>6, <2>7
<1>11. CASE Drained
  <2>1. PICK e \in Events : e = proc[Sweep].ev
    BY <1>3, <1>11 DEF Drained, Logged, Placed
  <2> PICK was \in LogRow : was = log[e]
    BY <1>1
  <2> PICK i \in Nat : i = proc[Sweep].run
    BY <1>1, <1>3 DEF Dispatch
  <2> DEFINE new == [was EXCEPT !.st = "matched", !.run = i]
  <2>2. new \in LogRow /\ new.st = "matched"
    BY DEF LogRow
  <2>3. log' = [log EXCEPT ![e] = new] /\ proc' = [proc EXCEPT ![Sweep] = AtRest]
    BY <1>1, <1>11, <2>1 DEF Drained, LogRow
  <2> HIDE DEF new
  <2>4. /\ log' \in [Events -> LogRow] /\ proc' \in [Tasks -> Dispatch]
        /\ \A f \in Events : log'[f].st = "queued" => log'[f] = log[f]
        /\ \A q \in Tasks : proc'[q] = proc[q] \/ proc'[q] = AtRest
    BY <1>1, <1>3, <2>2, <2>3
  <2>5. AtRest.pc = "idle"
    BY DEF AtRest
  <2>6. UNCHANGED <<run, sweep, faults, late, crashed>>
    BY <1>11 DEF Drained
  <2>7. ASSUME NEW q \in Tasks
        PROVE  proc'[q] = proc[q] \/
                /\ proc'[q].pc # "idle" => proc'[q].ev \in Events /\ (q \in Events => proc'[q].ev = q)
                /\ proc'[q].pc \in {"nudging", "creating", "telling"} => proc'[q].now \in Triggers
    BY <2>4, <2>5
  <2> QED
    BY <2>4, <2>6, <2>7, LoggedStays DEF Logged, TypeOK
<1> QED
  BY <1>5, <1>6, <1>7, <1>9, <1>10, <1>11 DEF Sweeps

\* Time, runs and faults.
LEMMA LoggedRest ==
  ASSUME TriggersAssumption, Logged,
         \/ Tick \/ RecoveryFails \/ DrainFails \/ Crash
         \/ \E i \in DOMAIN run : RunEnds(i)
         \/ \E e \in Events : DispatchFails(e)
         \/ UNCHANGED vars
  PROVE  Logged'
<1>1. log \in [Events -> LogRow] /\ proc \in [Tasks -> Dispatch] /\ AtRest \in Dispatch
  BY RowsAtRest DEF Logged, TypeOK
<1>2. run \in Seq(RunRow) /\ faults \in 0..MaxFaults /\ MaxFaults \in Nat /\ late \in BOOLEAN
  BY DEF Logged, TypeOK, TriggersAssumption
<1>3. AtRest.pc = "idle"
  BY DEF AtRest
<1>4. Sweep \in Tasks /\ Sweep \notin Events /\ Events \subseteq Tasks
  BY DEF Tasks, TriggersAssumption
<1>5. ASSUME NEW p \in Tasks, proc' = [proc EXCEPT ![p] = AtRest]
      PROVE  /\ proc' \in [Tasks -> Dispatch]
             /\ \A q \in Tasks : proc'[q] = proc[q] \/ proc'[q].pc = "idle"
  BY <1>1, <1>3, <1>5
<1>6. faults < MaxFaults => faults + 1 \in 0..MaxFaults
  BY <1>2
<1>7. CASE Tick
  <2>1. /\ log' \in [Events -> LogRow]
        /\ \A e \in Events : log'[e].st = log[e].st /\ log'[e].verdicts = log[e].verdicts
    <3> DEFINE older(e) == [log[e] EXCEPT !.age = @ + 1]
               now(e) == IF log[e].st = "none" \/ log[e].age = Hour THEN log[e] ELSE older(e)
    <3>1. ASSUME NEW e \in Events
          PROVE  now(e) \in LogRow /\ now(e).st = log[e].st /\ now(e).verdicts = log[e].verdicts
      <4>1. CASE log[e].st = "none" \/ log[e].age = Hour
        BY <1>1, <4>1
      <4>2. CASE ~(log[e].st = "none" \/ log[e].age = Hour)
        <5> PICK was \in LogRow : was = log[e]
          BY <1>1
        <5>1. was.age \in 0..Hour /\ Hour \in Nat /\ was.age # Hour
          BY <4>2 DEF LogRow, TriggersAssumption
        <5> PICK age \in 0..Hour : age = was.age + 1
          BY <5>1
        <5>3. older(e) = [was EXCEPT !.age = age]
          BY DEF LogRow
        <5>4. /\ [was EXCEPT !.age = age] \in LogRow /\ [was EXCEPT !.age = age].st = was.st
              /\ [was EXCEPT !.age = age].verdicts = was.verdicts
          BY DEF LogRow
        <5>5. older(e) \in LogRow /\ older(e).st = log[e].st /\ older(e).verdicts = log[e].verdicts
          BY <5>3, <5>4
        <5> QED
          BY <4>2, <5>5
      <4> QED
        BY <4>1, <4>2
    <3>2. log' = [e \in Events |-> now(e)]
      BY <1>7 DEF Tick
    <3> HIDE DEF now
    <3> QED
      BY <3>1, <3>2
  <2>2. late' \in BOOLEAN
    BY <1>2, <1>7 DEF Tick
  <2>3. UNCHANGED <<run, proc, sweep, faults, crashed>>
    BY <1>7 DEF Tick
  <2> QED
    BY <2>1, <2>2, <2>3, LoggedStays DEF Logged, TypeOK
<1>8. CASE \E i \in DOMAIN run : RunEnds(i)
  <2>1. PICK i \in DOMAIN run : run' = [run EXCEPT ![i].on = FALSE]
    BY <1>8 DEF RunEnds
  <2>2. run' \in Seq(RunRow)
    <3> DEFINE new == [run[i] EXCEPT !.on = FALSE]
    <3>1. i \in 1..Len(run) /\ run[i] \in RunRow
      BY <1>2, LenProperties, ElementOfSeq
    <3>2. new \in RunRow
      BY <3>1 DEF RunRow
    <3>3. run' = [run EXCEPT ![i] = new]
      BY <1>2, <2>1, <3>1 DEF RunRow
    <3> HIDE DEF new
    <3> QED
      BY <1>2, <3>1, <3>2, <3>3, ExceptSeq
  <2>3. UNCHANGED <<log, proc, sweep, faults, late, crashed>>
    BY <1>8 DEF RunEnds
  <2> QED
    BY <1>1, <2>2, <2>3, LoggedStays DEF Logged, TypeOK
<1>9. CASE \E e \in Events : DispatchFails(e)
  <2>1. PICK e \in Events : DispatchFails(e)
    BY <1>9
  <2>2. /\ UNCHANGED <<log, run, sweep, late, crashed>>
        /\ proc' = [proc EXCEPT ![e] = AtRest] /\ faults' \in 0..MaxFaults
    BY <1>6, <2>1 DEF DispatchFails
  <2> QED
    BY <1>1, <1>4, <1>5, <2>2, LoggedStays DEF Logged, TypeOK
<1>10. CASE RecoveryFails
  <2>1. PICK e \in Events : e = proc[Sweep].ev
    BY <1>4, <1>10 DEF RecoveryFails, Logged, Placed
  <2> PICK was \in LogRow : was = log[e]
    BY <1>1
  <2> DEFINE new == [was EXCEPT !.st = "received"]
  <2>2. new \in LogRow /\ new.st = "received"
    BY DEF LogRow
  <2>3. log' = [log EXCEPT ![e] = new]
    BY <1>1, <1>10, <2>1 DEF RecoveryFails, LogRow
  <2> HIDE DEF new
  <2>4. log' \in [Events -> LogRow] /\ \A f \in Events : log'[f].st = "queued" => log'[f] = log[f]
    BY <1>1, <2>2, <2>3
  <2>5. /\ UNCHANGED <<run, sweep, late, crashed>>
        /\ proc' = [proc EXCEPT ![Sweep] = AtRest] /\ faults' \in 0..MaxFaults
    BY <1>6, <1>10 DEF RecoveryFails
  <2> QED
    BY <1>4, <1>5, <2>4, <2>5, LoggedStays DEF Logged, TypeOK
<1>11. CASE DrainFails \/ Crash
  <2>1. UNCHANGED <<log, run, late>> /\ sweep' = [phase |-> "rest", todo |-> {}] /\ faults' \in 0..MaxFaults
        /\ crashed' \in BOOLEAN
    BY <1>6, <1>11 DEF DrainFails, Crash, Logged, TypeOK
  <2>2. /\ proc' \in [Tasks -> Dispatch]
        /\ \A q \in Tasks : proc'[q] = proc[q] \/ proc'[q].pc = "idle"
    <3>1. proc' = [proc EXCEPT ![Sweep] = AtRest] \/ proc' = [p \in Tasks |-> AtRest]
      BY <1>11 DEF DrainFails, Crash
    <3> QED
      BY <1>1, <1>3, <1>4, <1>5, <3>1
  <2>3. sweep' \in [phase : {"rest", "recover", "drain"}, todo : SUBSET ReadRow] /\ sweep'.phase = "rest"
    BY <2>1
  <2>4. TypeOK'
    BY <2>1, <2>2, <2>3 DEF Logged, TypeOK
  <2>5. Placed'
    BY <2>1, <2>2, <2>3 DEF Logged, Placed
  <2> QED
    BY <2>4, <2>5 DEF Logged
<1>12. CASE UNCHANGED vars
  BY <1>12 DEF Logged, TypeOK, Placed, vars
<1> QED
  BY <1>7, <1>8, <1>9, <1>10, <1>11, <1>12

LEMMA LoggedNext == TriggersAssumption /\ Logged /\ [Next]_vars => Logged'
<1> SUFFICES ASSUME TriggersAssumption, Logged, [Next]_vars PROVE Logged'
  OBVIOUS
<1> QED
  BY LoggedDeliver, LoggedSteps, LoggedSweeps, LoggedRest DEF Next

\* An event whose dispatch, runs and status stay as they were.
LEMMA AccountsStay ==
  ASSUME Logged, NEW e \in Events, Accounts(e), log'[e].st = log[e].st,
         log[e].st = "received" => log'[e].age < Grace,
         proc'[e] = proc[e], DOMAIN run' = DOMAIN run,
         \A i \in DOMAIN run : run'[i].ev = run[i].ev /\ run'[i].trigger = run[i].trigger,
         log[e].st = "queued" => proc'[Sweep] = proc[Sweep] \/ RunsOf(e) = {}
  PROVE  Accounts(e)'
<1>1. RunsOf(e)' = RunsOf(e)
  BY DEF RunsOf
<1>2. \A i \in RunsOf(e) : i \in DOMAIN run
  BY DEF RunsOf
<1> QED
  BY <1>1, <1>2 DEF Accounts, Started

\* The sweep, as long as others leave it and what is queued alone.
LEMMA DrainsStay ==
  ASSUME TriggersAssumption, Logged, Drains, sweep' = sweep, proc'[Sweep] = proc[Sweep],
         \A f \in Events : log[f].st = "queued" => log'[f].st = "queued" /\ RunsOf(f)' = RunsOf(f)
  PROVE  Drains'
<1>1. sweep \in [phase : {"rest", "recover", "drain"}, todo : SUBSET ReadRow]
  BY DEF Logged, TypeOK
<1>2. \A entry \in sweep.todo : entry.ev \in Events
  BY <1>1 DEF ReadRow
<1>3. proc[Sweep].pc # "idle" => proc[Sweep].ev \in Events
  BY DEF Logged, Placed, Tasks
<1>4. CASE proc[Sweep].pc = "idle"
  <2>1. sweep'.phase = "drain" => \A entry \in sweep'.todo :
          /\ log'[entry.ev].st = "queued"
          /\ \A other \in sweep'.todo : other.ev = entry.ev => other = entry
    BY <1>2 DEF Drains
  <2> QED
    BY <1>4, <2>1 DEF Drains
<1>5. CASE proc[Sweep].pc # "idle"
  <2> PICK g \in Events : g = proc[Sweep].ev
    BY <1>3, <1>5
  <2>1. log[g].st = "queued" /\ sweep.phase = "drain" /\ (proc[Sweep].pc = "creating" => RunsOf(g) = {})
    BY <1>5 DEF Drains
  <2>2. log'[g].st = "queued" /\ RunsOf(g)' = RunsOf(g) /\ g = proc'[Sweep].ev
    BY <2>1
  <2>4. \A entry \in sweep'.todo :
          /\ log'[entry.ev].st = "queued" /\ entry.ev # g
          /\ \A other \in sweep'.todo : other.ev = entry.ev => other = entry
    BY <1>2, <1>5, <2>1 DEF Drains
  <2>5. proc'[Sweep].pc \in {"idle", "creating", "telling"}
    BY DEF Drains
  <2>6. proc'[Sweep].pc = "creating" => RunsOf(proc[Sweep].ev)' = {}
    BY <2>1, <2>2 DEF RunsOf
  <2> QED
    BY <2>1, <2>2, <2>4, <2>5, <2>6 DEF Drains
<1> QED
  BY <1>4, <1>5

\* A webhook arrives.
LEMMA DeliverOnce ==
  ASSUME TriggersAssumption, Logged, Once, \A f \in Events : Accounts(f), Drains, NEW e \in Events, Deliver(e)
  PROVE  Once' /\ (\A f \in Events : Accounts(f)') /\ Drains'
<1>1. PICK c \in Changes[e] :
         Begin(e, e, [NoRow EXCEPT !.st = "received", !.by = c.by, !.for = c.for])
  BY DEF Deliver
<1> DEFINE entry == [NoRow EXCEPT !.st = "received", !.by = c.by, !.for = c.for]
<1>2. entry \in LogRow /\ entry.st = "received" /\ entry.age = 0
  <2>1. c.by \in Authors /\ c.for \in SUBSET Triggers
    BY DEF TriggersAssumption, Authors
  <2> QED
    BY <2>1, RowsAtRest DEF LogRow, NoRow
<1>3. Begin(e, e, entry)
  BY <1>1
<1> HIDE DEF entry
<1>4. /\ log' \in [Events -> LogRow] /\ proc' \in [Tasks -> Dispatch]
      /\ \A f \in Events : f # e => log'[f] = log[f]
      /\ \A q \in Tasks : q # e => proc'[q] = proc[q]
      /\ \/ log'[e].st = "ignored" /\ proc' = proc
         \/ /\ log'[e] = entry
            /\ proc'[e].pc = "judging" /\ proc'[e].ev = e /\ proc'[e].left = entry.for
            /\ proc'[e].now = NoTrigger /\ proc'[e].got = <<>>
  BY <1>2, <1>3, Beginning DEF Tasks
<1>5. UNCHANGED <<run, sweep>> /\ log[e].st = "none" /\ RunsOf(e) = {} /\ proc[e].pc = "idle"
  BY DEF Deliver, Accounts
<1>6. Sweep # e /\ Sweep \in Tasks /\ \A f \in Events : f \in Tasks
  BY DEF TriggersAssumption, Tasks
<1>7. \A f \in Events : RunsOf(f)' = RunsOf(f)
  BY <1>5 DEF RunsOf
<1>8. Drains'
  BY <1>4, <1>5, <1>6, <1>7, DrainsStay
<1>9. ASSUME NEW f \in Events, f # e PROVE Accounts(f)'
  <2>1. log'[f] = log[f] /\ proc'[f] = proc[f] /\ proc'[Sweep] = proc[Sweep]
    BY <1>4, <1>6, <1>9
  <2>2. Accounts(f) /\ (log[f].st = "received" => log[f].age < Grace)
    BY DEF Accounts
  <2> QED
    BY <1>5, <2>1, <2>2, AccountsStay
<1>10. Accounts(e)'
  <2>1. RunsOf(e)' = {}
    BY <1>5, <1>7
  <2>2. log'[e].st \in {"ignored", "received"} /\ (log'[e].st = "received" <=> proc'[e].pc # "idle")
        /\ (log'[e].st = "received" => log'[e].age < Grace) /\ proc'[e].pc \in {"idle", "judging"}
    BY <1>2, <1>4, <1>5 DEF TriggersAssumption
  <2> QED
    BY <2>1, <2>2 DEF Accounts
<1>11. Once'
  BY <1>5 DEF Once
<1> QED
  BY <1>8, <1>9, <1>10, <1>11

\* A webhook's dispatch, where it makes no run.
LEMMA DispatchOnce ==
  ASSUME TriggersAssumption, Logged, Once, \A f \in Events : Accounts(f), Drains,
         NEW e \in Events, run' = run, sweep' = sweep,
         proc[e].pc # "idle",
         \A f \in Events : f # e => log'[f] = log[f],
         \A q \in Tasks : q # e => proc'[q] = proc[q],
         Accounts(e)'
  PROVE  Once' /\ (\A f \in Events : Accounts(f)') /\ Drains'
<1>1. Sweep # e /\ Sweep \in Tasks /\ \A f \in Events : f \in Tasks
  BY DEF TriggersAssumption, Tasks
<1>2. log[e].st = "received"
  BY DEF Accounts
<1>3. \A f \in Events : RunsOf(f)' = RunsOf(f)
  BY DEF RunsOf
<1>4. Drains'
  BY <1>1, <1>2, <1>3, DrainsStay
<1>5. ASSUME NEW f \in Events, f # e PROVE Accounts(f)'
  <2>1. log'[f] = log[f] /\ proc'[f] = proc[f] /\ proc'[Sweep] = proc[Sweep]
    BY <1>1, <1>5
  <2>2. Accounts(f) /\ (log[f].st = "received" => log[f].age < Grace)
    BY DEF Accounts
  <2> QED
    BY <2>1, <2>2, AccountsStay
<1>6. Once'
  BY DEF Once
<1> QED
  BY <1>4, <1>5, <1>6

\* A verdict that is true to what the trigger started.
LEMMA GetsOnce ==
  ASSUME TriggersAssumption, Logged, Once, \A f \in Events : Accounts(f), Drains,
         NEW e \in Events, run' = run, sweep' = sweep,
         NEW t \in Triggers, NEW verdict \in {"failed", "nudged", "queued", "started"}, NEW i \in Nat,
         proc[e].pc # "idle", Gets(e, t, verdict, i),
         proc[e].pc = "telling" => verdict = "started" /\ t = proc[e].now
  PROVE  Once' /\ (\A f \in Events : Accounts(f)') /\ Drains'
<1>1. e \in Tasks /\ e = proc[e].ev /\ proc[e].left \in SUBSET Triggers
  BY DEF Logged, Placed, Tasks, TypeOK, Dispatch
<1> PICK got \in Seq(Verdict) : Got(e, e, t, verdict, got)
  BY <1>1, Getting
<1>2. /\ got # <<>> /\ (Started(proc[e].got) => Started(got))
      /\ verdict = "started" => Started(got)
      /\ verdict # "queued" => \E k \in DOMAIN got : got[k].st # "queued"
      /\ \A f \in Events : f # e => log'[f] = log[f]
      /\ \A q \in Tasks : q # e => proc'[q] = proc[q]
      /\ \/ /\ log'[e].st \in {"queued", "failed", "matched"}
            /\ log'[e].st = "queued" => \A k \in DOMAIN got : got[k].st = "queued"
            /\ proc'[e] = AtRest
         \/ /\ log' = log
            /\ proc'[e].pc = "judging" /\ proc'[e].left = proc[e].left \ {t} /\ proc'[e].got = got
  BY DEF Got
<1>3. RunsOf(e)' = RunsOf(e) /\ \A j \in RunsOf(e) : j \in DOMAIN run
  BY DEF RunsOf
<1>4. /\ log[e].st = "received" /\ log[e].age < Grace
      /\ \A j \in RunsOf(e) :
           /\ proc[e].pc = "telling" \/ Started(proc[e].got)
           /\ run[j].trigger \in proc[e].left => proc[e].pc = "telling" /\ run[j].trigger = proc[e].now
  BY DEF Accounts
<1>5. \A j \in RunsOf(e) : Started(got)
  BY <1>2, <1>4
<1>6. CASE log' = log
  <2>1. proc'[e].pc = "judging" /\ proc'[e].left = proc[e].left \ {t} /\ proc'[e].got = got
    <3>1. log'[e].st = "received"
      BY <1>4, <1>6
    <3> QED
      BY <1>2, <3>1
  <2>2. \A j \in RunsOf(e) : run[j].trigger \notin proc[e].left \ {t}
    BY <1>4
  <2>3. Started(proc[e].got)' <=> Started(got)
    BY <2>1 DEF Started
  <2>4. Accounts(e)'
    BY <1>3, <1>4, <1>5, <1>6, <2>1, <2>2, <2>3 DEF Accounts
  <2> QED
    BY <1>2, <2>4, DispatchOnce
<1>7. CASE log' # log
  <2>1. /\ log'[e].st \in {"queued", "failed", "matched"} /\ proc'[e] = AtRest
        /\ log'[e].st = "queued" => \A k \in DOMAIN got : got[k].st = "queued"
    BY <1>2, <1>7
  <2>2. AtRest.pc = "idle"
    BY DEF AtRest
  <2>3. ASSUME log'[e].st = "queued" PROVE RunsOf(e)' = {}
    <3>1. ~Started(got)
      BY <2>1, <2>3 DEF Started
    <3> QED
      BY <1>3, <1>5, <3>1
  <2>4. Accounts(e)'
    BY <2>1, <2>2, <2>3 DEF Accounts
  <2> QED
    BY <1>2, <2>4, DispatchOnce
<1> QED
  BY <1>6, <1>7

\* A run of a trigger that has none of this event yet.
LEMMA CreateOnce ==
  ASSUME TriggersAssumption, Logged, Once, \A f \in Events : Accounts(f), Drains, NEW p \in Tasks, Create(p)
  PROVE  Once' /\ (\A f \in Events : Accounts(f)') /\ Drains'
<1>1. /\ proc \in [Tasks -> Dispatch] /\ proc[p] \in Dispatch /\ run \in Seq(RunRow)
      /\ proc[p].pc = "creating" /\ log' = log /\ sweep' = sweep
  BY DEF Logged, TypeOK, Create
<1>2. Sweep \in Tasks /\ Sweep \notin Events /\ (p # Sweep => p \in Events)
  BY DEF TriggersAssumption, Tasks
<1> PICK e \in Events : e = proc[p].ev
  BY <1>1 DEF Logged, Placed
<1> DEFINE t == proc[p].now
           new == [ev |-> e, trigger |-> t, on |-> TRUE, owner |-> proc[p].owner]
           d == [proc[p] EXCEPT !.pc = "telling", !.run = Len(run) + 1]
<1>3. p \in Events => e = p
  BY <1>1 DEF Logged, Placed
<1>4. /\ DOMAIN run' = 1..(Len(run) + 1) /\ DOMAIN run = 1..Len(run) /\ Len(run) \in Nat
      /\ run'[Len(run) + 1].ev = e /\ run'[Len(run) + 1].trigger = t
      /\ \A i \in DOMAIN run : run'[i] = run[i]
  <2>1. run' = Append(run, new)
    BY DEF Create
  <2>2. new.ev = e /\ new.trigger = t /\ new \in RunRow
    BY <1>1 DEF RunRow, Dispatch, Logged, Placed
  <2> HIDE DEF new
  <2> QED
    BY <1>1, <2>1, <2>2, AppendProperties, LenProperties
<1> DEFINE last == Len(run) + 1
<1>5. /\ DOMAIN run' = DOMAIN run \cup {last} /\ last \notin DOMAIN run
      /\ run'[last].ev = e /\ run'[last].trigger = t /\ \A i \in DOMAIN run : run'[i] = run[i]
  BY <1>4
<1>6. /\ proc'[p].pc = "telling" /\ proc'[p].ev = e /\ proc'[p].now = t
      /\ proc'[p].left = proc[p].left /\ proc'[p].got = proc[p].got
      /\ \A q \in Tasks : q # p => proc'[q] = proc[q]
  <2>1. d.pc = "telling" /\ d.ev = e /\ d.now = t /\ d.left = proc[p].left /\ d.got = proc[p].got
    BY <1>1 DEF Dispatch
  <2>2. proc' = [proc EXCEPT ![p] = d]
    BY <1>1 DEF Create, Dispatch
  <2> HIDE DEF d
  <2> QED
    BY <1>1, <2>1, <2>2
<1> HIDE DEF last, t
<1>7. /\ RunsOf(e)' = RunsOf(e) \cup {last}
      /\ \A f \in Events : f # e => RunsOf(f)' = RunsOf(f)
  BY <1>5 DEF RunsOf
<1>8. \A i \in RunsOf(e) : run[i].trigger # t
  <2>1. CASE p \in Events
    BY <1>1, <1>3, <2>1 DEF Accounts, t
  <2>2. CASE p = Sweep
    BY <1>1, <2>2 DEF Drains
  <2> QED
    BY <1>2, <2>1, <2>2
<1>9. Once'
  <2>1. \A i \in DOMAIN run : run[i].ev = e => run[i].trigger # t
    BY <1>8 DEF RunsOf
  <2> QED
    BY <1>5, <2>1 DEF Once
<1>10. log[e].st = "received" \/ (p = Sweep /\ log[e].st = "queued")
  BY <1>1, <1>2, <1>3 DEF Accounts, Drains
<1>11. ASSUME NEW f \in Events, f # e PROVE Accounts(f)'
  <2>1. f \in Tasks /\ f # p
    BY <1>2, <1>3, <1>11 DEF Tasks
  <2>2. proc'[f] = proc[f] /\ RunsOf(f)' = RunsOf(f) /\ Accounts(f)
    BY <1>6, <1>7, <1>11, <2>1
  <2>3. \A i \in RunsOf(f) : run'[i] = run[i]
    BY <1>5 DEF RunsOf
  <2>4. log[f].st = "queued" => RunsOf(f) = {} \/ proc'[Sweep] = proc[Sweep]
    <3>1. p = Sweep => ~(proc[Sweep].pc = "telling")
      BY <1>1
    <3>2. p # Sweep => proc'[Sweep] = proc[Sweep]
      BY <1>2, <1>6
    <3>3. CASE p = Sweep
      BY <2>2, <3>1, <3>3 DEF Accounts
    <3> QED
      BY <3>2, <3>3
  <2> QED
    BY <1>1, <2>2, <2>3, <2>4 DEF Accounts, Started
<1>12. Accounts(e)'
  <2>1. CASE p = Sweep
    <3>1. log[e].st = "queued" /\ e # p
      BY <1>1, <1>2, <1>10, <2>1 DEF Drains
    <3>2. proc'[e] = proc[e] /\ proc[e].pc = "idle"
      BY <1>6, <3>1 DEF Accounts, Tasks
    <3> QED
      BY <1>1, <1>6, <2>1, <3>1, <3>2 DEF Accounts
  <2>2. CASE p \in Events
    <3>1. p = e /\ log[e].st = "received" /\ log[e].age < Grace /\ t \in proc[e].left
      BY <1>1, <1>3, <2>2 DEF Accounts, t
    <3>2. \A i \in RunsOf(e) : run'[i] = run[i] /\ run[i].trigger \notin proc[e].left
      BY <1>1, <1>5, <3>1 DEF Accounts, RunsOf
    <3>3. \A i \in RunsOf(e)' : run'[i].trigger \in proc'[e].left => run'[i].trigger = proc'[e].now
      BY <1>5, <1>6, <1>7, <3>1, <3>2
    <3> QED
      BY <1>1, <1>6, <3>1, <3>3 DEF Accounts
  <2> QED
    BY <1>2, <2>1, <2>2
<1>13. Drains'
  <2>1. CASE p # Sweep
    <3>1. \A f \in Events : log[f].st = "queued" => log'[f].st = "queued" /\ RunsOf(f)' = RunsOf(f)
      BY <1>1, <1>7, <1>10, <2>1
    <3> QED
      BY <1>1, <1>2, <1>6, <2>1, <3>1, DrainsStay
  <2>2. CASE p = Sweep
    BY <1>1, <1>6, <2>2 DEF Drains
  <2> QED
    BY <2>1, <2>2
<1> QED
  BY <1>9, <1>11, <1>12, <1>13

\* One trigger of a dispatch.
LEMMA StepsOnce ==
  ASSUME TriggersAssumption, Logged, Once, \A f \in Events : Accounts(f), Drains, NEW p \in Tasks, DispatchStep(p)
  PROVE  Once' /\ (\A f \in Events : Accounts(f)') /\ Drains'
<1>1. proc \in [Tasks -> Dispatch] /\ proc[p] \in Dispatch /\ run \in Seq(RunRow) /\ (p # Sweep => p \in Events)
  BY DEF Logged, TypeOK, Tasks
<1>2. CASE Create(p)
  BY <1>2, CreateOnce
<1>3. CASE Told(p)
  <2>1. /\ proc[p].pc \in {"telling", "nudging"} /\ run' = run /\ sweep' = sweep /\ p # Sweep
    BY <1>3 DEF Told, Draining, Drains
  <2> PICK e \in Events : e = p
    BY <1>1, <2>1
  <2> PICK t \in Triggers : t = proc[e].now
    BY <2>1 DEF Logged, Placed
  <2> PICK i \in Nat : i = proc[e].run
    BY <1>1 DEF Dispatch
  <2>2. PICK verdict \in {"started", "nudged"} :
           Gets(e, t, verdict, i) /\ verdict = IF proc[e].pc = "telling" THEN "started" ELSE "nudged"
    BY <1>3 DEF Told
  <2> QED
    BY <2>1, <2>2, GetsOnce
<1>4. CASE Judge(p)
  <2>1. proc[p].pc = "judging" /\ run' = run /\ sweep' = sweep /\ p # Sweep
    BY <1>4 DEF Judge, Drains
  <2> PICK e \in Events : e = p
    BY <1>1, <2>1
  <2>2. PICK t \in proc[e].left :
          \/ \E verdict \in {"failed", "queued"} : Gets(e, t, verdict, 0)
          \/ /\ log' = log
             /\ \E i \in RecentActive(t, proc[e].ev) :
                  proc' = [proc EXCEPT ![e].pc = "nudging", ![e].now = t, ![e].run = i]
          \/ /\ log' = log
             /\ \E own \in Owners :
                  proc' = [proc EXCEPT ![e].pc = "creating", ![e].now = t, ![e].owner = own]
    BY <1>4, OwnerType DEF Judge
  <2>3. t \in Triggers
    BY <1>1 DEF Dispatch
  <2>4. CASE \E verdict \in {"failed", "queued"} : Gets(e, t, verdict, 0)
    BY <2>1, <2>3, <2>4, GetsOnce
  <2>5. ASSUME log' = log, NEW d, proc' = [proc EXCEPT ![e] = d], d.pc \in {"nudging", "creating"}, d.now = t,
               d.left = proc[e].left, d.got = proc[e].got
        PROVE  Once' /\ (\A f \in Events : Accounts(f)') /\ Drains'
    <3>1. proc'[e] = d /\ \A q \in Tasks : q # e => proc'[q] = proc[q]
      BY <1>1, <2>5
    <3>2. RunsOf(e)' = RunsOf(e)
      BY <2>1 DEF RunsOf
    <3>3. /\ log[e].st = "received" /\ log[e].age < Grace
          /\ \A i \in RunsOf(e) : Started(proc[e].got) /\ run[i].trigger \notin proc[e].left
      BY <2>1 DEF Accounts
    <3>4. Started(proc[e].got)' <=> Started(proc[e].got)
      BY <2>5, <3>1 DEF Started
    <3>5. Accounts(e)'
      BY <2>1, <2>5, <3>1, <3>2, <3>3, <3>4 DEF Accounts
    <3> QED
      BY <2>1, <2>5, <3>1, <3>5, DispatchOnce
  <2>6. ASSUME log' = log, NEW i \in RecentActive(t, proc[e].ev),
               proc' = [proc EXCEPT ![e].pc = "nudging", ![e].now = t, ![e].run = i]
        PROVE  Once' /\ (\A f \in Events : Accounts(f)') /\ Drains'
    <3> DEFINE d == [proc[e] EXCEPT !.pc = "nudging", !.now = t, !.run = i]
    <3>1. d.pc = "nudging" /\ d.now = t /\ d.left = proc[e].left /\ d.got = proc[e].got
      BY <1>1 DEF Dispatch
    <3>2. proc' = [proc EXCEPT ![e] = d]
      BY <1>1, <2>6 DEF Dispatch
    <3> HIDE DEF d
    <3> QED
      BY <2>5, <2>6, <3>1, <3>2
  <2>7. ASSUME log' = log, NEW own \in Owners,
               proc' = [proc EXCEPT ![e].pc = "creating", ![e].now = t, ![e].owner = own]
        PROVE  Once' /\ (\A f \in Events : Accounts(f)') /\ Drains'
    <3> DEFINE d == [proc[e] EXCEPT !.pc = "creating", !.now = t, !.owner = own]
    <3>1. d.pc = "creating" /\ d.now = t /\ d.left = proc[e].left /\ d.got = proc[e].got
      BY <1>1 DEF Dispatch
    <3>2. proc' = [proc EXCEPT ![e] = d]
      BY <1>1, <2>7 DEF Dispatch
    <3> HIDE DEF d
    <3> QED
      BY <2>5, <2>7, <3>1, <3>2
  <2> QED
    BY <2>2, <2>4, <2>6, <2>7
<1> QED
  BY <1>2, <1>3, <1>4 DEF DispatchStep

\* The sweep.
LEMMA SweepsOnce ==
  ASSUME TriggersAssumption, Logged, Once, \A f \in Events : Accounts(f), Drains, Sweeps
  PROVE  Once' /\ (\A f \in Events : Accounts(f)') /\ Drains'
<1>1. /\ proc \in [Tasks -> Dispatch] /\ log \in [Events -> LogRow] /\ sweep.todo \in SUBSET ReadRow
      /\ sweep \in [phase : {"rest", "recover", "drain"}, todo : SUBSET ReadRow]
  BY DEF Logged, TypeOK
<1>2. Sweep \in Tasks /\ Sweep \notin Events
  BY DEF Tasks, TriggersAssumption
<1>3. run' = run /\ Once'
  BY DEF Sweeps, RecoverStuck, Claim, DrainQueued, DrainNext, Drained, SweepRests, Once
<1>4. \A f \in Events : RunsOf(f)' = RunsOf(f)
  BY <1>3 DEF RunsOf
<1>5. ASSUME log' = log, proc' = proc PROVE \A f \in Events : Accounts(f)'
  <2> TAKE f \in Events
  <2>1. log[f].st = "received" => log[f].age < Grace
    BY DEF Accounts
  <2> QED
    BY <1>3, <1>5, <2>1, AccountsStay
<1>6. CASE RecoverStuck
  <2>1. UNCHANGED <<log, proc>> /\ sweep.phase = "rest"
    BY <1>6 DEF RecoverStuck
  <2>2. \A f \in Events : ~(log[f].st = "received" /\ log[f].age >= Grace)
    <3> TAKE f \in Events
    <3>1. log[f].age \in Nat /\ Grace \in Nat
      BY <1>1 DEF LogRow, TriggersAssumption
    <3>2. log[f].st = "received" => log[f].age < Grace
      BY DEF Accounts
    <3> QED
      BY <3>1, <3>2
  <2>3. sweep' = [phase |-> "recover", todo |-> Read({})]
    BY <1>6, <2>2 DEF RecoverStuck
  <2>4. Read({}) = {}
    BY DEF Read
  <2>5. Drains'
    BY <2>1, <2>3, <2>4 DEF Drains
  <2> QED
    BY <1>3, <1>5, <2>1, <2>5
<1>7. CASE Claim
  BY <1>7 DEF Claim, Drains
<1>8. CASE DrainQueued
  <2>1. UNCHANGED <<log, proc>> /\ proc[Sweep].pc = "idle"
    BY <1>8 DEF DrainQueued
  <2>2. PICK todo : /\ todo = Read({f \in Events : log[f].st = "queued"})
                    /\ sweep' = [phase |-> "drain", todo |-> todo]
    BY <1>8 DEF DrainQueued
  <2>3. /\ \A entry \in todo : log[entry.ev].st = "queued"
        /\ \A entry, other \in todo : other.ev = entry.ev => other = entry
    BY <2>2, ReadRows
  <2>4. sweep'.phase = "drain" /\ sweep'.todo = todo
    BY <2>2
  <2>5. Drains'
    BY <2>1, <2>3, <2>4 DEF Drains
  <2> QED
    BY <1>3, <1>5, <2>1, <2>5
<1>9. CASE SweepRests
  <2>1. UNCHANGED <<log, proc>> /\ proc[Sweep].pc = "idle" /\ sweep'.phase = "rest"
    BY <1>1, <1>9 DEF SweepRests
  <2>2. Drains'
    BY <2>1 DEF Drains
  <2> QED
    BY <1>3, <1>5, <2>1, <2>2
<1>10. CASE DrainNext
  <2>1. log' = log /\ sweep.phase = "drain" /\ proc[Sweep].pc = "idle"
    BY <1>10 DEF DrainNext
  <2>2. PICK entry \in sweep.todo :
          /\ sweep' = [sweep EXCEPT !.todo = sweep.todo \ {entry}]
          /\ proc' = proc \/
             proc' = [proc EXCEPT ![Sweep] =
                       [AtRest EXCEPT !.pc = "creating", !.ev = entry.ev,
                                      !.now = entry.trigger, !.owner = entry.owner]]
    BY <1>10 DEF DrainNext
  <2>3. sweep'.phase = "drain" /\ sweep'.todo = sweep.todo \ {entry}
    BY <1>1, <2>1, <2>2
  <2>4. \A one \in sweep'.todo :
          /\ log'[one.ev].st = "queued" /\ one.ev # entry.ev
          /\ \A other \in sweep'.todo : other.ev = one.ev => other = one
    BY <2>1, <2>2, <2>3 DEF Drains
  <2>5. CASE proc' = proc
    <3>1. Drains'
      BY <2>1, <2>3, <2>4, <2>5 DEF Drains
    <3> QED
      BY <1>3, <1>5, <2>1, <2>5, <3>1
  <2>6. CASE proc' # proc
    <3> DEFINE d == [AtRest EXCEPT !.pc = "creating", !.ev = entry.ev,
                                  !.now = entry.trigger, !.owner = entry.owner]
    <3>1. d.pc = "creating" /\ d.ev = entry.ev
      BY DEF AtRest
    <3>2. proc' = [proc EXCEPT ![Sweep] = d]
      BY <2>2, <2>6
    <3> HIDE DEF d
    <3>3. /\ proc'[Sweep].pc = "creating" /\ proc'[Sweep].ev = entry.ev
          /\ \A q \in Tasks : q # Sweep => proc'[q] = proc[q]
      BY <1>1, <1>2, <3>1, <3>2
    <3> PICK e \in Events : e = entry.ev
      BY <1>1 DEF ReadRow
    <3>4. log[e].st = "queued"
      BY <2>1 DEF Drains
    <3>5. \A f \in Events : log[f].st = "queued" => RunsOf(f) = {}
      BY <2>1 DEF Accounts
    <3>6. ASSUME NEW f \in Events PROVE Accounts(f)'
      <4>1. log'[f] = log[f] /\ proc'[f] = proc[f]
        BY <1>2, <2>1, <3>3 DEF Tasks
      <4>2. Accounts(f) /\ (log[f].st = "received" => log[f].age < Grace)
        BY DEF Accounts
      <4> QED
        BY <1>3, <3>5, <4>1, <4>2, AccountsStay
    <3>7. RunsOf(e)' = {}
      BY <1>4, <3>4, <3>5
    <3>8. RunsOf(proc[Sweep].ev)' = {}
      BY <3>3, <3>7 DEF RunsOf
    <3>9. Drains'
      BY <2>1, <2>3, <2>4, <3>3, <3>4, <3>8 DEF Drains
    <3> QED
      BY <1>3, <3>6, <3>9
  <2> QED
    BY <2>5, <2>6
<1>11. CASE Drained
  <2>1. proc[Sweep].pc = "telling" /\ sweep' = sweep
    BY <1>11 DEF Drained
  <2> PICK e \in Events : e = proc[Sweep].ev
    BY <1>2, <2>1 DEF Logged, Placed
  <2> PICK was \in LogRow : was = log[e]
    BY <1>1
  <2> DEFINE new == [was EXCEPT !.st = "matched", !.run = proc[Sweep].run]
  <2>2. new.st = "matched"
    BY DEF LogRow
  <2>3. log' = [log EXCEPT ![e] = new] /\ proc' = [proc EXCEPT ![Sweep] = AtRest]
    BY <1>1, <1>11 DEF Drained, LogRow
  <2> HIDE DEF new
  <2>4. /\ log'[e].st = "matched" /\ \A f \in Events : f # e => log'[f] = log[f]
        /\ proc'[Sweep].pc = "idle" /\ \A q \in Tasks : q # Sweep => proc'[q] = proc[q]
    BY <1>1, <1>2, <2>2, <2>3 DEF AtRest
  <2>5. log[e].st = "queued" /\ sweep.phase = "drain"
    BY <2>1 DEF Drains
  <2>6. \A f \in Events : log[f].st = "queued" /\ f # e => RunsOf(f) = {}
    BY DEF Accounts
  <2>7. ASSUME NEW f \in Events, f # e PROVE Accounts(f)'
    <3>1. log'[f] = log[f] /\ proc'[f] = proc[f]
      BY <1>2, <2>4, <2>7 DEF Tasks
    <3>2. Accounts(f) /\ (log[f].st = "received" => log[f].age < Grace)
      BY DEF Accounts
    <3> QED
      BY <1>3, <2>6, <2>7, <3>1, <3>2, AccountsStay
  <2>8. Accounts(e)'
    <3>1. proc'[e].pc = "idle"
      BY <1>2, <2>4, <2>5 DEF Accounts, Tasks
    <3> QED
      BY <2>4, <3>1 DEF Accounts
  <2>9. \A entry \in sweep.todo : entry.ev # e /\ entry.ev \in Events
    BY <1>1, <2>1 DEF Drains, ReadRow
  <2>10. Drains'
    BY <2>1, <2>4, <2>5, <2>9 DEF Drains
  <2> QED
    BY <1>3, <2>7, <2>8, <2>10
<1> QED
  BY <1>6, <1>7, <1>8, <1>9, <1>10, <1>11 DEF Sweeps

\* Time passes, and runs end.
LEMMA TimeOnce ==
  ASSUME TriggersAssumption, Logged, Once, \A f \in Events : Accounts(f), Drains, ~late',
         Tick \/ \E i \in DOMAIN run : RunEnds(i)
  PROVE  Once' /\ (\A f \in Events : Accounts(f)') /\ Drains'
<1>1. log \in [Events -> LogRow] /\ run \in Seq(RunRow)
  BY DEF Logged, TypeOK
<1>2. UNCHANGED <<proc, sweep>>
  BY DEF Tick, RunEnds
<1>3. /\ DOMAIN run' = DOMAIN run
      /\ \A i \in DOMAIN run : run'[i].ev = run[i].ev /\ run'[i].trigger = run[i].trigger
  <2>1. CASE Tick
    BY <2>1 DEF Tick
  <2>2. CASE \E i \in DOMAIN run : RunEnds(i)
    <3>1. PICK i \in DOMAIN run : run' = [run EXCEPT ![i].on = FALSE]
      BY <2>2 DEF RunEnds
    <3>2. run[i] \in RunRow
      BY <1>1, LenProperties, ElementOfSeq
    <3> DEFINE new == [run[i] EXCEPT !.on = FALSE]
    <3>3. new.ev = run[i].ev /\ new.trigger = run[i].trigger
      BY <3>2 DEF RunRow
    <3>4. run' = [run EXCEPT ![i] = new]
      BY <3>1, <3>2 DEF RunRow
    <3> HIDE DEF new
    <3> QED
      BY <3>3, <3>4
  <2> QED
    BY <2>1, <2>2
<1>4. \A f \in Events : log'[f].st = log[f].st /\ (log[f].st = "received" => log'[f] = log[f])
  <2>1. CASE Tick
    <3>1. \A f \in Events : ~(proc[f].pc # "idle" /\ log[f].age < Grace)
      BY <2>1 DEF Tick
    <3>2. \A f \in Events : log[f].st # "received"
      BY <3>1 DEF Accounts
    <3> TAKE f \in Events
    <3> PICK was \in LogRow : was = log[f]
      BY <1>1
    <3>3. log'[f] = was \/ log'[f] = [was EXCEPT !.age = @ + 1]
      BY <2>1 DEF Tick
    <3>4. [was EXCEPT !.age = @ + 1].st = was.st
      BY DEF LogRow
    <3> QED
      BY <3>2, <3>3, <3>4
  <2>2. CASE \E i \in DOMAIN run : RunEnds(i)
    BY <2>2 DEF RunEnds
  <2> QED
    BY <2>1, <2>2
<1>5. ASSUME NEW f \in Events PROVE Accounts(f)'
  <2>1. Accounts(f) /\ (log[f].st = "received" => log'[f].age < Grace)
    BY <1>4 DEF Accounts
  <2> QED
    BY <1>2, <1>3, <1>4, <2>1, AccountsStay
<1>6. \A f \in Events : RunsOf(f)' = RunsOf(f)
  BY <1>3 DEF RunsOf
<1>7. Drains'
  BY <1>2, <1>4, <1>6, DrainsStay
<1>8. Once'
  BY <1>3 DEF Once
<1> QED
  BY <1>5, <1>7, <1>8

LEMMA OnceBegin == TriggersAssumption /\ Init => OnceInv
<1> SUFFICES ASSUME TriggersAssumption, Init PROVE OnceInv
  OBVIOUS
<1>1. DOMAIN run = {}
  BY EmptySeq, LenProperties DEF Init
<1>2. Once /\ \A e \in Events : RunsOf(e) = {}
  BY <1>1 DEF Once, RunsOf
<1>3. \A e \in Events : log[e].st = "none" /\ proc[e].pc = "idle"
  BY DEF Init, NoRow, AtRest, Tasks
<1>4. \A e \in Events : Accounts(e)
  BY <1>2, <1>3 DEF Accounts
<1>5. proc[Sweep].pc = "idle" /\ sweep.phase = "rest"
  BY DEF Init, AtRest, Tasks
<1>6. Drains
  BY <1>5 DEF Drains
<1> QED
  BY <1>2, <1>4, <1>6 DEF OnceInv

LEMMA OnceNext == TriggersAssumption /\ Logged /\ OnceInv /\ [Next]_vars => OnceInv'
<1> SUFFICES ASSUME TriggersAssumption, Logged, OnceInv, [Next]_vars, Calmly'
             PROVE  Once' /\ (\A e \in Events : Accounts(e)') /\ Drains'
  BY DEF OnceInv
<1>1. faults \in Nat
  BY DEF Logged, TypeOK, TriggersAssumption
<1>2. ~RecoveryFails /\ ~DrainFails /\ ~Crash /\ \A e \in Events : ~DispatchFails(e)
  BY <1>1 DEF RecoveryFails, DrainFails, Crash, DispatchFails, Calmly
<1>3. faults' = faults
  BY <1>2 DEF Next, Deliver, DispatchStep, Judge, Create, Told, Sweeps, RecoverStuck, Claim, DrainQueued, DrainNext,
              Drained, SweepRests, Tick, RunEnds, vars
<1>4. ~late
  BY <1>2 DEF Next, Deliver, DispatchStep, Judge, Create, Told, Sweeps, RecoverStuck, Claim, DrainQueued, DrainNext,
              Drained, SweepRests, Tick, RunEnds, vars, Calmly
<1>5. Once /\ (\A e \in Events : Accounts(e)) /\ Drains
  BY <1>3, <1>4 DEF OnceInv, Calmly
<1>6. ~late'
  BY DEF Calmly
<1>7. CASE UNCHANGED vars
  BY <1>5, <1>7 DEF vars, Once, Accounts, RunsOf, Started, Drains
<1> QED
  BY <1>2, <1>5, <1>6, <1>7, DeliverOnce, StepsOnce, SweepsOnce, TimeOnce DEF Next

\* The log, the dispatches and the sweep keep to their types.
THEOREM LogTypeCorrect == ASSUME TriggersAssumption PROVE Spec => []TypeOK
<1>1. Init => Logged
  BY LoggedBegin
<1>2. Logged /\ [Next]_vars => Logged'
  BY LoggedNext
<1>3. Logged => TypeOK
  BY DEF Logged
<1> QED
  BY <1>1, <1>2, <1>3, PTL DEF Spec

\* An event starts one run per trigger at most while no dispatch breaks or dawdles:
\* through duplicates of its webhook, through the queue behind the cap, and through
\* every round of the sweep (triggers.py:189).
THEOREM StartedOnce == ASSUME TriggersAssumption PROVE Spec => []OneRunEach
<1>1. Init => Logged /\ OnceInv
  BY LoggedBegin, OnceBegin
<1>2. (Logged /\ OnceInv) /\ [Next]_vars => (Logged /\ OnceInv)'
  BY LoggedNext, OnceNext
<1>3. Logged /\ OnceInv => OneRunEach
  BY DEF OnceInv, Calmly, OneRunEach
<1> QED
  BY <1>1, <1>2, <1>3, PTL DEF Spec

-----------------------------------------------------------------------------
(* Knowledge: the version tells a block that is up to date from one that   *)
(* is not.                                                                 *)

\* A block is of no later version than the cache's, and the space a lane has sent
\* to be ranked is that of now unless a decision has fallen.
Versioned == \A k \in 1..Len(cache) : cache[k].at <= version
Ranked ==
  \A l \in Askers : rank[l].run # None /\ ~rank[l].moved => rank[l].of = Space(rank[l].run)

Chosen == KnowTypeOK /\ Versioned /\ Ranked /\ BlockFresh

\* What goes through the cache: its blocks, and the one that is appended.
LEMMA OthersKept ==
  ASSUME KnowTypeOK, NEW r
  PROVE  /\ Others(r) \in Seq(Block)
         /\ \A k \in 1..Len(Others(r)) : \E j \in 1..Len(cache) : Others(r)[k] = cache[j]
         /\ Len(Others(r)) <= Len(cache) /\ (Slot(r) # {} => Len(Others(r)) < Len(cache))
<1>1. cache \in Seq(Block) /\ Len(cache) \in Nat
  BY DEF KnowTypeOK
<1>2. CASE Slot(r) = {}
  <2>1. Others(r) = cache
    BY <1>2 DEF Others
  <2>2. \A k \in 1..Len(Others(r)) : \E j \in 1..Len(cache) : Others(r)[k] = cache[j]
    BY <2>1
  <2> QED
    BY <1>1, <1>2, <2>1, <2>2
<1>3. CASE Slot(r) # {}
  <2> DEFINE at == CHOOSE k \in Slot(r) : TRUE
             front == SubSeq(cache, 1, at - 1)
             back == SubSeq(cache, at + 1, Len(cache))
  <2>1. at \in 1..Len(cache)
    BY <1>3 DEF Slot
  <2>2. Others(r) = front \o back
    BY <1>3 DEF Others, RemoveAt
  <2> HIDE DEF at
  <2>3. /\ front \in Seq(Block) /\ Len(front) = at - 1
        /\ \A k \in 1..(at - 1) : front[k] = cache[k]
    BY <1>1, <2>1
  <2>4. /\ back \in Seq(Block) /\ Len(back) = Len(cache) - at
        /\ \A k \in 1..(Len(cache) - at) : back[k] = cache[at + k]
    BY <1>1, <2>1
  <2> HIDE DEF front, back
  <2>5. /\ Others(r) \in Seq(Block) /\ Len(Others(r)) = Len(front) + Len(back)
        /\ \A k \in 1..Len(front) : Others(r)[k] = front[k]
        /\ \A k \in (Len(front) + 1)..(Len(front) + Len(back)) : Others(r)[k] = back[k - Len(front)]
    <3>1. /\ front \o back \in Seq(Block) /\ Len(front \o back) = Len(front) + Len(back)
          /\ \A k \in 1..(Len(front) + Len(back)) :
               (front \o back)[k] = IF k <= Len(front) THEN front[k] ELSE back[k - Len(front)]
      BY <2>3, <2>4, ConcatProperties
    <3>2. Len(front) \in Nat /\ Len(back) \in Nat
      BY <2>3, <2>4
    <3> QED
      BY <2>2, <3>1, <3>2
  <2>6. ASSUME NEW k \in 1..Len(Others(r))
        PROVE  \E j \in 1..Len(cache) : Others(r)[k] = cache[j]
    <3>1. CASE k < at
      <4>1. k \in 1..(at - 1) /\ k \in 1..Len(front) /\ k \in 1..Len(cache)
        BY <1>1, <2>1, <2>3, <2>4, <2>5, <3>1
      <4>2. Others(r)[k] = cache[k]
        BY <2>3, <2>5, <4>1
      <4> QED
        BY <4>1, <4>2
    <3>2. CASE k >= at
      <4>1. k - (at - 1) \in 1..(Len(cache) - at) /\ k \in (Len(front) + 1)..(Len(front) + Len(back))
        BY <1>1, <2>1, <2>3, <2>4, <2>5, <3>2
      <4>2. Others(r)[k] = cache[at + (k - (at - 1))] /\ at + (k - (at - 1)) \in 1..Len(cache)
        BY <1>1, <2>1, <2>3, <2>4, <2>5, <4>1
      <4> QED
        BY <4>2
    <3> QED
      BY <2>1, <3>1, <3>2
  <2> QED
    BY <1>1, <2>1, <2>3, <2>4, <2>5, <2>6
<1> QED
  BY <1>2, <1>3

\* A block that is up to date or may be told not to be.
Good(b) ==
  /\ b.at <= version
  /\ b.at = version /\ bumping = {} /\ ~b.moved => b.of = Space(b.run)

LEMMA CacheGood ==
  ASSUME KnowTypeOK
  PROVE  (\A k \in 1..Len(cache) : Good(cache[k])) <=> Versioned /\ BlockFresh
BY DEF Good, Versioned, BlockFresh

LEMMA SpaceTyped == \A r : Space(r) \subseteq Items
BY DEF Space

\* What a hit and a ranking leave in the cache.
LEMMA GrownGood ==
  ASSUME KnowTypeOK, Versioned, BlockFresh, NEW r, NEW b \in Block, Good(b),
         NEW from \in {1, 2}, cache' = SubSeq(Append(Others(r), b), from, Len(Append(Others(r), b))),
         UNCHANGED <<item, version, bumping>>
  PROVE  cache' \in Seq(Block) /\ (Versioned /\ BlockFresh)'
<1> DEFINE grown == Append(Others(r), b)
<1>1. /\ grown \in Seq(Block) /\ Len(grown) = Len(Others(r)) + 1 /\ Len(Others(r)) \in Nat
      /\ grown[Len(Others(r)) + 1] = b
      /\ \A k \in 1..Len(Others(r)) : grown[k] = Others(r)[k]
  BY OthersKept
<1>2. \A k \in 1..Len(grown) : Good(grown[k])
  <2>1. \A k \in 1..Len(cache) : Good(cache[k])
    BY CacheGood
  <2>2. \A k \in 1..Len(Others(r)) : Good(grown[k])
    BY <1>1, <2>1, OthersKept
  <2> QED
    BY <1>1, <2>2
<1> HIDE DEF grown
<1>3. /\ cache' \in Seq(Block)
      /\ \A k \in 1..Len(cache') : \E j \in 1..Len(grown) : cache'[k] = grown[j]
  <2>1. cache' = SubSeq(grown, from, Len(grown))
    BY DEF grown
  <2>2. Len(cache') = Len(grown) + 1 - from /\ \A k \in 1..Len(cache') : cache'[k] = grown[from + k - 1]
    BY <1>1, <2>1
  <2>3. \A k \in 1..Len(cache') : from + k - 1 \in 1..Len(grown)
    BY <1>1, <2>2
  <2>4. cache' \in Seq(Block)
    BY <1>1, <2>1
  <2>5. \A k \in 1..Len(cache') : \E j \in 1..Len(grown) : cache'[k] = grown[j]
    BY <2>2, <2>3
  <2> QED
    BY <2>4, <2>5
<1>4. \A x : Space(x)' = Space(x)
  BY DEF Space
<1>5. ASSUME NEW k \in 1..Len(cache')
      PROVE  /\ cache'[k].at <= version
             /\ cache'[k].at = version /\ bumping = {} /\ ~cache'[k].moved => cache'[k].of = Space(cache'[k].run)
  <2>1. PICK j \in 1..Len(grown) : cache'[k] = grown[j]
    BY <1>3
  <2> QED
    BY <1>2, <2>1 DEF Good
<1> QED
  BY <1>3, <1>4, <1>5 DEF Versioned, BlockFresh

LEMMA KnowStart == KnowledgeAssumption /\ KnowInit => Chosen
<1> SUFFICES ASSUME KnowledgeAssumption, KnowInit PROVE Chosen
  OBVIOUS
<1>1. cache \in Seq(Block) /\ Len(cache) = 0
  BY DEF KnowInit
<1>2. NoItem \in Item /\ Idle \in Asked /\ Idle.run = None
  BY DEF NoItem, Item, Idle, Asked
<1>3. KnowTypeOK
  BY <1>1, <1>2 DEF KnowInit, KnowTypeOK, KnowledgeAssumption
<1> QED
  BY <1>1, <1>2, <1>3 DEF Chosen, Versioned, Ranked, BlockFresh, KnowInit

\* Who changes neither the rows, the version nor the cache.
LEMMA KnowElsewhere ==
  ASSUME Chosen, KnowTypeOK', UNCHANGED <<cache, version, bumping, rank>>,
         \A r : Space(r)' = Space(r)
  PROVE  Chosen'
BY DEF Chosen, Versioned, Ranked, BlockFresh

LEMMA ChosenDraft ==
  ASSUME KnowledgeAssumption, Chosen,
         NEW i \in Items, NEW u \in Users, NEW r \in Runs \cup {None}, NEW s \in {"draft", "rejected"},
         Draft(i, u, r, s)
  PROVE  Chosen'
<1> DEFINE new == [NoItem EXCEPT !.status = s, !.owner = u, !.run = r]
<1>1. new \in Item /\ new.status = s
  BY DEF NoItem, Item
<1>2. item \in [Items -> Item] /\ card \in [Items -> {"none", "open", "approved", "denied"}]
  BY DEF Chosen, KnowTypeOK
<1>3. item' = [item EXCEPT ![i] = new] /\ item[i].status = "none"
  BY DEF Draft
<1> HIDE DEF new
<1>4. KnowTypeOK'
  BY <1>1, <1>2, <1>3 DEF Draft, Chosen, KnowTypeOK
<1>5. \A j \in Items : item'[j].status = "approved" \/ item[j].status = "approved" => item'[j] = item[j]
  BY <1>1, <1>2, <1>3
<1>6. \A x : Space(x)' = Space(x)
  BY <1>5 DEF Space
<1> QED
  BY <1>4, <1>6, KnowElsewhere DEF Draft

LEMMA ChosenDecide ==
  ASSUME KnowledgeAssumption, Chosen, NEW i \in Items, NEW new \in Item,
         NEW word \in {"approved", "denied"}, Decide(i, new, word)
  PROVE  Chosen'
<1>1. /\ item \in [Items -> Item] /\ rank \in [Askers -> Asked] /\ bumping \subseteq Items
      /\ card \in [Items -> {"none", "open", "approved", "denied"}]
  BY DEF Chosen, KnowTypeOK
<1>2. rank' \in [Askers -> Asked] /\ \A l \in Askers : rank'[l].run # None => rank'[l].moved
  <2>1. ASSUME NEW l \in Askers
        PROVE  /\ [rank[l] EXCEPT !.moved = rank[l].run # None] \in Asked
               /\ [rank[l] EXCEPT !.moved = rank[l].run # None].run = rank[l].run
               /\ [rank[l] EXCEPT !.moved = rank[l].run # None].moved = (rank[l].run # None)
    <3>1. PICK a \in Asked : a = rank[l]
      BY <1>1
    <3> QED
      BY <3>1 DEF Asked
  <2> QED
    BY <2>1 DEF Decide
<1>3. item' \in [Items -> Item] /\ card' \in [Items -> {"none", "open", "approved", "denied"}]
      /\ bumping' \subseteq Items /\ i \in bumping'
  BY <1>1 DEF Decide
<1>4. KnowTypeOK'
  BY <1>2, <1>3 DEF Chosen, KnowTypeOK, Decide
<1> QED
  BY <1>2, <1>3, <1>4 DEF Chosen, Versioned, Ranked, BlockFresh, Decide

LEMMA ChosenBump ==
  ASSUME Chosen, NEW i \in Items, Bump(i)
  PROVE  Chosen'
<1>1. version \in Nat /\ version' = version + 1 /\ cache' = cache /\ rank' = rank /\ item' = item
  BY DEF Bump, Bumped, Chosen, KnowTypeOK
<1>2. \A k \in 1..Len(cache) : cache[k] \in Block /\ cache[k].at \in Nat /\ cache[k].at <= version
  <2>1. cache \in Seq(Block) /\ \A k \in 1..Len(cache) : cache[k].at <= version
    BY DEF Chosen, Versioned, KnowTypeOK
  <2>2. ASSUME NEW k \in 1..Len(cache) PROVE cache[k] \in Block /\ cache[k].at \in Nat
    <3>1. cache[k] \in Block
      BY <2>1
    <3> QED
      BY <3>1 DEF Block
  <2> QED
    BY <2>1, <2>2
<1>3. KnowTypeOK'
  BY <1>1 DEF Chosen, KnowTypeOK, Bump
<1>4. \A x : Space(x)' = Space(x)
  BY <1>1 DEF Space
<1> QED
  BY <1>1, <1>2, <1>3, <1>4 DEF Chosen, Versioned, Ranked, BlockFresh

LEMMA ChosenAsk ==
  ASSUME KnowledgeAssumption, Chosen, NEW l \in Askers, NEW r \in Runs, AskBlock(l, r)
  PROVE  Chosen'
<1>1. KnowTypeOK /\ cache \in Seq(Block) /\ Len(cache) \in Nat /\ rank \in [Askers -> Asked]
  BY DEF Chosen, KnowTypeOK
<1>2. \A x : Space(x)' = Space(x)
  BY DEF AskBlock, Space
<1>3. ASSUME NEW k \in Hits(r), cache' = Append(Others(r), cache[k]), UNCHANGED rank
      PROVE  Chosen'
  <2>1. k \in 1..Len(cache) /\ cache[k] \in Block /\ cache[k].run = r
    BY <1>1, <1>3 DEF Hits, Slot
  <2>2. Good(cache[k])
    BY <1>1, <2>1, CacheGood DEF Chosen
  <2>3. cache' = SubSeq(Append(Others(r), cache[k]), 1, Len(Append(Others(r), cache[k])))
    BY <1>1, <1>3, <2>1, OthersKept
  <2>4. cache' \in Seq(Block) /\ (Versioned /\ BlockFresh)'
    BY <1>1, <2>1, <2>2, <2>3, GrownGood DEF Chosen, AskBlock
  <2>5. Len(cache') <= MaxBlocks
    <3>1. Slot(r) # {}
      BY <1>3 DEF Hits
    <3>2. /\ Others(r) \in Seq(Block) /\ Len(Others(r)) \in Nat /\ Len(Others(r)) < Len(cache)
          /\ Len(cache) <= MaxBlocks /\ MaxBlocks \in Nat
      BY <1>1, <3>1, OthersKept DEF KnowTypeOK, KnowledgeAssumption
    <3>3. Len(cache') = Len(Others(r)) + 1
      BY <1>3, <2>1, <3>2
    <3> QED
      BY <1>1, <3>2, <3>3
  <2> QED
    BY <1>2, <1>3, <2>4, <2>5 DEF Chosen, KnowTypeOK, Ranked, AskBlock
<1>4. CASE /\ rank' = [rank EXCEPT ![l] = [run |-> r, of |-> Space(r), moved |-> FALSE]]
           /\ UNCHANGED cache
  <2> DEFINE new == [run |-> r, of |-> Space(r), moved |-> FALSE]
  <2>1. new \in Asked /\ new.run = r /\ new.of = Space(r)
    BY SpaceTyped DEF Asked
  <2>2. rank' = [rank EXCEPT ![l] = new]
    BY <1>4
  <2> HIDE DEF new
  <2>3. rank' \in [Askers -> Asked] /\ rank'[l] = new /\ \A m \in Askers : m # l => rank'[m] = rank[m]
    BY <1>1, <2>1, <2>2
  <2>4. Ranked'
    BY <1>2, <2>1, <2>3 DEF Chosen, Ranked
  <2> QED
    BY <1>2, <1>4, <2>3, <2>4 DEF Chosen, KnowTypeOK, Versioned, BlockFresh, AskBlock
<1> QED
  BY <1>3, <1>4 DEF AskBlock

LEMMA ChosenCache ==
  ASSUME KnowledgeAssumption, Chosen, NEW l \in Askers, CacheBlock(l)
  PROVE  Chosen'
<1>1. /\ KnowTypeOK /\ cache \in Seq(Block) /\ Len(cache) \in Nat /\ Len(cache) <= MaxBlocks
      /\ rank \in [Askers -> Asked] /\ version \in Nat /\ MaxBlocks \in Nat \ {0}
  BY DEF Chosen, KnowTypeOK, KnowledgeAssumption
<1> DEFINE r == rank[l].run
           b == [run |-> r, of |-> rank[l].of, at |-> version, moved |-> rank[l].moved]
           from == IF Len(Append(Others(r), b)) > MaxBlocks THEN 2 ELSE 1
<1>2. r # None /\ rank[l] \in Asked
  BY <1>1 DEF CacheBlock
<1>3. b \in Block /\ b.at = version /\ b.run = r /\ b.of = rank[l].of /\ b.moved = rank[l].moved
  BY <1>1, <1>2 DEF Block, Asked
<1>4. Good(b)
  BY <1>1, <1>2, <1>3 DEF Good, Chosen, Ranked
<1>5. /\ cache' = SubSeq(Append(Others(r), b), from, Len(Append(Others(r), b)))
      /\ UNCHANGED <<item, card, cardOnly, version, bumping>>
      /\ rank' = [rank EXCEPT ![l] = Idle]
  BY DEF CacheBlock
<1> HIDE DEF b
<1>6. from \in {1, 2}
  OBVIOUS
<1>7. Others(r) \in Seq(Block) /\ Len(Others(r)) <= Len(cache) /\ Len(Others(r)) \in Nat
  BY <1>1, OthersKept
<1>8. Len(cache') <= MaxBlocks
  BY <1>1, <1>3, <1>5, <1>7
<1> HIDE DEF r, from
<1>9. cache' \in Seq(Block) /\ (Versioned /\ BlockFresh)'
  BY <1>1, <1>3, <1>4, <1>5, <1>6, GrownGood DEF Chosen
<1>10. Idle \in Asked /\ Idle.run = None
  BY DEF Idle, Asked
<1>11. rank' \in [Askers -> Asked] /\ rank'[l] = Idle /\ \A m \in Askers : m # l => rank'[m] = rank[m]
  BY <1>1, <1>5, <1>10
<1>12. \A x : Space(x)' = Space(x)
  BY <1>5 DEF Space
<1>13. Ranked'
  BY <1>10, <1>11, <1>12 DEF Chosen, Ranked
<1> QED
  BY <1>5, <1>8, <1>9, <1>11, <1>13 DEF Chosen, KnowTypeOK

LEMMA ChosenStep == KnowledgeAssumption /\ Chosen /\ [KnowNext]_itemVars => Chosen'
<1> SUFFICES ASSUME KnowledgeAssumption, Chosen, [KnowNext]_itemVars PROVE Chosen'
  OBVIOUS
<1>1. ASSUME NEW i \in Items, \E u \in Users, r \in Runs \cup {None}, s \in {"draft", "rejected"} : Draft(i, u, r, s)
      PROVE  Chosen'
  BY <1>1, ChosenDraft
<1>2. ASSUME NEW i \in Items, NEW scope \in {"global", "repo", "user"}, NEW p \in KnownRepos,
             Approve(i, scope, p)
      PROVE  Chosen'
  <2> DEFINE new == [item[i] EXCEPT !.status = "approved", !.scope = scope,
                                    !.repo = IF scope = "repo" THEN p ELSE @]
  <2>1. PICK it \in Item : it = item[i]
    BY DEF Chosen, KnowTypeOK
  <2>2. new \in Item
    BY <2>1 DEF Item
  <2> QED
    BY <1>2, <2>2, ChosenDecide DEF Approve
<1>3. ASSUME NEW i \in Items, RejectItem(i) PROVE Chosen'
  <2>1. PICK it \in Item : it = item[i]
    BY DEF Chosen, KnowTypeOK
  <2>2. [item[i] EXCEPT !.status = "rejected"] \in Item
    BY <2>1 DEF Item
  <2> QED
    BY <1>3, <2>2, ChosenDecide DEF RejectItem
<1>4. ASSUME NEW i \in Items, Bump(i) PROVE Chosen'
  BY <1>4, ChosenBump
<1>5. ASSUME NEW i \in Items, NEW word \in {"approved", "denied"}, DecideCard(i, word) PROVE Chosen'
  <2>1. KnowTypeOK'
    BY <1>5 DEF DecideCard, Chosen, KnowTypeOK
  <2>2. \A x : Space(x)' = Space(x)
    BY <1>5 DEF DecideCard, Space
  <2> QED
    BY <1>5, <2>1, <2>2, KnowElsewhere DEF DecideCard
<1>6. ASSUME NEW l \in Askers, (\E r \in Runs : AskBlock(l, r)) \/ CacheBlock(l) PROVE Chosen'
  BY <1>6, ChosenAsk, ChosenCache
<1>7. CASE UNCHANGED itemVars
  <2>1. KnowTypeOK'
    BY <1>7 DEF itemVars, Chosen, KnowTypeOK
  <2>2. \A x : Space(x)' = Space(x)
    BY <1>7 DEF itemVars, Space
  <2> QED
    BY <1>7, <2>1, <2>2, KnowElsewhere DEF itemVars
<1> QED
  BY <1>1, <1>2, <1>3, <1>4, <1>5, <1>6, <1>7 DEF KnowNext

\* Types, for any items, runs, lanes and size of the cache; the cache stays within its
\* bound (knowledge.py: _BLOCK_CACHE_MAX).
THEOREM KnowTypeCorrect == ASSUME KnowledgeAssumption PROVE KnowSpec => []KnowTypeOK
<1>1. Chosen => KnowTypeOK
  BY DEF Chosen
<1> QED
  BY <1>1, KnowStart, ChosenStep, PTL DEF KnowSpec

\* No block that would be served was chosen from an older corpus, unless a decision
\* fell while it was ranked or has yet to bump the version (knowledge.py:
\* prompt_block_for_run, approve, reject).
THEOREM BlocksFresh == ASSUME KnowledgeAssumption PROVE KnowSpec => []BlockFresh
<1>1. Chosen => BlockFresh
  BY DEF Chosen
<1> QED
  BY <1>1, KnowStart, ChosenStep, PTL DEF KnowSpec

-----------------------------------------------------------------------------
(* The distiller: what it has read is its corpus until the night is over.  *)

\* Once the model has answered, it has been told of all that the night has read,
\* unless that is more than the question holds.
ToldAll == night \in {"draft", "mark"} => Len(read) > Corpus \/ ToSet(read) \subseteq told

Nightly == NightTypeOK /\ (night # "off" => read # <<>>) /\ ToldAll

\* A lesson is laid at one of the runs that were read.
LEMMA SourceRead ==
  ASSUME Nightly, night # "off", upcoming \in Nat \ {0}
  PROVE  read[((upcoming - 1) % Len(read)) + 1] \in ToSet(read)
<1>1. Len(read) \in Nat \ {0} /\ DOMAIN read = 1..Len(read)
  BY DEF Nightly, NightTypeOK
<1>2. (upcoming - 1) % Len(read) \in 0..(Len(read) - 1)
  BY <1>1
<1>3. ((upcoming - 1) % Len(read)) + 1 \in 1..Len(read)
  BY <1>1, <1>2
<1> QED
  BY <1>1, <1>3 DEF ToSet

LEMMA ReadsAll ==
  ASSUME DistillerAssumption, Begins
  PROVE  read' \in Seq(Sources) /\ read' # <<>>
<1>1. Unmined \subseteq Sources /\ Unmined # {} /\ IsFiniteSet(Unmined)
  BY FS_Subset DEF Begins, Unmined, DistillerAssumption
<1>2. Cardinality(Unmined) \in Nat \ {0}
  BY <1>1, FS_CardinalityType, FS_EmptySet
<1>3. read' \in [1..Cardinality(Unmined) -> Unmined]
  BY DEF Begins, SetToSeqs
<1> QED
  BY <1>1, <1>2, <1>3

LEMMA NightTyped ==
  ASSUME DistillerAssumption, Nightly, upcoming # 0, [NightNext]_nightVars
  PROVE  NightTypeOK' /\ (night # "off" => read # <<>>)' /\ upcoming' # 0
<1> USE DEF NightTypeOK, Nightly
<1>1. ASSUME NEW r \in Sources, WriteSummary(r) \/ UserDrafts(r)
      PROVE  NightTypeOK' /\ UNCHANGED <<night, read, upcoming>>
  BY <1>1 DEF WriteSummary, UserDrafts
<1>2. ASSUME NEW verdict \in {"draft", "rejected"}, DraftCandidate(verdict)
      PROVE  NightTypeOK' /\ UNCHANGED <<night, read>> /\ upcoming' # 0
  <2> DEFINE src == read[((upcoming - 1) % Len(read)) + 1]
  <2>1. src \in ToSet(read) /\ src \in Sources
    BY <1>2, SourceRead DEF DraftCandidate, ToSet
  <2>2. /\ rows' = [rows EXCEPT ![verdict] = @ \cup {src}] /\ used' = used \cup {src}
        /\ upcoming' = upcoming + 1
        /\ UNCHANGED <<summary, night, read, told>>
    BY <1>2 DEF DraftCandidate
  <2> HIDE DEF src
  <2> QED
    BY <2>1, <2>2
<1>3. CASE DayPasses
  BY <1>3 DEF DayPasses
<1>4. CASE Begins
  BY <1>4, ReadsAll DEF Begins
<1>5. CASE DistillFails \/ NightCrash \/ UNCHANGED nightVars
  BY <1>5 DEF DistillFails, NightCrash, nightVars
<1>6. CASE Distilled
  BY <1>6 DEF Distilled
<1>7. CASE MarkMined
  BY <1>7 DEF MarkMined, Left, ToSet
<1> QED
  BY <1>1, <1>2, <1>3, <1>4, <1>5, <1>6, <1>7 DEF NightNext

LEMMA ToldStays ==
  ASSUME DistillerAssumption, Nightly, [NightNext]_nightVars
  PROVE  ToldAll'
<1> USE DEF Nightly, ToldAll
<1>1. ASSUME NEW r \in Sources, WriteSummary(r) \/ UserDrafts(r) PROVE ToldAll'
  BY <1>1 DEF WriteSummary, UserDrafts
<1>2. ASSUME NEW verdict \in {"draft", "rejected"}, DraftCandidate(verdict) PROVE ToldAll'
  BY <1>2 DEF DraftCandidate
<1>3. CASE DayPasses \/ Begins \/ DistillFails \/ NightCrash \/ UNCHANGED nightVars
  BY <1>3 DEF DayPasses, Begins, DistillFails, NightCrash, nightVars
<1>4. CASE Distilled
  <2>1. Len(read) \in Nat /\ DOMAIN read = 1..Len(read) /\ Corpus \in Nat
    BY DEF NightTypeOK, DistillerAssumption
  <2>2. ASSUME Len(read) <= Corpus PROVE ToSet(read) \subseteq told'
    BY <1>4, <2>1, <2>2 DEF Distilled, ToSet
  <2> QED
    BY <1>4, <2>1, <2>2 DEF Distilled
<1>5. CASE MarkMined
  BY <1>5 DEF MarkMined
<1> QED
  BY <1>1, <1>2, <1>3, <1>4, <1>5 DEF NightNext

\* Only mark_mined writes markers, and of runs the night has read.
LEMMA Marks ==
  ASSUME Nightly, NightNext, NEW r \in rows'.marker \ rows.marker
  PROVE  night \in {"draft", "mark"} /\ r \in ToSet(read)
<1> USE DEF Nightly, NightTypeOK
<1>1. ASSUME NEW s \in Sources, WriteSummary(s) \/ UserDrafts(s) PROVE FALSE
  BY <1>1 DEF WriteSummary, UserDrafts
<1>2. ASSUME NEW verdict \in {"draft", "rejected"}, DraftCandidate(verdict) PROVE FALSE
  <2>1. PICK src : rows' = [rows EXCEPT ![verdict] = @ \cup {src}]
    BY <1>2 DEF DraftCandidate
  <2> QED
    BY <2>1
<1>3. CASE DayPasses \/ Begins \/ DistillFails \/ Distilled \/ NightCrash
  BY <1>3 DEF DayPasses, Begins, DistillFails, Distilled, NightCrash
<1>4. CASE MarkMined
  <2>1. PICK s \in Left : rows' = [rows EXCEPT !.marker = @ \cup {s}]
    BY <1>4 DEF MarkMined
  <2>2. r = s
    BY <2>1
  <2> QED
    BY <1>4, <2>1, <2>2 DEF MarkMined, Left
<1> QED
  BY <1>1, <1>2, <1>3, <1>4 DEF NightNext

\* A night's state is well typed, and what it holds for told was told, for any runs,
\* question and number of nights and crashes.
THEOREM Nights == ASSUME DistillerAssumption PROVE NightSpec => [](Nightly /\ upcoming # 0)
<1>1. NightInit => Nightly /\ upcoming # 0
  BY DEF NightInit, Nightly, NightTypeOK, ToldAll, ToSet
<1>2. (Nightly /\ upcoming # 0) /\ [NightNext]_nightVars => (Nightly /\ upcoming # 0)'
  BY NightTyped, ToldStays DEF Nightly
<1> QED
  BY <1>1, <1>2, PTL DEF NightSpec

\* A run is marked only after the model has been shown its summary, unless the night
\* has read more than one question holds (distiller.py: run_nightly, mark_mined).
THEOREM MarkedTold == ASSUME DistillerAssumption PROVE NightSpec => MarkedWasTold
<1>1. Nightly /\ [NightNext]_nightVars =>
        [\A r \in rows'.marker \ rows.marker : r \in told \/ Len(read) > Corpus]_nightVars
  BY Marks DEF Nightly, ToldAll
<1>2. Nightly /\ upcoming # 0 => Nightly
  OBVIOUS
<1> QED
  BY <1>1, <1>2, Nights, PTL DEF NightSpec, MarkedWasTold

=============================================================================
