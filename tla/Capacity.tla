------------------------------ MODULE Capacity ------------------------------
(***************************************************************************)
(* The slots of the fleet: the global cap on lanes and the one writer of a *)
(* repository (orchestrator/semaphores.py), taken by a spawn between its   *)
(* check and its thread row (orchestrator/thread_manager.py), by several   *)
(* replicas of the backend on one database.                                *)
(*                                                                         *)
(* Inside a process nothing yields between try_acquire and the commit of   *)
(* the reservation, so a process has one spawn between its count and its   *)
(* row at a time, and reads its own in-memory reservations as empty; they  *)
(* are not modelled.  Between two processes every statement interleaves.   *)
(***************************************************************************)
EXTENDS Naturals, FiniteSets

CONSTANTS
  Replicas,     \* backend processes
  Lanes,        \* calls of spawn
  Repos,
  RepoOf,       \* each lane: the repository it writes, or NoRepo
  NoRepo, NoLane, NoReplica,
  Cap           \* global_thread_cap

ASSUME CapacityAssumption ==
  /\ IsFiniteSet(Replicas) /\ IsFiniteSet(Lanes)
  /\ NoRepo \notin Repos /\ NoLane \notin Lanes /\ NoReplica \notin Replicas
  /\ RepoOf \in [Lanes -> Repos \cup {NoRepo}]
  /\ Cap \in Nat

VARIABLES
  flag,         \* feature_db_concurrency
  spawnPc,           \* each replica: where its spawn is between count and commit
  lane,         \* the lane it works for
  active,       \* the count of lanes it has read
  tokens, old,  \* reservations, those past their TTL
  row,          \* the rows of threads
  by,           \* the replica that has yet to stamp the lane "running"
  reopened,     \* lanes stamped "running" after something had closed them
  lost          \* lanes whose reservation a crash or a failed call left behind

capVars == <<flag, spawnPc, lane, active, tokens, old, row, by, reopened, lost>>

SpawnPcs == {"idle", "counted", "checked", "held", "reserved", "inserted", "clash",
        "done", "refused"}

CapTypeOK ==
  /\ flag \in BOOLEAN
  /\ spawnPc \in [Replicas -> SpawnPcs]
  /\ lane \in [Replicas -> Lanes \cup {NoLane}]
  /\ active \in [Replicas -> Nat]
  /\ tokens \subseteq Lanes /\ old \subseteq tokens
  /\ row \in [Lanes -> {"none", "open", "closed"}]
  /\ by \in [Lanes -> Replicas \cup {NoReplica}]
  /\ reopened \subseteq Lanes /\ lost \subseteq Lanes

CapInit ==
  /\ flag \in BOOLEAN
  /\ spawnPc = [r \in Replicas |-> "idle"] /\ lane = [r \in Replicas |-> NoLane]
  /\ active = [r \in Replicas |-> 0]
  /\ tokens = {} /\ old = {}
  /\ row = [l \in Lanes |-> "none"] /\ by = [l \in Lanes |-> NoReplica]
  /\ reopened = {} /\ lost = {}

Open == {l \in Lanes : row[l] = "open"}

\* Lanes, other than l, that write the repository of l.
Rivals(l) == {m \in Lanes \ {l} : RepoOf[l] # NoRepo /\ RepoOf[m] = RepoOf[l]}

Goes(r, to) == spawnPc' = [spawnPc EXCEPT ![r] = to]

-----------------------------------------------------------------------------
(* try_acquire.                                                            *)

\* Mutant: the count is compared with the cap itself.
CountMutant(r, l) ==
  /\ spawnPc[r] = "idle" /\ row[l] = "none" /\ \A q \in Replicas : lane[q] # l
  /\ Goes(r, IF Cardinality(Open) <= Cap THEN "counted" ELSE "refused")
  /\ lane' = [lane EXCEPT ![r] = l]
  /\ active' = [active EXCEPT ![r] = Cardinality(Open)]
  /\ UNCHANGED <<flag, tokens, old, row, by, reopened, lost>>

\* The count of the lanes that hold a slot.
Count(r, l) ==
  /\ spawnPc[r] = "idle" /\ row[l] = "none" /\ \A q \in Replicas : lane[q] # l
  /\ Goes(r, IF Cardinality(Open) < Cap THEN "counted" ELSE "refused")
  /\ lane' = [lane EXCEPT ![r] = l]
  /\ active' = [active EXCEPT ![r] = Cardinality(Open)]
  /\ UNCHANGED <<flag, tokens, old, row, by, reopened, lost>>

\* A lane that already writes the repository.
Check(r) ==
  /\ spawnPc[r] = "counted"
  /\ LET busy == Open \cap Rivals(lane[r]) # {}
     IN Goes(r, CASE busy -> "refused"
                  [] ~busy /\ flag -> "checked"
                  [] OTHER -> "reserved")
  /\ UNCHANGED <<flag, lane, active, tokens, old, row, by, reopened, lost>>

\* _db_reserve: the reservations that are not stale, and the count of before.
Hold(r) ==
  /\ spawnPc[r] = "checked"
  /\ LET kept == tokens \ old IN
     Goes(r, IF active[r] + Cardinality(kept) < Cap /\ kept \cap Rivals(lane[r]) = {}
             THEN "held" ELSE "refused")
  /\ UNCHANGED <<flag, lane, active, tokens, old, row, by, reopened, lost>>

\* Its commit, or the collision with uq_reservation_repo, which takes the
\* sweep of the stale ones back as well.
Reserve(r) ==
  /\ spawnPc[r] = "held"
  /\ IF (tokens \ old) \cap Rivals(lane[r]) = {}
     THEN /\ tokens' = (tokens \ old) \cup {lane[r]} /\ old' = {}
          /\ Goes(r, "reserved")
     ELSE Goes(r, "refused") /\ UNCHANGED <<tokens, old>>
  /\ UNCHANGED <<flag, lane, active, row, by, reopened, lost>>

-----------------------------------------------------------------------------
(* spawn.                                                                  *)

\* Mutant: the table has no unique index on the repository of open lanes.
InsertRowMutant(r) ==
  /\ spawnPc[r] = "reserved"
  /\ row' = [row EXCEPT ![lane[r]] = "open"]
  /\ by' = [by EXCEPT ![lane[r]] = r]
  /\ Goes(r, "inserted")
  /\ UNCHANGED <<flag, lane, active, tokens, old, reopened, lost>>

\* The thread row, which uq_threads_writable_repo_active may refuse.
InsertRow(r) ==
  /\ spawnPc[r] = "reserved"
  /\ IF Open \cap Rivals(lane[r]) = {}
     THEN /\ row' = [row EXCEPT ![lane[r]] = "open"]
          /\ by' = [by EXCEPT ![lane[r]] = r]
          /\ Goes(r, "inserted")
     ELSE Goes(r, "clash") /\ UNCHANGED <<row, by>>
  /\ UNCHANGED <<flag, lane, active, tokens, old, reopened, lost>>

\* commit_reservation, which is release as well.
Release(r) ==
  /\ spawnPc[r] \in {"inserted", "clash"}
  /\ Goes(r, IF spawnPc[r] = "inserted" THEN "done" ELSE "refused")
  /\ tokens' = tokens \ {lane[r]} /\ old' = old \ {lane[r]}
  /\ UNCHANGED <<flag, lane, active, row, by, reopened, lost>>

\* _db_release raises: the reservation stays, and so does a row nobody starts.
ReleaseFails(r) ==
  /\ flag /\ spawnPc[r] \in {"inserted", "clash"}
  /\ Goes(r, "refused")
  /\ by' = [by EXCEPT ![lane[r]] = NoReplica]
  /\ lost' = lost \cup {lane[r]}
  /\ UNCHANGED <<flag, lane, active, tokens, old, row, reopened>>

\* The caller has the outcome.
Return(r) ==
  /\ spawnPc[r] \in {"done", "refused"}
  /\ Goes(r, "idle") /\ lane' = [lane EXCEPT ![r] = NoLane]
  /\ UNCHANGED <<flag, active, tokens, old, row, by, reopened, lost>>

\* The container runs: status = "running", whatever the row says by then,
\* unless the repository has another writer by then.
Stamp(l) ==
  /\ by[l] # NoReplica /\ \A r \in Replicas : lane[r] # l
  /\ by' = [by EXCEPT ![l] = NoReplica]
  /\ IF row[l] = "closed" /\ Open \cap Rivals(l) = {}
     THEN row' = [row EXCEPT ![l] = "open"] /\ reopened' = reopened \cup {l}
     ELSE UNCHANGED <<row, reopened>>
  /\ UNCHANGED <<flag, spawnPc, lane, active, tokens, old, lost>>

\* The key, the images or the container failed: _mark(failed).
Fail(l) ==
  /\ by[l] # NoReplica /\ \A r \in Replicas : lane[r] # l
  /\ by' = [by EXCEPT ![l] = NoReplica]
  /\ row' = [row EXCEPT ![l] = "closed"]
  /\ UNCHANGED <<flag, spawnPc, lane, active, tokens, old, reopened, lost>>

-----------------------------------------------------------------------------
(* What the other components, time and the machine do.                     *)

\* Whatever closes lanes: they ended, failed, were stopped or replaced.
Close(L) ==
  /\ L # {} /\ L \subseteq Open
  /\ row' = [l \in Lanes |-> IF l \in L THEN "closed" ELSE row[l]]
  /\ UNCHANGED <<flag, spawnPc, lane, active, tokens, old, by, reopened, lost>>

Age(l) ==
  /\ l \in tokens \ old
  /\ old' = old \cup {l}
  /\ UNCHANGED <<flag, spawnPc, lane, active, tokens, row, by, reopened, lost>>

\* The process is gone; its reservation and its rows are not.
ReplicaCrash(r) ==
  /\ Goes(r, "idle") /\ lane' = [lane EXCEPT ![r] = NoLane]
  /\ lost' = lost \cup ({lane[r]} \ {NoLane})
  /\ by' = [l \in Lanes |-> IF by[l] = r THEN NoReplica ELSE by[l]]
  /\ UNCHANGED <<flag, active, tokens, old, row, reopened>>

CapNext ==
  \/ \E r \in Replicas :
       \/ \E l \in Lanes : Count(r, l)
       \/ Check(r) \/ Hold(r) \/ Reserve(r)
       \/ InsertRow(r) \/ Release(r) \/ ReleaseFails(r) \/ Return(r) \/ ReplicaCrash(r)
  \/ \E l \in Lanes : Stamp(l) \/ Fail(l) \/ Age(l)
  \/ \E L \in SUBSET Open : Close(L)

CapSpec == CapInit /\ [][CapNext]_capVars

-----------------------------------------------------------------------------
(* Properties.                                                             *)

\* Spawns that passed the cap and have no row yet.
Passed == {r \in Replicas : spawnPc[r] \in {"counted", "checked", "held", "reserved"}}

\* A repository has one writer, whatever the replicas read before they wrote
\* and whatever a late "running" reopens (thread.py:65).
OneWriter == \A l \in Open : Open \cap Rivals(l) = {}

\* The cap is exceeded by at most one lane for each other replica, and by the
\* lanes that a late "running" reopened (semaphores.py:64, thread_manager.py:247).
CapBound ==
  Cardinality(Open) + Cardinality(Passed)
    <= (IF Cap = 0 THEN 0 ELSE Cap - 1 + Cardinality(Replicas)) + Cardinality(reopened)

\* A reservation is dropped by the spawn that made it, whatever becomes of that
\* spawn, unless the process ended or the deletion failed (semaphores.py:137).
ReservationsDropped ==
  \A l \in tokens \ lost :
    \E r \in Replicas : lane[r] = l /\ spawnPc[r] \in {"reserved", "inserted", "clash"}

\* What the reservation rows are documented to give: two backends cannot both
\* pass the check of the cap (reservation.py:5).
CapHeld == flag /\ reopened = {} => Cardinality(Open) <= Cap
=============================================================================
