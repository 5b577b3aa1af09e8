------------------------------- MODULE Golden -------------------------------
(* One repository of the registry and its golden clone: registration and onboarding
   (api/repos.py, services/repos.py), the archive, the fetch loop (sandbox/fetcher.py)
   and the seeding of its guidebook (services/guidebooks.py).  Onboardings are
   coroutines of the backend, fetch and archive run in threads of it, the seeder is a
   process of its own.  Branch names, what ls-remote lists, the profile row and the
   notice to consoles are left out; a guidebook's text does not change. *)
EXTENDS Naturals

CONSTANTS
  MaxAdds,      \* registrations that are accepted
  MaxArchives,
  MaxFaults,    \* git, network or database calls that fail
  MaxCrashes    \* of the backend

GoldenAssumption == {MaxAdds, MaxArchives, MaxFaults, MaxCrashes} \subseteq Nat

VARIABLES
  status,       \* of the row
  dir,          \* the golden directory: "none", "partial" while git clones, "clone"
  head,         \* the branch that is checked out there
  book,         \* AGENTS.md there: "none", "loose" or "committed"
  branch,       \* the clone has the seeder's branch
  job,          \* the onboardings, by registration
  lock,         \* _ONBOARD_LOCKS of the name: who holds it, 0 is nobody
  fetch,        \* the fetch loop: where it is and the status it read
  seed,         \* the seeder: where it is
  pull,         \* a pull request for the guidebook was opened
  shreds,       \* archives whose rmtree is still to come
  dropped,      \* since the last registration an onboarding ended without its row (history)
  archives, faults, crashes

rowVars == <<status, archives>>
treeVars == <<dir, head, book, branch>>
vars == <<rowVars, treeVars, job, lock, fetch, seed, pull, shreds, dropped, faults, crashes>>

Jobs == 1..MaxAdds
Onboarding == {"registered", "validating", "cloning", "indexing"}
Usable == {"ready", "ready-no-map"}
Status == Onboarding \union Usable \union {"none", "error", "archived"}
JobState == {"idle", "waiting", "validating", "cloning", "configuring", "indexing", "done"}
SeedState == {"idle", "read", "written", "branched", "committed", "pushed"}

TypeOK ==
  /\ status \in Status
  /\ dir \in {"none", "partial", "clone"}
  /\ head \in {"default", "integration", "seed"}
  /\ book \in {"none", "loose", "committed"} /\ branch \in BOOLEAN
  /\ job \in [Jobs -> JobState]
  /\ lock \in Jobs \union {0}
  /\ fetch \in [at : {"idle", "read", "fetched", "failed"}, read : Status]
  /\ seed \in SeedState
  /\ pull \in BOOLEAN /\ dropped \in BOOLEAN
  /\ shreds \in 0..MaxArchives /\ archives \in 0..MaxArchives
  /\ faults \in 0..MaxFaults /\ crashes \in 0..MaxCrashes

Init ==
  /\ status = "none" /\ dir = "none" /\ head = "default" /\ book = "none" /\ branch = FALSE
  /\ job = [j \in Jobs |-> "idle"] /\ lock = 0
  /\ fetch = [at |-> "idle", read |-> "none"] /\ seed = "idle"
  /\ pull = FALSE /\ shreds = 0 /\ dropped = FALSE /\ archives = 0 /\ faults = 0 /\ crashes = 0

Fault == faults < MaxFaults /\ faults' = faults + 1
-----------------------------------------------------------------------------
(* Registration and onboarding. *)

\* Another row of the name is refused, an archived one is revived.
Registrable == status \in {"none", "archived"}

\* The route registers and starts the onboarding without an await between.
Add(j) ==
  /\ job[j] = "idle" /\ Registrable
  /\ \A i \in 1..(j - 1) : job[i] # "idle"
  /\ status' = "registered"
  /\ job' = [job EXCEPT ![j] = "waiting"]
  /\ dropped' = FALSE
  /\ UNCHANGED <<archives, treeVars, lock, fetch, seed, pull, shreds, faults, crashes>>

\* The lock of the name: one onboarding at a time.
Begin(j) ==
  /\ job[j] = "waiting" /\ lock = 0
  /\ lock' = j
  /\ status' = "validating"
  /\ job' = [job EXCEPT ![j] = "validating"]
  /\ UNCHANGED <<archives, treeVars, fetch, seed, pull, shreds, dropped, faults, crashes>>

\* git clone makes the directory first; one that is there already is taken as it is.
Validated(j) ==
  /\ job[j] = "validating"
  /\ status' = "cloning"
  /\ IF dir = "none"
       THEN /\ dir' = "partial" /\ job' = [job EXCEPT ![j] = "cloning"]
       ELSE /\ dir' = dir /\ job' = [job EXCEPT ![j] = "configuring"]
  /\ UNCHANGED <<archives, head, book, branch, lock, fetch, seed, pull, shreds, dropped, faults, crashes>>

Cloned(j) ==
  /\ job[j] = "cloning" /\ dir = "partial"
  /\ dir' = "clone" /\ head' = "default" /\ book' = "none" /\ branch' = FALSE
  /\ job' = [job EXCEPT ![j] = "configuring"]
  /\ UNCHANGED <<rowVars, lock, fetch, seed, pull, shreds, dropped, faults, crashes>>

\* What git config and checkout answer is not looked at.
Configured(j) ==
  /\ job[j] = "configuring"
  /\ status' = "indexing"
  /\ job' = [job EXCEPT ![j] = "indexing"]
  /\ IF dir = "clone"
       THEN /\ head' = "integration" /\ book' = IF book = "committed" THEN "none" ELSE book
       ELSE UNCHANGED <<head, book>>
  /\ UNCHANGED <<archives, dir, branch, lock, fetch, seed, pull, shreds, dropped, faults, crashes>>

Leaves(j) ==
  /\ job' = [job EXCEPT ![j] = "done"]
  /\ lock' = 0

Landed(j) ==
  /\ job[j] = "indexing"
  /\ status' = "ready-no-map"
  /\ Leaves(j)
  /\ UNCHANGED <<archives, treeVars, fetch, seed, pull, shreds, dropped, faults, crashes>>

\* Under the lock every step is within the try: the row's own writes, ls-remote and the
\* branch it does not list, and git clone, which takes away what it made.
Raises(j) ==
  /\ \/ job[j] \in {"validating", "cloning", "configuring", "indexing"}
     \/ job[j] = "waiting" /\ lock = 0
  /\ dir' = IF job[j] = "cloning" THEN "none" ELSE dir
  /\ Leaves(j)
  /\ UNCHANGED <<archives, head, book, branch, fetch, seed, pull, shreds, crashes>>

\* A clone whose directory was shredded under it fails without a fault of its own.
RaiseCause(j) == Fault \/ (job[j] = "cloning" /\ dir # "partial" /\ UNCHANGED faults)

\* A bug: the handler forgets to write the row.
OnboardFailsMutant(j) ==
  Raises(j) /\ RaiseCause(j) /\ UNCHANGED <<status, dropped>>

OnboardFails(j) ==
  /\ Raises(j) /\ RaiseCause(j)
  /\ status' = "error"
  /\ UNCHANGED dropped

\* The handler's own write raises too: a database that stays away is one fault.
HandlerFails(j) ==
  /\ Raises(j) /\ Fault
  /\ dropped' = TRUE
  /\ UNCHANGED status

\* The first read of the row raises, outside every handler.
ReadFails(j) ==
  /\ job[j] = "waiting" /\ Fault
  /\ job' = [job EXCEPT ![j] = "done"]
  /\ dropped' = TRUE
  /\ UNCHANGED <<rowVars, treeVars, lock, fetch, seed, pull, shreds, crashes>>

\* The row first, the directory afterwards.
Archive ==
  /\ archives < MaxArchives /\ status # "none"
  /\ status' = "archived" /\ archives' = archives + 1
  /\ shreds' = shreds + 1
  /\ UNCHANGED <<treeVars, job, lock, fetch, seed, pull, dropped, faults, crashes>>

Shred ==
  /\ shreds > 0 /\ shreds' = shreds - 1
  /\ dir' = "none" /\ head' = "default" /\ book' = "none" /\ branch' = FALSE
  /\ UNCHANGED <<rowVars, job, lock, fetch, seed, pull, dropped, faults, crashes>>
-----------------------------------------------------------------------------
(* The fetch loop: rows are read once and written after the last fetch. *)

FetchReads ==
  /\ fetch.at = "idle" /\ status \notin {"none", "archived"}
  /\ fetch' = [at |-> "read", read |-> status]
  /\ UNCHANGED <<rowVars, treeVars, job, lock, seed, pull, shreds, dropped, faults, crashes>>

\* The checkout of the integration branch keeps a file git does not know.
Fetched ==
  /\ fetch.at = "read" /\ dir = "clone"
  /\ head' = "integration"
  /\ book' = IF book = "committed" THEN "none" ELSE book
  /\ fetch' = [fetch EXCEPT !.at = "fetched"]
  /\ UNCHANGED <<rowVars, dir, branch, job, lock, seed, pull, shreds, dropped, faults, crashes>>

FetchFails ==
  /\ fetch.at = "read"
  /\ \/ dir = "clone" /\ Fault
     \/ dir # "clone" /\ UNCHANGED faults
  /\ fetch' = [fetch EXCEPT !.at = "failed"]
  /\ UNCHANGED <<rowVars, treeVars, job, lock, seed, pull, shreds, dropped, crashes>>

\* The session writes the columns it changed: a status it read as "error".
FetchCommits ==
  /\ fetch.at \in {"fetched", "failed"}
  /\ status' = IF fetch.at = "fetched" /\ fetch.read = "error" THEN "ready" ELSE status
  /\ fetch' = [at |-> "idle", read |-> "none"]
  /\ UNCHANGED <<archives, treeVars, job, lock, seed, pull, shreds, dropped, faults, crashes>>
-----------------------------------------------------------------------------
(* The seeder. *)

SeedKeeps == UNCHANGED <<rowVars, dir, job, lock, fetch, shreds, dropped, crashes>>

SeedReads ==
  /\ seed = "idle" /\ status \in Usable
  /\ seed' = "read"
  /\ UNCHANGED <<branch, head, book, pull, faults>> /\ SeedKeeps

\* A file with the text it would write is reported as "unchanged".
SeedSkips ==
  /\ seed = "read" /\ book # "none"
  /\ seed' = "idle"
  /\ UNCHANGED <<branch, head, book, pull, faults>> /\ SeedKeeps

\* The file is written before git is asked anything.
SeedWrites ==
  /\ seed = "read" /\ book = "none" /\ dir # "none"
  /\ seed' = "written" /\ book' = "loose"
  /\ UNCHANGED <<branch, head, pull, faults>> /\ SeedKeeps

SeedBranches ==
  /\ seed = "written" /\ dir = "clone"
  /\ seed' = "branched" /\ head' = "seed" /\ branch' = TRUE
  /\ UNCHANGED <<book, pull, faults>> /\ SeedKeeps

\* Commits what it added to whatever branch is checked out by now.
SeedCommits ==
  /\ seed = "branched" /\ dir = "clone" /\ book = "loose"
  /\ seed' = "committed" /\ book' = "committed"
  /\ UNCHANGED <<branch, head, pull, faults>> /\ SeedKeeps

SeedPushes ==
  /\ seed = "committed" /\ dir = "clone" /\ branch
  /\ seed' = "pushed"
  /\ UNCHANGED <<branch, head, book, pull, faults>> /\ SeedKeeps

SeedOpensPull ==
  /\ seed = "pushed"
  /\ seed' = "idle" /\ pull' = TRUE
  /\ UNCHANGED <<branch, head, book, faults>> /\ SeedKeeps

\* The directory, the new file or the branch was shredded under it.
SeedCannot ==
  \/ seed = "read" /\ dir = "none"
  \/ seed \in {"written", "branched", "committed"} /\ dir # "clone"
  \/ seed = "branched" /\ book # "loose"
  \/ seed = "committed" /\ ~branch

\* Any failure ends the seeding of this repository with a report; nothing is undone.
SeedFails ==
  /\ seed # "idle"
  /\ \/ Fault
     \/ SeedCannot /\ UNCHANGED faults
  /\ seed' = "idle"
  /\ UNCHANGED <<branch, head, book, pull>> /\ SeedKeeps
-----------------------------------------------------------------------------
\* Nothing looks for rows that were being onboarded when the backend starts again.
Crash ==
  /\ crashes < MaxCrashes /\ crashes' = crashes + 1
  /\ job' = [j \in Jobs |-> IF job[j] = "idle" THEN "idle" ELSE "done"]
  /\ lock' = 0 /\ shreds' = 0
  /\ fetch' = [at |-> "idle", read |-> "none"]
  /\ UNCHANGED <<rowVars, treeVars, seed, pull, dropped, faults>>

JobStep(j) ==
  Begin(j) \/ Validated(j) \/ Cloned(j) \/ Configured(j) \/ Landed(j) \/ OnboardFails(j)
    \/ HandlerFails(j) \/ ReadFails(j)
FetchStep == FetchReads \/ Fetched \/ FetchFails \/ FetchCommits
SeedStep ==
  SeedReads \/ SeedSkips \/ SeedWrites \/ SeedBranches \/ SeedCommits \/ SeedPushes
    \/ SeedOpensPull \/ SeedFails

Next ==
  \/ \E j \in Jobs : Add(j) \/ JobStep(j)
  \/ Archive \/ Shred \/ FetchStep \/ SeedStep \/ Crash

\* An onboarding that is not stuck in a call goes on.
Spec == Init /\ [][Next]_vars /\ \A j \in Jobs : WF_vars(JobStep(j))

(* A repository that is registered comes to rest, usable, archived or with an error to
   show, however its clone, an archive and a second registration meet and whatever call
   fails under the lock (repos.py:159-216).  A row may stay at work for ever only after a
   crash of the backend, or when since its last registration an onboarding could not read
   the row at first (repos.py:150-157) or the handler could not write it (repos.py:214). *)
OnboardingSettles ==
  (status \in Onboarding) ~> (status \notin Onboarding \/ crashes > 0 \/ dropped)
=============================================================================
