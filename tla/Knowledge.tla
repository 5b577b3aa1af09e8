----------------------------- MODULE Knowledge -----------------------------
(***************************************************************************)
(* The knowledge flywheel: drafts that a human approves or rejects, and    *)
(* the cards that ask (services/knowledge.py); the blocks of approved      *)
(* items that each run's lanes are given, cached and invalidated by a      *)
(* version.                                                                *)
(*                                                                         *)
(* Decisions are synchronous endpoints and run on threads of their own;    *)
(* lanes share the event loop.                                             *)
(***************************************************************************)
EXTENDS Naturals, Sequences, FiniteSets, SequencesExt

CONSTANTS
  Items,         \* knowledge rows
  Runs, None,
  OwnerOf,       \* each run: its user
  RepoOfRun,     \* each run: its repository
  Askers,        \* spawns that ask for their run's block
  MaxBlocks      \* _BLOCK_CACHE_MAX

Users == {OwnerOf[r] : r \in Runs}
KnownRepos == {RepoOfRun[r] : r \in Runs}

KnowledgeAssumption ==
  /\ None \notin Runs /\ MaxBlocks \in Nat \ {0}
  /\ DOMAIN OwnerOf = Runs /\ DOMAIN RepoOfRun = Runs

VARIABLES
  item,      \* the rows
  card,      \* each item: its approval card
  cardOnly,  \* items whose card was decided as a card, not as an item
  cache,     \* the blocks, least recently used first, and the version of each
  version,
  bumping,   \* decisions that are committed and have not bumped the version
  rank       \* each lane: the search space it has sent to be ranked, for its run

itemVars == <<item, card, cardOnly, cache, version, bumping, rank>>

Item == [status : {"none", "draft", "approved", "rejected"}, scope : {"global", "repo", "user"},
         owner : Users \cup {None}, repo : KnownRepos \cup {None}, run : Runs \cup {None}]
Block == [run : Runs, of : SUBSET Items, at : Nat, moved : BOOLEAN]
Asked == [run : Runs \cup {None}, of : SUBSET Items, moved : BOOLEAN]

NoItem == [status |-> "none", scope |-> "user", owner |-> None, repo |-> None, run |-> None]
Idle == [run |-> None, of |-> {}, moved |-> FALSE]

KnowTypeOK ==
  /\ item \in [Items -> Item]
  /\ card \in [Items -> {"none", "open", "approved", "denied"}]
  /\ cardOnly \subseteq Items /\ bumping \subseteq Items /\ version \in Nat
  /\ cache \in Seq(Block) /\ Len(cache) <= MaxBlocks
  /\ rank \in [Askers -> Asked]

KnowInit ==
  /\ item = [i \in Items |-> NoItem]
  /\ card = [i \in Items |-> "none"] /\ cardOnly = {} /\ bumping = {}
  /\ cache = <<>> /\ version = 0 /\ rank = [l \in Askers |-> Idle]

-----------------------------------------------------------------------------
(* Drafts and decisions.                                                   *)

\* draft, by a user, a dismissed proposal or the distiller: a row that only its
\* author sees, and a card unless it is a lesson of a run that failed the bench.
Draft(i, owner, run, status) ==
  /\ item[i].status = "none" /\ (status = "rejected" => run \in Runs /\ owner = OwnerOf[run])
  /\ item' = [item EXCEPT ![i] = [NoItem EXCEPT !.status = status, !.owner = owner, !.run = run]]
  /\ card' = IF status = "rejected" THEN card ELSE [card EXCEPT ![i] = "open"]
  /\ UNCHANGED <<cardOnly, cache, version, bumping, rank>>

\* _resolve_linked_approval: the open card of this item, looked up by its run; an
\* item without a run keeps its card.
Linked(i) == {j \in {i} : item[j].run # None /\ card[j] = "open"}

\* approve and reject, under a row lock.  The corpus changes for all who rank.
Decide(i, new, word) ==
  /\ item[i].status = "draft"
  /\ item' = [item EXCEPT ![i] = new]
  /\ card' = [j \in Items |-> IF j \in Linked(i) THEN word ELSE card[j]]
  /\ bumping' = bumping \cup {i}
  /\ rank' = [l \in Askers |-> [rank[l] EXCEPT !.moved = rank[l].run # None]]
  /\ UNCHANGED <<cardOnly, cache, version>>

\* The repository a draft names is a proposal: the approver's word counts.
Approve(i, scope, repo) ==
  Decide(i, [item[i] EXCEPT !.status = "approved", !.scope = scope,
                            !.repo = IF scope = "repo" THEN repo ELSE @], "approved")

RejectItem(i) == Decide(i, [item[i] EXCEPT !.status = "rejected"], "denied")

\* A bug: a decision leaves the version alone.
BumpedMutant(i) == version

Bumped(i) == version + 1

\* _bump_block_cache_version, after the commit.
Bump(i) ==
  /\ i \in bumping /\ bumping' = bumping \ {i} /\ version' = Bumped(i)
  /\ UNCHANGED <<item, card, cardOnly, cache, rank>>

\* The card decided by its id (approvals.decide): the item is not told.
DecideCard(i, word) ==
  /\ card[i] = "open" /\ card' = [card EXCEPT ![i] = word] /\ cardOnly' = cardOnly \cup {i}
  /\ UNCHANGED <<item, cache, version, bumping, rank>>

-----------------------------------------------------------------------------
(* Blocks.                                                                 *)

\* _search_space, save for the trajectories.
Space(r) ==
  {i \in Items : /\ item[i].status = "approved"
                 /\ \/ item[i].scope = "global"
                    \/ item[i].scope = "repo" /\ item[i].repo = RepoOfRun[r]
                    \/ item[i].scope = "user" /\ item[i].owner = OwnerOf[r]}

\* A run has one block at most.
Slot(r) == {k \in 1..Len(cache) : cache[k].run = r}
Hits(r) == {k \in Slot(r) : cache[k].at = version}
Others(r) == IF Slot(r) = {} THEN cache ELSE RemoveAt(cache, CHOOSE k \in Slot(r) : TRUE)

\* prompt_block_for_run up to its first await: a hit is touched and served, else
\* the space is read and sent to be ranked.
AskBlock(l, r) ==
  /\ rank[l] = Idle
  /\ \/ /\ \E k \in Hits(r) : cache' = Append(Others(r), cache[k])
        /\ UNCHANGED rank
     \/ /\ Hits(r) = {}
        /\ rank' = [rank EXCEPT ![l] = [run |-> r, of |-> Space(r), moved |-> FALSE]]
        /\ UNCHANGED cache
  /\ UNCHANGED <<item, card, cardOnly, version, bumping>>

\* The ranking is back, by the model or by the lexical fallback: the block is
\* cached under the version of now, and the least recently used one goes.
CacheBlock(l) ==
  /\ rank[l].run # None
  /\ LET r == rank[l].run
         grown == Append(Others(r), [run |-> r, of |-> rank[l].of, at |-> version,
                                     moved |-> rank[l].moved])
     IN cache' = SubSeq(grown, IF Len(grown) > MaxBlocks THEN 2 ELSE 1, Len(grown))
  /\ rank' = [rank EXCEPT ![l] = Idle]
  /\ UNCHANGED <<item, card, cardOnly, version, bumping>>

KnowNext ==
  \/ \E i \in Items :
       \/ \E u \in Users, r \in Runs \cup {None}, s \in {"draft", "rejected"} : Draft(i, u, r, s)
       \/ \E scope \in {"global", "repo", "user"} : \E p \in KnownRepos : Approve(i, scope, p)
       \/ RejectItem(i)
       \/ Bump(i)
       \/ \E word \in {"approved", "denied"} : DecideCard(i, word)
  \/ \E l \in Askers : (\E r \in Runs : AskBlock(l, r)) \/ CacheBlock(l)

KnowSpec == KnowInit /\ [][KnowNext]_itemVars

-----------------------------------------------------------------------------
\* A block that would be served was chosen from the corpus as it is, unless a
\* decision fell while it was being ranked or has yet to bump the version: no run
\* goes on with what was decided since (prompt_block_for_run).
BlockFresh ==
  \A k \in 1..Len(cache) :
    cache[k].at = version /\ bumping = {} /\ ~cache[k].moved => cache[k].of = Space(cache[k].run)

\* The same without the exception: knowledge.py says that a decision bumps the
\* version "so a stale block is recomputed (not served stale)".
NoStaleBlock ==
  \A k \in 1..Len(cache) :
    cache[k].at = version /\ bumping = {} => cache[k].of = Space(cache[k].run)

=============================================================================
