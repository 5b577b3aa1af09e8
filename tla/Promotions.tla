----------------------------- MODULE Promotions -----------------------------
(***************************************************************************)
(* How a proposal of a patrol and an idea of the team become runs          *)
(* (services/proposals.py, services/ideas.py, api/ideas.py): a claim on    *)
(* the row, the run, the row's last stamp, and the release of a claim that *)
(* came to nothing, while others dismiss the proposal or have the idea     *)
(* summarized.                                                             *)
(*                                                                         *)
(* Every write of a row commits by itself and any two calls interleave     *)
(* between their commits: dismiss runs on a thread of its own.             *)
(***************************************************************************)
EXTENDS Naturals, Sequences, FiniteSets

CONSTANTS
  Proposals, Ideas,
  Calls, NoCall,       \* requests, each of one handler
  MaxRuns, MaxSlips   \* bounds

Things == Proposals \cup Ideas

PromotionsAssumption ==
  /\ Proposals \cap Ideas = {} /\ NoCall \notin Things
  /\ MaxRuns \in Nat /\ MaxSlips \in Nat

VARIABLES
  status,      \* the row of each proposal or idea
  promoted,    \* its promoted_run_id, 0 for none
  summarized,  \* ideas with a summary
  overspent,   \* the week's runs have cost what the ceiling allows
  call,        \* each call: what it is at, for which thing, with which run
  runOf,       \* the runs made, in order: the thing each was made for
  drafts,      \* dismissals drafted as knowledge, of each proposal
  orphan,      \* things a failed create or stamp left a run of, and freed for another
  undone,      \* things a claim on was overwritten by a call that had not looked again
  slips

ideaVars == <<status, promoted, summarized, overspent, call, runOf, drafts, orphan, undone, slips>>

Claims == {"accepting", "promoting"}
Final == {"accepted", "promoted", "dismissed"}
Statuses == {"proposed", "open", "summarized"} \cup Claims \cup Final
CallPcs == {"new", "claimed", "made", "failed", "asked", "dismissing", "drafted", "done", "refused"}

PromTypeOK ==
  /\ status \in [Things -> Statuses] /\ promoted \in [Things -> 0..MaxRuns]
  /\ summarized \subseteq Ideas /\ overspent \in BOOLEAN
  /\ call \in [Calls -> [pc : CallPcs, on : Things \cup {NoCall}, run : 0..MaxRuns]]
  /\ runOf \in Seq(Things) /\ Len(runOf) <= MaxRuns
  /\ drafts \in [Proposals -> 0..Cardinality(Calls)] /\ orphan \cup undone \subseteq Things

PromInit ==
  /\ status = [x \in Things |-> IF x \in Proposals THEN "proposed" ELSE "open"]
  /\ promoted = [x \in Things |-> 0] /\ summarized = {} /\ overspent \in BOOLEAN
  /\ call = [c \in Calls |-> [pc |-> "new", on |-> NoCall, run |-> 0]]
  /\ runOf = <<>> /\ drafts = [p \in Proposals |-> 0] /\ orphan = {} /\ undone = {}
  /\ slips = 0

CallAt(c, pc) == call[c].pc = pc
CallGoes(c, pc) == call' = [call EXCEPT ![c].pc = pc]
Starts(c, x, pc) == CallAt(c, "new") /\ call' = [call EXCEPT ![c].pc = pc, ![c].on = x]
CallFault == slips < MaxSlips /\ slips' = slips + 1

-----------------------------------------------------------------------------
(* Claims and runs.                                                        *)

\* A bug: the claim does not look at the row it updates.
FreeMutant(x) == status[x] \notin Final

\* The conditional update of accept and of claim_promotion.
Free(x) == IF x \in Proposals THEN status[x] = "proposed"
           ELSE status[x] \notin {"promoting", "promoted"}

ClaimRow(c, x) ==
  /\ IF Free(x) THEN /\ Starts(c, x, "claimed")
                     /\ status' = [status EXCEPT ![x] = IF x \in Proposals THEN "accepting" ELSE "promoting"]
     ELSE Starts(c, x, "refused") /\ UNCHANGED status
  /\ UNCHANGED <<promoted, summarized, overspent, runOf, drafts, orphan, undone, slips>>

\* The runs of proposals cost money, and weeks go by.
SpendMoves ==
  /\ overspent' = ~overspent
  /\ UNCHANGED <<status, promoted, summarized, call, runOf, drafts, orphan, undone, slips>>

\* The ceiling is looked at after the claim.
OverCeiling(c) ==
  /\ CallAt(c, "claimed") /\ call[c].on \in Proposals /\ overspent /\ CallGoes(c, "failed")
  /\ UNCHANGED <<status, promoted, summarized, overspent, runOf, drafts, orphan, undone, slips>>

CreateRun(c) ==
  /\ CallAt(c, "claimed") /\ Len(runOf) < MaxRuns /\ (call[c].on \in Proposals => ~overspent)
  /\ runOf' = Append(runOf, call[c].on)
  /\ call' = [call EXCEPT ![c].pc = "made", ![c].run = Len(runOf) + 1]
  /\ UNCHANGED <<status, promoted, summarized, overspent, drafts, orphan, undone, slips>>

\* create_run raises, before its row is committed or after it.
CreateFails(c) ==
  /\ CallAt(c, "claimed") /\ CallFault /\ CallGoes(c, "failed")
  /\ \/ UNCHANGED <<runOf, orphan>>
     \/ Len(runOf) < MaxRuns /\ runOf' = Append(runOf, call[c].on) /\ orphan' = orphan \cup {call[c].on}
  /\ UNCHANGED <<status, promoted, summarized, overspent, drafts, undone>>

\* accept's last write, and mark_promoted: whatever the row has become.
StampRow(c) ==
  /\ CallAt(c, "made") /\ CallGoes(c, "done")
  /\ LET x == call[c].on
     IN /\ status' = [status EXCEPT ![x] = IF x \in Proposals THEN "accepted" ELSE "promoted"]
        /\ promoted' = [promoted EXCEPT ![x] = call[c].run]
  /\ UNCHANGED <<summarized, overspent, runOf, drafts, orphan, undone, slips>>

\* The last write of a promotion fails: the claim is released, the run stays.
\* That of an acceptance is outside the try, and the claim stays.
StampFails(c) ==
  /\ CallAt(c, "made") /\ CallFault
  /\ CallGoes(c, IF call[c].on \in Ideas THEN "failed" ELSE "done")
  /\ orphan' = IF call[c].on \in Ideas THEN orphan \cup {call[c].on} ELSE orphan
  /\ UNCHANGED <<status, promoted, summarized, overspent, runOf, drafts, undone>>

\* A claim that came to nothing goes back to what it was.
Released(x) ==
  CASE status[x] = "accepting" -> "proposed"
    [] status[x] = "promoting" -> IF x \in summarized THEN "summarized" ELSE "open"
    [] OTHER -> status[x]

ReleaseClaim(c) ==
  /\ CallAt(c, "failed") /\ CallGoes(c, "refused")
  /\ status' = [status EXCEPT ![call[c].on] = Released(call[c].on)]
  /\ UNCHANGED <<promoted, summarized, overspent, runOf, drafts, orphan, undone, slips>>

-----------------------------------------------------------------------------
(* Dismissal of a proposal, summary of an idea.                            *)

Dismiss(c, p) ==
  /\ Starts(c, p, IF status[p] = "proposed" THEN "dismissing" ELSE "refused")
  /\ UNCHANGED <<status, promoted, summarized, overspent, runOf, drafts, orphan, undone, slips>>

\* The preference is drafted before the status is written, and may fail.
DraftPreference(c) ==
  /\ CallAt(c, "dismissing")
  /\ \/ CallGoes(c, "drafted") /\ drafts' = [drafts EXCEPT ![call[c].on] = @ + 1] /\ UNCHANGED slips
     \/ CallFault /\ CallGoes(c, "refused") /\ UNCHANGED drafts
  /\ UNCHANGED <<status, promoted, summarized, overspent, runOf, orphan, undone>>

Overwrites(x) == IF status[x] \in Claims \cup {"accepted", "promoted"} THEN undone \cup {x} ELSE undone

Dismissed(c) ==
  /\ CallAt(c, "drafted") /\ CallGoes(c, "done")
  /\ status' = [status EXCEPT ![call[c].on] = "dismissed"] /\ undone' = Overwrites(call[c].on)
  /\ UNCHANGED <<promoted, summarized, overspent, runOf, drafts, orphan, slips>>

\* summarize asks the model, at any time,
Summarize(c, i) ==
  /\ Starts(c, i, "asked")
  /\ UNCHANGED <<status, promoted, summarized, overspent, runOf, drafts, orphan, undone, slips>>

\* and stamps the answer, whatever the row has become, unless it is no JSON.
Summarized(c, good) ==
  /\ CallAt(c, "asked")
  /\ IF good
     THEN /\ CallGoes(c, "done") /\ summarized' = summarized \cup {call[c].on}
          /\ status' = [status EXCEPT ![call[c].on] = "summarized"]
          /\ undone' = Overwrites(call[c].on)
     ELSE CallGoes(c, "refused") /\ UNCHANGED <<summarized, status, undone>>
  /\ UNCHANGED <<promoted, overspent, runOf, drafts, orphan, slips>>

\* The process dies: its calls are gone, the rows are as they are.
CallsDie ==
  /\ CallFault
  /\ call' = [c \in Calls |-> IF call[c].pc = "new" THEN call[c] ELSE [call[c] EXCEPT !.pc = "refused"]]
  /\ UNCHANGED <<status, promoted, summarized, overspent, runOf, drafts, orphan, undone>>

PromNext ==
  \/ \E c \in Calls :
       \/ \E x \in Things : ClaimRow(c, x)
       \/ \E p \in Proposals : Dismiss(c, p)
       \/ \E i \in Ideas : Summarize(c, i)
       \/ OverCeiling(c) \/ CreateRun(c) \/ CreateFails(c) \/ StampRow(c) \/ StampFails(c) \/ ReleaseClaim(c)
       \/ DraftPreference(c) \/ Dismissed(c) \/ \E good \in BOOLEAN : Summarized(c, good)
  \/ SpendMoves \/ CallsDie

PromSpec == PromInit /\ [][PromNext]_ideaVars

-----------------------------------------------------------------------------
RunsFor(x) == {n \in DOMAIN runOf : runOf[n] = x}

\* However many accept or promote a thing at once, and wherever the process dies, it
\* has one run, save one that a failed create or stamp left behind a claim it gave
\* up, or after a dismissal or a summary that overwrote the claim (H-32, W9-H1).
OneRunPerThing == \A x \in Things : x \notin orphan \cup undone => Cardinality(RunsFor(x)) <= 1

\* ideas.py says of two promotes that "exactly one flips the row", the other gets
\* 409 "instead of minting a second run".
OneRunPerIdea == \A i \in Ideas : i \notin orphan => Cardinality(RunsFor(i)) <= 1

\* proposals.py takes a decision once: what was accepted is not dismissed.
DecidedOnce ==
  [][\A p \in Proposals : status[p] \in {"accepted", "dismissed"} => status'[p] = status[p]]_ideaVars
=============================================================================
