----------------------------- MODULE Distiller -----------------------------
(***************************************************************************)
(* The nightly distiller (services/distiller.py): it reads the summaries   *)
(* of the last day whose runs no knowledge row mentions, has a model draw  *)
(* lessons from them, lays each lesson at one of the runs as a draft, and  *)
(* marks the other runs, so that no run is mined twice.                    *)
(***************************************************************************)
EXTENDS Naturals, Sequences, FiniteSets, SequencesExt

CONSTANTS
  Sources,
  Corpus,         \* summaries one question to the model can hold
  MaxCandidates,  \* lessons of one reply
  MaxNights, MaxEnds   \* bounds

DistillerAssumption ==
  IsFiniteSet(Sources) /\ {Corpus, MaxCandidates, MaxNights, MaxEnds} \subseteq Nat

VARIABLES
  summary,     \* each run: its summaries are of the last day, older, or none
  rows,        \* runs that a knowledge row has for its source, by the row's status
  night, read,    \* the night at work and the runs it has read, in order
  upcoming, used,  \* the candidate it is at, the runs a candidate was laid at
  told,        \* runs whose summaries some answered question held
  nights, ends

nightVars == <<summary, rows, night, read, upcoming, used, told, nights, ends>>

NightTypeOK ==
  /\ summary \in [Sources -> {"none", "today", "older"}]
  /\ rows \in [{"draft", "rejected", "marker"} -> SUBSET Sources]
  /\ night \in {"off", "distill", "draft", "mark"} /\ read \in Seq(Sources)
  /\ upcoming \in Nat /\ used \subseteq ToSet(read) /\ told \subseteq Sources

NightInit ==
  /\ summary = [r \in Sources |-> "none"]
  /\ rows = [s \in {"draft", "rejected", "marker"} |-> {}]
  /\ night = "off" /\ read = <<>> /\ upcoming = 1 /\ used = {} /\ told = {}
  /\ nights = 0 /\ ends = 0

\* mined_run_ids: whatever the status of the row.
Mined == rows.draft \cup rows.rejected \cup rows.marker

\* unmined_since, one day.
Unmined == {r \in Sources : summary[r] = "today" /\ r \notin Mined}

WriteSummary(r) ==
  /\ summary[r] = "none" /\ summary' = [summary EXCEPT ![r] = "today"]
  /\ UNCHANGED <<rows, night, read, upcoming, used, told, nights, ends>>

\* A user drafts an item and names a run as its source (api/knowledge.py).
UserDrafts(r) ==
  /\ rows' = [rows EXCEPT !.draft = @ \cup {r}] /\ rows' # rows
  /\ UNCHANGED <<summary, night, read, upcoming, used, told, nights, ends>>

\* The loop of main.py sleeps a day between two nights.
DayPasses ==
  /\ night = "off" /\ \E r \in Sources : summary[r] = "today"
  /\ summary' = [r \in Sources |-> IF summary[r] = "today" THEN "older" ELSE summary[r]]
  /\ UNCHANGED <<rows, night, read, upcoming, used, told, nights, ends>>

Begins ==
  /\ night = "off" /\ nights < MaxNights /\ Unmined # {}
  /\ night' = "distill" /\ nights' = nights + 1
  /\ read' \in SetToSeqs(Unmined) /\ upcoming' = 1 /\ used' = {}
  /\ UNCHANGED <<summary, rows, told, ends>>

\* A bug: a failed question is taken for an answer with no lessons.
DistillFailsMutant ==
  /\ night = "distill" /\ night' = "mark"
  /\ UNCHANGED <<summary, rows, read, upcoming, used, told, nights, ends>>

\* distill raises: the night ends with nothing marked.
DistillFails ==
  /\ night = "distill" /\ night' = "off"
  /\ UNCHANGED <<summary, rows, read, upcoming, used, told, nights, ends>>

\* The model has answered; only the first summaries were in the question.
Distilled ==
  /\ night = "distill" /\ night' = "draft"
  /\ told' = told \cup {read[k] : k \in {k \in 1..Len(read) : k <= Corpus}}
  /\ UNCHANGED <<summary, rows, read, upcoming, used, nights, ends>>

\* Candidates are laid at the runs in turn; one that fails the bench is kept as rejected.
DraftCandidate(status) ==
  /\ night = "draft" /\ upcoming <= MaxCandidates /\ upcoming' = upcoming + 1
  /\ LET src == read[((upcoming - 1) % Len(read)) + 1]
     IN /\ rows' = [rows EXCEPT ![status] = @ \cup {src}]
        /\ used' = used \cup {src}
  /\ UNCHANGED <<summary, night, read, told, nights, ends>>

Left == ToSet(read) \ (used \cup rows.marker)

\* mark_mined, run by run; then the night is over.
MarkMined ==
  /\ night \in {"draft", "mark"}
  /\ IF Left = {} THEN night' = "off" /\ UNCHANGED rows
     ELSE night' = "mark" /\ \E r \in Left : rows' = [rows EXCEPT !.marker = @ \cup {r}]
  /\ UNCHANGED <<summary, read, upcoming, used, told, nights, ends>>

NightCrash ==
  /\ night # "off" /\ ends < MaxEnds /\ ends' = ends + 1
  /\ night' = "off" /\ UNCHANGED <<summary, rows, read, upcoming, used, told, nights>>

NightNext ==
  \/ \E r \in Sources : WriteSummary(r) \/ UserDrafts(r)
  \/ \E status \in {"draft", "rejected"} : DraftCandidate(status)
  \/ DayPasses \/ Begins \/ DistillFails \/ Distilled \/ MarkMined \/ NightCrash

NightSpec == NightInit /\ [][NightNext]_nightVars

-----------------------------------------------------------------------------
\* A run is marked as having nothing to teach only after the model has been shown
\* its summary: a question that failed, and a crash, cost no lesson.  A night that
\* read more summaries than one question holds is the exception.
MarkedWasTold ==
  [][\A r \in rows'.marker \ rows.marker : r \in told \/ Len(read) > Corpus]_nightVars

\* main.py says of the runs of a night that failed that they are left "unmined, will retry".
FailedRetried ==
  [][night = "off" /\ night' = "distill" =>
       \A r \in Sources : summary[r] = "older" /\ r \notin Mined => r \in ToSet(read')]_nightVars
=============================================================================
