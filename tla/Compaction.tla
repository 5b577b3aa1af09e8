----------------------------- MODULE Compaction -----------------------------
(***************************************************************************)
(* Compaction of a conversation (worker/engine/compaction.py): prune what  *)
(* is old and expendable, put one summary in its place, and mend the pairs *)
(* of tool calls and results that pruning split.  A provider refuses a     *)
(* conversation with a result nobody asked for, or a call without result.  *)
(***************************************************************************)
EXTENDS Integers, Sequences, FiniteSets, SequencesExt

CONSTANTS
  Floor, Window,  \* floor_messages and recent_window
  MaxLength, MaxCalls, MaxPacked  \* bounds: messages, calls of one answer, compactions

CompactionAssumption ==
  /\ Floor \in Nat \ {0} /\ Window \in Nat \ {0}
  /\ MaxLength \in Nat /\ MaxCalls \in Nat \ {0} /\ MaxPacked \in Nat

VARIABLES
  conversation,
  serial,   \* messages so far, their names
  packed    \* compaction_count

compactVars == <<conversation, serial, packed>>

Origins == {"user", "nudge", "assistant", "tool", "memory"}

\* A message: who it is from, the calls it makes, the call it answers, and whether
\* it is the result of a mutating tool with a marker that must survive.  A call is
\* named by the message that makes it and its place there.
NoAnswer == <<0, 0>>
Message == [name : Nat, origin : Origins, calls : SUBSET ((Nat \ {0}) \X Nat),
            answers : Nat \X Nat, critical : BOOLEAN]
Tagged(name, origin) == [name |-> name, origin |-> origin, calls |-> {},
                         answers |-> NoAnswer, critical |-> FALSE]

Protected(m) == m.origin \in {"user", "nudge"}

CompactTypeOK ==
  /\ conversation \in Seq(Message) /\ serial \in Nat /\ packed \in 0..MaxPacked
  /\ \A i, j \in 1..Len(conversation) : i # j => conversation[i].name # conversation[j].name

CompactInit == conversation = <<Tagged(1, "user")>> /\ serial = 1 /\ packed = 0

CallsOf(msgs) == UNION {m.calls : m \in ToSet(msgs)}
AnswersOf(msgs) == {m.answers : m \in ToSet(msgs)} \ {NoAnswer}

\* The messages of a set, in their order.
Among(msgs, A) ==
  FoldLeft(LAMBDA found, m : IF m \in A THEN Append(found, m) ELSE found, <<>>, msgs)

-----------------------------------------------------------------------------
(* compact.                                                                *)

\* The recent window does not open with a result.
RecentStart(msgs) ==
  LET opens == {k \in 1..(Len(msgs) - Window + 1) : msgs[k].origin # "tool"}
  IN IF opens = {} THEN 1 ELSE CHOOSE k \in opens : \A j \in opens : j <= k

Stays(m) == Protected(m) \/ (m.origin = "tool" /\ m.critical)

\* The newest pruned messages come back until the floor is met, but no result
\* whose call is gone.
Restored(kept, pruned, recent) ==
  LET deficit == Floor - (Len(kept) + Len(recent) + 1)
      Take(m, acc) ==
        IF Cardinality(acc.back) < deficit /\ (m.answers = NoAnswer \/ m.answers \in acc.live)
        THEN [back |-> acc.back \cup {m.name}, live |-> acc.live \cup m.calls] ELSE acc
  IN FoldRight(Take, pruned, [back |-> {}, live |-> CallsOf(kept \o recent)]).back

\* Results whose call is there, and all that is no result.
Called(msgs) == {m \in ToSet(msgs) : m.answers \in CallsOf(msgs) \cup {NoAnswer}}

\* A bug: results lose their place, calls keep theirs.
RepairedMutant(msgs) == IF CallsOf(msgs) = {} THEN msgs ELSE Among(msgs, Called(msgs))

\* _repair_tool_pairs: with no call left at all, the list is left alone.
Repaired(msgs) ==
  LET paired == Among(msgs, Called(msgs))
  IN IF CallsOf(msgs) = {} THEN msgs
     ELSE [i \in 1..Len(paired) |-> [paired[i] EXCEPT !.calls = @ \cap AnswersOf(paired)]]

Parts(msgs) ==
  LET start == RecentStart(msgs)
      span == SubSeq(msgs, 1, start - 1)
      recent == SubSeq(msgs, start, Len(msgs))
      stay == {m \in ToSet(span) : Stays(m)}
      kept == Among(span, stay)
      pruned == Among(span, ToSet(span) \ stay)
      back == {m \in ToSet(span) : m.name \in Restored(kept, pruned, recent)}
  IN [kept |-> Among(span, stay \cup back),
      pruned |-> Among(pruned, ToSet(pruned) \ back),
      recent |-> recent]

Spliced(msgs) ==
  LET parts == Parts(msgs)
  IN Repaired(Append(parts.kept, Tagged(serial + 1, "memory")) \o parts.recent)

ShouldCompact == Len(conversation) > Floor + Window

\* The honesty validator: otherwise the messages stay as they were.
Honest(msgs, new) == \A m \in ToSet(msgs) : Protected(m) => m \in ToSet(new)

-----------------------------------------------------------------------------
(* The conversation.                                                       *)

Room(n) == Len(conversation) + n <= MaxLength

Add(msgs) ==
  /\ Room(Len(msgs)) /\ conversation' = conversation \o msgs
  /\ serial' = serial + Len(msgs) /\ UNCHANGED packed

\* A turn's first message, or a nudge on the way.
UserTurn(origin) == origin \in {"user", "nudge"} /\ Add(<<Tagged(serial + 1, origin)>>)

Answer == Last(conversation).origin # "assistant" /\ Add(<<Tagged(serial + 1, "assistant")>>)

\* An answer with calls, and the results of those the turn got to: it may be
\* ended before (a denial breaker, a stop).  A call that keeps failing earns the
\* agent a nudge right after its result.
CallTools(n, done, critical, nudged) ==
  /\ Last(conversation).origin # "assistant"
  /\ LET caller == serial + 1
         Result(k) == [Tagged(caller + k, "tool") EXCEPT
                         !.answers = <<caller, k>>, !.critical = k \in critical]
         results == [k \in 1..done |-> Result(k)]
     IN Add(<<[Tagged(caller, "assistant") EXCEPT !.calls = {caller} \X (1..n)]>>
              \o IF nudged = 0 THEN results
                 ELSE InsertAt(results, nudged + 1, Tagged(caller + done + 1, "nudge")))

\* The context is too long, or a forced pass, which nothing prunable stops.
Compact(force) ==
  /\ packed < MaxPacked
  /\ IF force THEN Len(conversation) > Window ELSE ShouldCompact
  /\ Parts(conversation).pruned # <<>>
  /\ conversation' = IF Honest(conversation, Spliced(conversation))
                     THEN Spliced(conversation) ELSE conversation
  /\ serial' = serial + 1 /\ packed' = packed + 1

CompactNext ==
  \/ \E origin \in {"user", "nudge"} : UserTurn(origin)
  \/ Answer
  \/ \E n \in 1..MaxCalls : \E done \in 0..n : \E critical \in SUBSET (1..done) :
       \E nudged \in 0..done : CallTools(n, done, critical, nudged)
  \/ \E force \in BOOLEAN : Compact(force)

CompactSpec == CompactInit /\ [][CompactNext]_compactVars

-----------------------------------------------------------------------------
Compacted == packed' # packed

\* Each call of a compacted conversation is answered, and each result answers a
\* call made before it, unless no call is left at all (_repair_tool_pairs): no
\* provider refuses it for a split pair.
PairsMended ==
  [][Compacted /\ CallsOf(conversation') # {} =>
       /\ CallsOf(conversation') \subseteq AnswersOf(conversation')
       /\ \A i \in 1..Len(conversation') : conversation'[i].answers # NoAnswer =>
            \E k \in 1..(i - 1) : conversation'[i].answers \in conversation'[k].calls]_compactVars

\* What compact puts together passes its own honesty check (compaction.py:323): no
\* pass comes to nothing because a message of the user was lost on the way.
NeverRolledBack == [][Compacted => conversation' = Spliced(conversation)]_compactVars

\* compaction.py says of the results of edits, of approvals and of errors that
\* the system prompt "GUARANTEES" they survive compaction.
CriticalKept ==
  [][Compacted => \A m \in ToSet(conversation) : m.critical => m \in ToSet(conversation')]_compactVars
=============================================================================
