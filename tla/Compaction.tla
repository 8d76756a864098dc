----------------------------- MODULE Compaction -----------------------------
(***************************************************************************)
(* What a compaction does to a conversation (pkg/agent/compaction.go, called *)
(* by internal/chat/chat.go before a run and on request): where it cuts, how *)
(* large it takes the context to be, what the checkpoint covers.  A message  *)
(* is its role, its size in tokens and, for an answer, the usage the         *)
(* provider reported and whether it failed; a text is the set of messages    *)
(* that it tells of.  The summary is what the provider makes of the text it  *)
(* is given, or a failure.                                                   *)
(***************************************************************************)
EXTENDS Naturals, Sequences, SequencesExt, FiniteSetsExt

CONSTANTS MaxSaid,    \* bound: messages of a session
          SizesOf,    \* the sizes a message may have
          MaxCalls,   \* bound: calls of an answer
          KeepRecent, \* CompactionSettings.KeepRecentTokens
          Limit       \* the model's window without ReserveTokens

VARIABLES
  said,    \* all messages of the session, in order
  history, \* the chat's conversation
  owed,    \* calls of the last answer that have no result yet
  at       \* "idle" or "run"

compactionVars == <<said, history, owed, at>>

Message(role, size, usage, failed, call) ==
  [role |-> role, size |-> size, usage |-> usage, failed |-> failed, call |-> call,
   tells |-> {Len(said) + 1}]

CompactionTypeOK ==
  /\ Len(said) <= MaxSaid /\ owed \in 0..MaxCalls /\ at \in {"idle", "run"}
  /\ \A m \in Range(said) : m.role \in {"user", "assistant", "tool"}
  /\ \A m \in Range(history) : m.role \in {"user", "assistant", "tool", "summary"} /\ m.size \in Nat

CompactionInit == said = <<>> /\ history = <<>> /\ owed = 0 /\ at = "idle"

----------------------------------------------------------------------------
(* The functions of compaction.go.                                          *)

EstimateTokens(messages) == FoldLeft(LAMBDA n, m : n + m.size, 0, messages)

\* The usage of the last answer that did not fail, and an estimate of the rest.
ContextTokens(messages) ==
  LET reported == {i \in DOMAIN messages : messages[i].role = "assistant" /\ ~messages[i].failed
                                           /\ messages[i].usage > 0}
  IN IF reported = {} THEN EstimateTokens(messages)
     ELSE messages[Max(reported)].usage
            + EstimateTokens(SubSeq(messages, Max(reported) + 1, Len(messages)))

ShouldCompact(messages) == ContextTokens(messages) > Limit

\* A cut may land right behind a call's answer, its results being recent enough.
MutValidCutIndex(messages, cut) == cut

\* The first message from the cut on that is no tool result.
validCutIndex(messages, cut) ==
  LET starts == {i \in cut..Len(messages) : messages[i].role # "tool"}
  IN IF starts = {} THEN Len(messages) + 1 ELSE Min(starts)

\* Where the kept tail begins; 1 when there is nothing to summarise.
PlanCompaction(messages) ==
  LET enough == {i \in DOMAIN messages :
                   EstimateTokens(SubSeq(messages, i, Len(messages))) >= KeepRecent}
  IN IF Len(messages) < 2 \/ enough = {} THEN 1 ELSE validCutIndex(messages, Max(enough))

\* What the first checkpoint of the conversation tells of.
PreviousSummary(messages) ==
  LET marks == {i \in DOMAIN messages : messages[i].role = "summary"}
  IN IF marks = {} THEN {} ELSE messages[Min(marks)].tells

\* The text given to the provider, with the checkpoint before it.
Summarize(messages, previous) == UNION {m.tells : m \in Range(messages)} \cup previous

ApplyCompaction(tells, keep) ==
  <<[role |-> "summary", size |-> 1, usage |-> 0, failed |-> FALSE, call |-> 0, tells |-> tells]>>
    \o keep

Compacted(messages) ==
  LET cut == PlanCompaction(messages)
  IN ApplyCompaction(Summarize(SubSeq(messages, 1, cut - 1), PreviousSummary(messages)),
                     SubSeq(messages, cut, Len(messages)))

----------------------------------------------------------------------------
(* The session.                                                             *)
Room == Len(said) < MaxSaid
Says(m) == said' = Append(said, m) /\ history' = Append(history, m)

\* Compact on request, while no run is active; it may fail.
Compact ==
  /\ at = "idle" /\ PlanCompaction(history) > 1
  /\ history' = Compacted(history)
  /\ UNCHANGED <<said, owed, at>>

\* A run: before its first turn it makes room, or goes on without if that fails;
\* the directory notice and the prompt come first.
Prompt(size) ==
  /\ at = "idle" /\ Room
  /\ LET prompt == Message("user", size, 0, FALSE, 0)
     IN /\ said' = Append(said, prompt)
        /\ \/ history' = Append(history, prompt)
           \/ /\ ShouldCompact(history) /\ PlanCompaction(history) > 1
              /\ history' = Append(Compacted(history), prompt)
  /\ at' = "run" /\ owed' = 0

\* What is steered between turns, or says that the directory changed.
UserSays(size) ==
  /\ at = "run" /\ Room /\ owed = 0
  /\ Says(Message("user", size, 0, FALSE, 0))
  /\ UNCHANGED <<owed, at>>

\* An answer: the provider may report the usage of its request and answer.
ModelSays(size, reports, calls) ==
  /\ at = "run" /\ Room /\ owed = 0
  /\ Last(history).role \in {"user", "tool"}
  /\ Says(Message("assistant", size, IF reports THEN EstimateTokens(history) + size ELSE 0, FALSE, 0))
  /\ owed' = calls
  /\ UNCHANGED at

\* A failed or aborted answer ends the run; what it reports is not counted.
ModelBreaks(size) ==
  /\ at = "run" /\ Room /\ owed = 0
  /\ Last(history).role \in {"user", "tool"}
  /\ Says(Message("assistant", size, 1, TRUE, 0))
  /\ at' = "idle"
  /\ UNCHANGED owed

\* The results of an answer's calls follow it.
ToolSays(size) ==
  /\ at = "run" /\ Room /\ owed > 0
  /\ LET answer == Max({i \in DOMAIN said : said[i].role = "assistant"})
     IN Says(Message("tool", size, 0, FALSE, answer))
  /\ owed' = owed - 1
  /\ UNCHANGED at

RunEnds ==
  /\ at = "run" /\ owed = 0 /\ Last(history).role \in {"assistant", "tool"}
  /\ at' = "idle"
  /\ UNCHANGED <<said, history, owed>>

CompactionNext ==
  \/ Compact \/ RunEnds
  \/ \E size \in SizesOf :
       \/ Prompt(size) \/ UserSays(size) \/ ToolSays(size) \/ ModelBreaks(size)
       \/ \E reports \in BOOLEAN, calls \in 0..MaxCalls : ModelSays(size, reports, calls)

CompactionSpec == CompactionInit /\ [][CompactionNext]_compactionVars

----------------------------------------------------------------------------
\* However often and wherever it is cut, the conversation is a checkpoint that
\* tells of everything said before, if there is one, and then every later message
\* in order.
NothingForgotten ==
  LET kept == SelectSeq(history, LAMBDA m : m.role # "summary")
      before == Len(said) - Len(kept)
  IN /\ kept = SubSeq(said, before + 1, Len(said))
     /\ IF before = 0 THEN Len(history) = Len(kept)
        ELSE Len(history) = Len(kept) + 1 /\ history[1].tells = 1..before

\* "a kept tool result always follows its own call" (compaction.go:186), on which
\* every provider insists.
ResultsFollowCalls ==
  \A i \in DOMAIN history : history[i].role = "tool" =>
    \E j \in 1..(i - 1) : history[j].tells = {history[i].call}

\* A failed answer's usage, or messages after the last usage, must not make the
\* context look smaller than it is (compaction.go:129), or the request that
\* follows would not fit.
ContextNotUnderstated == EstimateTokens(history) <= ContextTokens(history)

CompactionKeeps == NothingForgotten /\ ResultsFollowCalls /\ ContextNotUnderstated
=============================================================================
