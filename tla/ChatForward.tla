----------------------------- MODULE ChatForward -----------------------------
(***************************************************************************)
(* internal/chat/chat.go, forward: the goroutine between the agent loop of *)
(* one run and the run's consumer.                                         *)
(*                                                                         *)
(* forward copies the loop's events to the run's stream.  Until an attempt *)
(* showed something of an answer it holds back the events a failed request *)
(* leaves, so that it can start over with another model (failover) and the *)
(* consumer sees one run.  The loop pushes on a stream of its own and may  *)
(* be any number of events ahead; its inner life is in AgentLoop.          *)
(***************************************************************************)
EXTENDS Integers, Sequences

CONSTANTS MaxAttempts, \* the models failover can choose from, and the first
          MaxTurns,    \* bound: answers of one attempt
          MaxHeard     \* bound: messages steered into the run

ASSUME ForwardAssumption ==
    /\ MaxAttempts \in Nat \ {0}
    /\ MaxTurns \in Nat \ {0}
    /\ MaxHeard \in Nat

VARIABLES
    aborted,    \* the run's context is
    attempt,    \* how many models were tried: len(attempted)
    loop,       \* where the attempt's agent.Run is, and its newMessages
    steers,     \* messages steered in so far
    feed,       \* upstream: events pushed by the loop and not yet read
    buffered,   \* events held back
    meaningful, \* the attempt has shown something
    out,        \* events pushed on the run's stream
    kept        \* the messages appended to the conversation, once ended

forwardVars == <<attempt, buffered, meaningful, out, kept>>
forwarding == <<aborted, loop, steers, feed, forwardVars>>

Msg(role, of, n) == [role |-> role, of |-> of, n |-> n]
NoMsg        == Msg("none", 0, 0)
Asked        == Msg("user", 0, 0)
SteeredIn(k) == Msg("user", 0, k)
AnswerOf(n)  == Msg("assistant", attempt, n)
ResultOf(n)  == Msg("tool", attempt, n)
AbortedMsg   == Msg("assistant", 0, 0)

\* detail: the content of a message_start, the error of an end.
RunEvent(type, message, detail) == [type |-> type, message |-> message, detail |-> detail]
Shown(m) == <<RunEvent("message_start", m, FALSE), RunEvent("message_end", m, FALSE)>>

Prologue == <<RunEvent("agent_start", NoMsg, FALSE), RunEvent("turn_start", NoMsg, FALSE)>> \o Shown(Asked)
Loop(at, turn, said) == [at |-> at, turn |-> turn, said |-> said]

Ended == kept # <<>>

ForwardInit ==
    /\ aborted = FALSE
    /\ attempt = 1
    /\ loop = Loop("asking", 1, <<Asked>>)
    /\ steers = 0
    /\ feed = Prologue
    /\ buffered = <<>> /\ meaningful = FALSE /\ out = <<>> /\ kept = <<>>

Abort ==
    /\ ~aborted /\ ~Ended
    /\ aborted' = TRUE
    /\ UNCHANGED <<loop, steers, feed, forwardVars>>

------------------------------------------------------------------------------
(* agent.Run, by the events it pushes.                                     *)

Push(events, next) ==
    /\ ~Ended
    /\ feed' = feed \o events
    /\ loop' = next
    /\ UNCHANGED <<aborted, forwardVars>>

Announce(content) == <<RunEvent("message_start", AnswerOf(loop.turn), content)>>

\* The provider's first event, with or without content, and a delta.
LoopStarts ==
    /\ loop.at = "asking"
    /\ \E content \in BOOLEAN : Push(Announce(content), [loop EXCEPT !.at = "speaking"])
    /\ UNCHANGED steers

LoopSpeaks ==
    /\ loop.at = "speaking"
    /\ Push(<<RunEvent("message_update", AnswerOf(loop.turn), FALSE)>>, [loop EXCEPT !.at = "spoken"])
    /\ UNCHANGED steers

Unannounced(content) == IF loop.at = "asking" THEN Announce(content) ELSE <<>>

\* A failed or cancelled request is the end of the loop.
LoopFails ==
    /\ loop.at \in {"asking", "speaking", "spoken"}
    /\ \E content \in BOOLEAN : LET said == Append(loop.said, AnswerOf(loop.turn)) IN
       Push(Unannounced(content) \o <<RunEvent("message_end", AnswerOf(loop.turn), TRUE),
                                   RunEvent("turn_end", AnswerOf(loop.turn), TRUE),
                                   RunEvent("agent_end", said, TRUE)>>,
            Loop("over", loop.turn, said))
    /\ UNCHANGED steers

\* An answer, with or without a tool call.
LoopAnswers ==
    /\ loop.at \in {"asking", "speaking", "spoken"}
    /\ \E at \in {"calling", "boundary"}, content \in BOOLEAN :
       Push(Unannounced(content) \o <<RunEvent("message_end", AnswerOf(loop.turn), FALSE)>>,
            Loop(at, loop.turn, Append(loop.said, AnswerOf(loop.turn))))
    /\ UNCHANGED steers

LoopCalls ==
    /\ loop.at = "calling"
    /\ Push(<<RunEvent("tool_start", ResultOf(loop.turn), FALSE), RunEvent("tool_end", ResultOf(loop.turn), FALSE)>>
                \o Shown(ResultOf(loop.turn)),
            Loop("continue", loop.turn, Append(loop.said, ResultOf(loop.turn))))
    /\ UNCHANGED steers

TurnEnd == <<RunEvent("turn_end", AnswerOf(loop.turn), FALSE)>>

\* The next turn, after a result or with a message that was steered in.
LoopContinues ==
    /\ loop.at \in {"continue", "boundary"} /\ ~aborted
    /\ loop.turn < MaxTurns
    /\ \/ /\ loop.at = "continue"
          /\ Push(TurnEnd \o <<RunEvent("turn_start", NoMsg, FALSE)>>, Loop("asking", loop.turn + 1, loop.said))
          /\ UNCHANGED steers
       \/ /\ steers < MaxHeard
          /\ steers' = steers + 1
          /\ Push(TurnEnd \o Shown(SteeredIn(steers')) \o <<RunEvent("turn_start", NoMsg, FALSE)>>,
                  Loop("asking", loop.turn + 1, Append(loop.said, SteeredIn(steers'))))

LoopEnds ==
    /\ loop.at \in {"continue", "boundary"}
    /\ Push(TurnEnd \o <<RunEvent("agent_end", loop.said, FALSE)>>, [loop EXCEPT !.at = "over"])
    /\ UNCHANGED steers

------------------------------------------------------------------------------
(* forward.                                                                *)

OfAssistant(e) == e.message.role = "assistant"

\* A later attempt repeats the opening of the run.  The loop's later turns and
\* steered messages have the same events.
isAttemptPrefix(e) ==
    \/ e.type \in {"agent_start", "turn_start"}
    \/ e.type \in {"message_start", "message_end"} /\ e.message.role = "user"

meaningfulEvent(e) ==
    \/ e.type = "message_start" /\ OfAssistant(e) /\ e.detail
    \/ e.type \in {"message_update", "tool_start", "tool_end"}
    \/ e.type = "message_end" /\ OfAssistant(e) /\ ~e.detail

MutIsFailureCandidate(e) == e.type \in {"message_end", "turn_end"} /\ OfAssistant(e)
isFailureCandidate(e) == e.type \in {"message_start", "message_end", "turn_end"} /\ OfAssistant(e)

Reading == ~Ended /\ feed # <<>> /\ Head(feed).type # "agent_end"

\* Events held back come out before the first meaningful one.
MutShow(e) == out' = Append(out, e) /\ buffered' = <<>>
Show(e) == out' = out \o Append(buffered, e) /\ buffered' = <<>>

Forward ==
    /\ Reading
    /\ feed' = Tail(feed)
    /\ LET e == Head(feed) IN
       IF attempt > 1 /\ isAttemptPrefix(e) THEN UNCHANGED <<buffered, meaningful, out>>
       ELSE IF meaningfulEvent(e) THEN meaningful' = TRUE /\ Show(e)
       ELSE IF ~meaningful /\ isFailureCandidate(e)
       THEN buffered' = Append(buffered, e) /\ UNCHANGED <<meaningful, out>>
       ELSE out' = Append(out, e) /\ UNCHANGED <<buffered, meaningful>>
    /\ UNCHANGED <<aborted, loop, steers, attempt, kept>>

AtEnd == ~Ended /\ feed # <<>> /\ Head(feed).type = "agent_end"
Retryable == Head(feed).detail /\ ~meaningful /\ ~aborted

\* selectFailover found another model: what was held back is forgotten.
Failover ==
    /\ AtEnd /\ Retryable
    /\ attempt < MaxAttempts
    /\ attempt' = attempt + 1
    /\ loop' = Loop("asking", 1, <<Asked>>)
    /\ feed' = Prologue
    /\ buffered' = <<>> /\ meaningful' = FALSE
    /\ UNCHANGED <<aborted, steers, out, kept>>

\* selectFailover may decline.
FinishRun ==
    /\ AtEnd
    /\ kept' = Head(feed).message
    /\ out' = out \o Append(buffered, Head(feed))
    /\ feed' = <<>> /\ buffered' = <<>>
    /\ UNCHANGED <<aborted, loop, steers, attempt, meaningful>>

\* The context ends while forward waits for the loop, which it leaves behind.
AbortedRun == <<Asked, AbortedMsg>>
MutAbandonable == aborted /\ loop.at = "over"
Abandonable == aborted
Abandon ==
    /\ Abandonable /\ feed = <<>> /\ ~Ended
    /\ kept' = AbortedRun
    /\ out' = Append(out, RunEvent("agent_end", AbortedRun, TRUE))
    /\ buffered' = <<>>
    /\ UNCHANGED <<aborted, loop, steers, feed, attempt, meaningful>>

Forwards == Forward \/ Failover \/ FinishRun \/ Abandon

ForwardNext ==
    \/ Abort
    \/ LoopStarts \/ LoopSpeaks \/ LoopFails \/ LoopAnswers \/ LoopCalls \/ LoopContinues \/ LoopEnds
    \/ Forwards

\* forward is never blocked but on the loop, which owes nothing: a provider or
\* a tool may be silent for ever.
ForwardSpec == ForwardInit /\ [][ForwardNext]_forwarding /\ WF_forwarding(Forwards)

------------------------------------------------------------------------------
\* Failover shows one run: whatever was shown of an answer or a tool is of the
\* last attempt, the opening and the prompt were shown once, and the few events
\* of a failed answer are held back only while nothing was shown.
Opening(e) == e.type = "agent_start" \/ (e.type \in {"message_start", "message_end"} /\ e.message = Asked)
FailedAttemptsHidden ==
    /\ Len(buffered) <= 3
    /\ meaningful => buffered = <<>>
    /\ \A p \in DOMAIN out : out[p].type # "agent_end" /\ out[p].message.role \in {"assistant", "tool"}
                               => out[p].message.of = attempt
    /\ \A p, q \in DOMAIN out : p # q /\ Opening(out[p]) => out[q] # out[p]

\* At the end of a run that was not abandoned, the messages the consumer saw
\* begin are the messages the conversation keeps, in that order, and so are
\* those it saw end.  The exception: a later attempt does not show steered
\* messages.
Visible(m) == attempt = 1 \/ m.role # "user" \/ m = Asked
TellsOf(type) == {p \in DOMAIN out : out[p].type = type}
ShownIsKept ==
    (Ended /\ kept # AbortedRun) => \A type \in {"message_start", "message_end"} :
        /\ \A i \in DOMAIN kept : Visible(kept[i]) => \E p \in TellsOf(type) : out[p].message = kept[i]
        /\ \A p \in TellsOf(type) : \E i \in DOMAIN kept : out[p].message = kept[i] /\ Visible(kept[i])
        /\ \A p, q \in TellsOf(type), i, j \in DOMAIN kept :
             out[p].message = kept[i] /\ out[q].message = kept[j] => (p < q <=> i < j)

\* Abort reaches the consumer: an aborted run ends with its terminal event,
\* whatever the provider and the tools do.
AbortEndsRun == aborted ~> Ended
==============================================================================
