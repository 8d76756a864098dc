------------------------------ MODULE AgentLoop ------------------------------
(***************************************************************************)
(* pkg/agent/loop.go and steering.go: one run of the model/tool loop.      *)
(*                                                                         *)
(* The run's goroutine asks the model, executes the calls of its answer,   *)
(* appends the results, and at each step boundary takes the messages the   *)
(* user steered in.  It runs against the user (Steer, Cancel), the         *)
(* provider, and one goroutine per call of a parallel batch, each of which *)
(* reports progress and returns when it likes.  A stretch of the run's     *)
(* goroutine between two points where another goroutine can interfere is   *)
(* one action.                                                             *)
(***************************************************************************)
EXTENDS Integers, Sequences, SequencesExt

CONSTANTS Batches,    \* the call lists an answer can carry: sequences of Tools
          ToolTurns,  \* bound: answers that may carry calls
          MaxSteers   \* bound: messages steered into one run

\* A call's tool is the first of its name: one that runs beside others, one
\* that opted out of that (SequentialTool), or none at all.
Tools == {"parallel", "sequential", "missing"}

ASSUME LoopAssumption ==
    /\ Batches \subseteq Seq(Tools)
    /\ ToolTurns \in Nat
    /\ MaxSteers \in Nat

VARIABLES
    config,      \* what the run was given: a steering queue, sequential execution
    phase,       \* where the run's goroutine is
    cancelled,   \* ctx.Err() # nil
    answers,     \* the answers received: how many calls, and why it stopped
    batch,       \* the tools of the calls being executed
    mode,        \* how executeToolBatch executes them
    call,        \* where each of them is
    terminating, \* those whose result has Terminate set
    transcript,  \* newMessages
    events,      \* what was pushed on the run's stream, message updates left out
    queue,       \* SteeringQueue.messages
    closed,      \* SteeringQueue.closed
    admitted     \* history: the Steers accepted are 1..admitted, in that order

batchVars == <<batch, mode, call, terminating>>
steerVars == <<queue, closed, admitted>>
vars == <<config, phase, cancelled, answers, batchVars, transcript, events, steerVars>>

\* The phases. "request": the model was asked; "answer": its message was announced;
\* "batch": calls are running; "boundary" and "cut": the turn is over and the
\* steering queue is to be drained or, after a cancellation, closed.

Stops == {"stop", "length", "error", "aborted"}
Failed(stop) == stop \in {"error", "aborted"}

\* Messages and events by what tells them apart.
Message(role, turn, n) == [role |-> role, turn |-> turn, n |-> n]
Steered(k)       == Message("user", 0, k)
Prompt           == Steered(0)
Answer(turn)     == Message("assistant", turn, 0)
Result(turn, i)  == Message("tool", turn, i)
Nothing          == Message("none", 0, 0)

Event(type, of) == [type |-> type, of |-> of]
Said(messages) ==
    FlattenSeq([i \in DOMAIN messages |-> <<Event("message_start", messages[i]),
                                            Event("message_end", messages[i])>>])

Turn == Len(answers)

Init ==
    /\ config \in [steering : BOOLEAN, sequential : BOOLEAN]
    /\ phase = "request"
    /\ cancelled = FALSE
    /\ answers = <<>>
    /\ batch = <<>> /\ mode = "parallel" /\ call = <<>> /\ terminating = {}
    /\ transcript = <<Prompt>>
    /\ events = <<Event("agent_start", Nothing), Event("turn_start", Nothing)>> \o Said(<<Prompt>>)
    /\ queue = <<>> /\ closed = FALSE /\ admitted = 0

------------------------------------------------------------------------------
(* The user.                                                               *)

\* SteeringQueue.Push.
Steer ==
    /\ config.steering
    /\ phase # "ended"
    /\ admitted < MaxSteers
    /\ ~closed
    /\ admitted' = admitted + 1
    /\ queue' = Append(queue, admitted + 1)
    /\ UNCHANGED <<config, phase, cancelled, answers, batchVars, transcript, events, closed>>

Cancel ==
    /\ ~cancelled
    /\ phase # "ended"
    /\ cancelled' = TRUE
    /\ UNCHANGED <<config, phase, answers, batchVars, transcript, events, steerVars>>

------------------------------------------------------------------------------
(* The model's answer: streamAssistant and the head of run's loop.         *)

ModelStarts ==
    /\ phase = "request"
    /\ phase' = "answer"
    /\ events' = Append(events, Event("message_start", Answer(Turn + 1)))
    /\ UNCHANGED <<config, cancelled, answers, batchVars, transcript, steerVars>>

\* An answer that was not announced is announced with its end.
Announced == IF phase = "request" THEN <<Event("message_start", Answer(Turn + 1))>> ELSE <<>>

\* A call cut by the token limit is refused; one sequential tool, or the
\* configuration, makes the whole batch sequential.
ModeOf(b, stop) ==
    IF stop = "length" THEN "refused"
    ELSE IF config.sequential \/ "sequential" \in Range(b) THEN "sequential"
    ELSE "parallel"

Begin(b) ==
    /\ call' = [i \in DOMAIN b |-> "waiting"]
    /\ terminating' = {}

\* The message is complete, or the request failed: before or after it was
\* announced, by a cancelled wait, or by an error event that keeps the calls
\* streamed so far.  A failed answer ends the run.
ModelAnswers(b, stop) ==
    /\ phase \in {"request", "answer"}
    /\ stop = "aborted" => cancelled
    /\ b # <<>> => Turn < ToolTurns
    /\ answers' = Append(answers, [calls |-> Len(b), stop |-> stop])
    /\ transcript' = Append(transcript, Answer(Turn + 1))
    /\ events' = events \o Announced \o <<Event("message_end", Answer(Turn + 1))>>
                   \o (IF Failed(stop) THEN <<Event("turn_end", Answer(Turn + 1))>> ELSE <<>>)
    /\ IF Failed(stop)
       THEN /\ phase' = "finish"
            /\ UNCHANGED batchVars
       ELSE /\ phase' = "batch"
            /\ batch' = b
            /\ mode' = ModeOf(b, stop)
            /\ Begin(b)
    /\ UNCHANGED <<config, cancelled, steerVars>>

------------------------------------------------------------------------------
(* The calls of an answer: executeToolBatch and executeToolAfterStart.     *)

ToolEvent(type, i) == Event(type, Result(Turn, i))

\* The calls are announced in source order; a sequential batch announces the
\* next one only when those before it have ended.
NextCall(i) ==
    /\ phase = "batch"
    /\ i \in DOMAIN batch
    /\ call[i] = "waiting"
    /\ \A j \in 1..(i - 1) :
          IF mode = "parallel" THEN call[j] # "waiting" ELSE call[j] = "ended"

\* A call that is not executed still gets a start, an end and a result.
Refuse(i) ==
    /\ NextCall(i)
    /\ mode = "refused" \/ (mode = "sequential" /\ cancelled)
    /\ call' = [call EXCEPT ![i] = "ended"]
    /\ events' = events \o <<ToolEvent("tool_start", i), ToolEvent("tool_end", i)>>
    /\ UNCHANGED <<config, phase, cancelled, answers, batch, mode, terminating, transcript, steerVars>>

Launch(i) ==
    /\ NextCall(i)
    /\ mode = "parallel" \/ (mode = "sequential" /\ ~cancelled)
    /\ call' = [call EXCEPT ![i] = "running"]
    /\ events' = Append(events, ToolEvent("tool_start", i))
    /\ UNCHANGED <<config, phase, cancelled, answers, batch, mode, terminating, transcript, steerVars>>

\* The progress callback: dropped once the tool returned.  The tool may keep
\* it and call it from a goroutine of its own, so also after the batch.
\* One update per call is enough to see where it falls.
UpdateWhile(i, accepting) ==
    /\ i \in DOMAIN batch
    /\ batch[i] # "missing"
    /\ call[i] # "waiting"
    /\ ToolEvent("tool_update", i) \notin Range(events)
    /\ events' = IF accepting THEN Append(events, ToolEvent("tool_update", i)) ELSE events
    /\ UNCHANGED <<config, phase, cancelled, answers, batchVars, transcript, steerVars>>

MutUpdate(i) == UpdateWhile(i, TRUE)
Update(i) == UpdateWhile(i, call[i] = "running")

\* Execute returned: updates are no longer accepted.
ToolReturns(i, terminate) ==
    /\ phase = "batch"
    /\ i \in DOMAIN batch
    /\ batch[i] # "missing"
    /\ call[i] = "running"
    /\ call' = [call EXCEPT ![i] = "returned"]
    /\ terminating' = IF terminate THEN terminating \cup {i} ELSE terminating
    /\ UNCHANGED <<config, phase, cancelled, answers, batch, mode, transcript, events, steerVars>>

\* The end of a call that returned, or that has no tool to run.
EndCallFrom(i, place) ==
    /\ phase = "batch"
    /\ i \in DOMAIN batch
    /\ call[i] = place
    /\ call' = [call EXCEPT ![i] = "ended"]
    /\ events' = Append(events, ToolEvent("tool_end", i))
    /\ UNCHANGED <<config, phase, cancelled, answers, batch, mode, terminating, transcript, steerVars>>

MutEndCall(i) == EndCallFrom(i, "returned")
EndCall(i) == EndCallFrom(i, IF batch[i] = "missing" THEN "running" ELSE "returned")

------------------------------------------------------------------------------
(* The step boundary.                                                      *)

MutResults == IF cancelled THEN <<>> ELSE [i \in DOMAIN batch |-> Result(Turn, i)]
Results == [i \in DOMAIN batch |-> Result(Turn, i)]

\* Every call ended: the results are appended in source order, and the turn is
\* over.  A run without a steering queue has nothing left to decide when it was
\* cancelled.
EndTurn ==
    /\ phase = "batch"
    /\ \A i \in DOMAIN batch : call[i] = "ended"
    /\ transcript' = transcript \o Results
    /\ events' = events \o Said(Results) \o <<Event("turn_end", Answer(Turn))>>
    /\ phase' = IF cancelled THEN "cut" ELSE "boundary"
    /\ UNCHANGED <<config, cancelled, answers, batchVars, steerVars>>

Heard(ks) == [i \in DOMAIN ks |-> Steered(ks[i])]

\* appendSteers.
Hear(ks, after) ==
    /\ transcript' = transcript \o Heard(ks)
    /\ events' = events \o Said(Heard(ks)) \o after

WouldFinish == batch = <<>> \/ terminating = DOMAIN batch

MutFinish ==
    /\ phase = "boundary"
    /\ WouldFinish
    /\ phase' = "finish"
    /\ closed' = config.steering
    /\ UNCHANGED <<config, cancelled, answers, batchVars, transcript, events, queue, admitted>>

\* drainOrClose and drain: with nothing to say and nothing pending the queue is
\* closed, in the critical section that found it empty.
Finish ==
    /\ phase = "boundary"
    /\ WouldFinish
    /\ queue = <<>>
    /\ phase' = "finish"
    /\ closed' = config.steering
    /\ UNCHANGED <<config, cancelled, answers, batchVars, transcript, events, queue, admitted>>

Continue ==
    /\ phase = "boundary"
    /\ WouldFinish => queue # <<>>
    /\ phase' = "request"
    /\ Hear(queue, <<Event("turn_start", Nothing)>>)
    /\ queue' = <<>>
    /\ UNCHANGED <<config, cancelled, answers, batchVars, closed, admitted>>

\* close: the run was cancelled, and what was admitted is kept.
Cut ==
    /\ phase = "cut"
    /\ phase' = "finish"
    /\ Hear(queue, <<>>)
    /\ queue' = <<>>
    /\ closed' = config.steering
    /\ UNCHANGED <<config, cancelled, answers, batchVars, admitted>>

End ==
    /\ phase = "finish"
    /\ phase' = "ended"
    /\ events' = Append(events, Event("agent_end", Nothing))
    /\ UNCHANGED <<config, cancelled, answers, batchVars, transcript, steerVars>>

------------------------------------------------------------------------------
Model == ModelStarts \/ \E b \in Batches, stop \in Stops : ModelAnswers(b, stop)

Calls == 1..Len(batch)
Executing == \E i \in Calls : Refuse(i) \/ Launch(i) \/ EndCall(i)
Returning == \E i \in Calls, t \in BOOLEAN : ToolReturns(i, t)

Run == EndTurn \/ Finish \/ Continue \/ Cut \/ End

Next == \/ Steer \/ Cancel
        \/ Model
        \/ Executing \/ Returning
        \/ \E i \in Calls : Update(i)
        \/ Run

Spec == Init /\ [][Next]_vars

\* Goroutines that can run do; the provider and the tools were given the run's
\* context and answer once it is cancelled, and are owed nothing before that.
FairSpec == /\ Spec
            /\ WF_vars(Run)
            /\ WF_vars(Executing)
            /\ WF_vars(cancelled /\ Model)
            /\ WF_vars(cancelled /\ Returning)

------------------------------------------------------------------------------
(* Properties.                                                             *)

\* Of the steers, those no longer queued are the first ones; a message that is
\* one of them is not the prompt.
HeardCount == admitted - Len(queue)
SteerAt(i) == transcript[i].role = "user" /\ transcript[i].n > 0

SteersInOrder ==
    /\ Len(queue) <= admitted
    /\ \A k \in DOMAIN queue : queue[k] = HeardCount + k
    /\ \A i \in DOMAIN transcript : SteerAt(i) => transcript[i] = Steered(transcript[i].n) /\ transcript[i].n <= HeardCount
    /\ \A k \in 1..HeardCount : \E i \in DOMAIN transcript : transcript[i] = Steered(k)
    /\ \A i, j \in DOMAIN transcript : i < j /\ SteerAt(i) /\ SteerAt(j) => transcript[i].n < transcript[j].n

\* Every admitted steer is in the transcript or still queued, once, in the order
\* it was admitted; nothing is queued behind a closed queue; and a run whose
\* model did not fail ends with an empty queue (steering.go:20-61).
SteersKept ==
    /\ SteersInOrder
    /\ closed => queue = <<>>
    /\ phase = "ended" /\ ~Failed(Last(answers).stop) => queue = <<>>

\* "a successful Push is guaranteed to be observed before the run ends"
\* (steering.go:9-11), of every run.
AdmittedSteerObserved == phase = "ended" => queue = <<>>

\* "the transcript pairs an assistant call with one result" (loop.go:285-287):
\* an answer the loop acted on is followed by the results of its calls, each
\* once and in source order, and by nothing else, whenever a request is sent or
\* the run is over.
ToolOf(m, turn) == m.role = "tool" /\ m.turn = turn
PairedAt(at, turn, n) ==
    /\ \A i \in DOMAIN transcript : (transcript[i] = Answer(turn)) <=> (i = at)
    /\ at + n <= Len(transcript)
    /\ \A i \in 1..n : transcript[at + i] = Result(turn, i)
    /\ \A i \in DOMAIN transcript : ToolOf(transcript[i], turn) => i \in (at + 1)..(at + n)
Paired(turn) == \E at \in DOMAIN transcript : PairedAt(at, turn, answers[turn].calls)

CallsPaired ==
    phase # "batch" => \A turn \in 1..Turn : ~Failed(answers[turn].stop) => Paired(turn)

\* What a consumer assembles from the stream is the transcript: every message
\* is started once, is ended before the next one starts, and ends in order.
MessageEvents == SelectSeq(events, LAMBDA e : e.type \in {"message_start", "message_end"})

MessagesTold ==
    MessageEvents = Said(transcript)
        \o (IF phase = "answer" THEN <<Event("message_start", Answer(Turn + 1))>> ELSE <<>>)

\* Each call has one start, then its updates, then one end, all before the end
\* of its turn, whatever the goroutines of the batch and the callbacks they
\* leaked do; and no call is left open when the run moves on.
Bracket == { <<"tool_start", "tool_end", "turn_end">>,
             <<"tool_start", "tool_update", "tool_end", "turn_end">> }

EventsOfCall(t, i) ==
    LET its  == {Event(k, Result(t, i)) : k \in {"tool_start", "tool_update", "tool_end"}}
                  \cup {Event("turn_end", Answer(t))}
        mine == SelectSeq(events, LAMBDA e : e \in its)
    IN  [k \in DOMAIN mine |-> mine[k].type]

ToolEventsBracketed ==
    \A t \in 1..Turn :
      \A i \in 1..answers[t].calls :
        IF Failed(answers[t].stop) THEN EventsOfCall(t, i) = <<"turn_end">>
        ELSE IF phase = "batch" /\ t = Turn
             THEN \E b \in Bracket : IsPrefix(EventsOfCall(t, i), b)
             ELSE EventsOfCall(t, i) \in Bracket

\* The stream is the whole run (loop.go:151, 334): its messages and its calls.
EventsTellTranscript == MessagesTold /\ ToolEventsBracketed

\* A cancelled run ends: the calls and the request in flight are given their
\* answers, and the loop starts no further turn for ever.
CancelEndsRun == cancelled ~> (phase = "ended")
==============================================================================
