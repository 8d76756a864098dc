----------------------------- MODULE EventStream -----------------------------
(***************************************************************************)
(* pkg/ai/stream.go: the event queue between a producer (a provider's HTTP *)
(* goroutine, the agent loop) and whoever consumes a run (the chat, the    *)
(* TUI, a delegated task).                                                 *)
(*                                                                         *)
(* s.mu serialises every access, so one critical section is one action.    *)
(* Between two critical sections a goroutine is in a select on the channel *)
(* it captured under the lock ("parked"); once that channel is closed it   *)
(* is "woken" and takes the lock again.  A channel is created only when    *)
(* the field is nil and a close always sets the field to nil, so all the   *)
(* goroutines parked since the last close share one channel: the field is  *)
(* the Boolean "an open channel exists", and closing it wakes them all.    *)
(***************************************************************************)
EXTENDS Integers, Sequences

CONSTANTS Deltas,     \* events that do not end the stream
          Messages,   \* the messages a terminal event can carry
          NoMessage,  \* a terminal event whose message is nil
          ErrorMessage, \* the StopError message that stands in for nil
          NoResult,   \* R's zero value: no result yet
          Zero,       \* T's zero value, left in a slot that was read
          Readers,    \* goroutines calling Next (one in this program)
          Waiters,    \* goroutines calling Result
          MaxEvents   \* bound: events accepted in one behaviour

ASSUME StreamAssumption ==
    /\ ErrorMessage \notin Deltas
    /\ NoMessage \notin Deltas
    /\ Deltas \cap Messages = {}
    /\ NoResult \notin Messages \cup {ErrorMessage}
    /\ Zero \notin Deltas \cup Messages \cup {NoMessage}

Events  == Deltas \cup Messages \cup {NoMessage}
Results == Messages \cup {ErrorMessage}

\* The function NewAssistantStream passes to NewEventStream as complete.
Terminal(e) == e \notin Deltas
MutResultOf(e) == e
ResultOf(e) == IF e = NoMessage THEN ErrorMessage ELSE e

VARIABLES
    queue,         \* s.queue, the slots already read included
    head,          \* s.head: how many slots of queue were read
    done,          \* s.done
    changed,       \* s.changed # nil
    resultReady,   \* s.resultReady
    result,        \* s.result
    resultChanged, \* s.resultChanged # nil
    reader,        \* where each goroutine in Next is
    waiter,        \* where each goroutine in Result is
    accepted,      \* history: the events Push enqueued
    delivered      \* history: the events Next returned

streamVars == <<queue, head, done, changed, resultReady, result, resultChanged>>
vars == <<streamVars, reader, waiter, accepted, delivered>>

Places == {"running", "parked", "woken", "ended"}

Init ==
    /\ queue = <<>>
    /\ head = 0
    /\ done = FALSE
    /\ changed = TRUE
    /\ resultReady = FALSE
    /\ result = NoResult
    /\ resultChanged = TRUE
    /\ reader = [r \in Readers |-> "running"]
    /\ waiter = [w \in Waiters |-> "running"]
    /\ accepted = <<>>
    /\ delivered = <<>>

------------------------------------------------------------------------------
(* The producer.                                                           *)

\* Everyone parked on a channel that closes is woken.
Wake(place) == [g \in DOMAIN place |-> IF place[g] = "parked" THEN "woken" ELSE place[g]]

\* signalChangedLocked: nothing to close when nobody waited since the last close.
SignalChanged ==
    /\ reader' = IF changed THEN Wake(reader) ELSE reader
    /\ changed' = FALSE

SignalResult ==
    /\ waiter' = IF resultChanged THEN Wake(waiter) ELSE waiter
    /\ resultChanged' = FALSE

Resolve(r) ==
    /\ resultReady' = TRUE
    /\ result' = r
    /\ SignalResult

KeepResult == UNCHANGED <<resultReady, result, resultChanged, waiter>>

Enqueue(e) ==
    /\ Len(accepted) < MaxEvents
    /\ queue' = Append(queue, e)
    /\ accepted' = Append(accepted, e)
    /\ done' = (done \/ Terminal(e))
    /\ IF Terminal(e) THEN Resolve(ResultOf(e)) ELSE KeepResult
    /\ SignalChanged
    /\ UNCHANGED <<head, delivered>>

MutPushAfterDone(e) == Enqueue(e)

Push(e) == IF done THEN UNCHANGED vars ELSE Enqueue(e)

Finish(r) ==
    /\ done' = TRUE
    /\ IF r # NoResult /\ ~resultReady THEN Resolve(r) ELSE KeepResult
    /\ SignalChanged
    /\ UNCHANGED <<accepted, delivered>>

MutEndDropsQueue(r) == Finish(r) /\ queue' = <<>> /\ head' = 0

\* End(result): NoResult stands for a nil pointer.
End(r) == Finish(r) /\ UNCHANGED <<queue, head>>

------------------------------------------------------------------------------
(* The consumer.                                                           *)

\* A goroutine about to take s.mu inside Next or Result.
Locking(place) == place \in {"running", "woken"}

Read(r, drainedHead) ==
    /\ Locking(reader[r])
    /\ head < Len(queue)
    /\ delivered' = Append(delivered, queue[head + 1])
    /\ IF head + 1 = Len(queue)
       THEN queue' = <<>> /\ head' = drainedHead
       ELSE queue' = [queue EXCEPT ![head + 1] = Zero] /\ head' = head + 1
    /\ reader' = [reader EXCEPT ![r] = "running"]
    /\ UNCHANGED <<done, changed, resultReady, result, resultChanged, waiter, accepted>>

MutNextKeepsHead(r) == Read(r, head + 1)

\* Next finds an event: it empties the slot and, at the last slot, the slice.
NextEvent(r) == Read(r, 0)

\* Next finds a drained stream that ended: ok is false and the caller stops.
NextEnded(r) ==
    /\ Locking(reader[r])
    /\ head = Len(queue)
    /\ done
    /\ reader' = [reader EXCEPT ![r] = "ended"]
    /\ UNCHANGED <<streamVars, waiter, accepted, delivered>>

MutParkWithoutChannel(r) ==
    /\ Locking(reader[r])
    /\ head = Len(queue)
    /\ ~done
    /\ reader' = [reader EXCEPT ![r] = "parked"]
    /\ UNCHANGED <<streamVars, waiter, accepted, delivered>>

\* Next finds nothing: it makes a channel if there is none, and waits on it.
NextParks(r) ==
    /\ Locking(reader[r])
    /\ head = Len(queue)
    /\ ~done
    /\ changed' = TRUE
    /\ reader' = [reader EXCEPT ![r] = "parked"]
    /\ UNCHANGED <<queue, head, done, resultReady, result, resultChanged, waiter,
                   accepted, delivered>>

\* Next's context is cancelled.  With the channel closed as well, the select
\* may choose either; the caller may call Next again with another context.
NextCancelled(r) ==
    /\ reader[r] \in {"parked", "woken"}
    /\ reader' = [reader EXCEPT ![r] = "running"]
    /\ UNCHANGED <<streamVars, waiter, accepted, delivered>>

ResultReturns(w) ==
    /\ Locking(waiter[w])
    /\ resultReady
    /\ waiter' = [waiter EXCEPT ![w] = "ended"]
    /\ UNCHANGED <<streamVars, reader, accepted, delivered>>

ResultParks(w) ==
    /\ Locking(waiter[w])
    /\ ~resultReady
    /\ resultChanged' = TRUE
    /\ waiter' = [waiter EXCEPT ![w] = "parked"]
    /\ UNCHANGED <<queue, head, done, changed, resultReady, result, reader,
                   accepted, delivered>>

ResultCancelled(w) ==
    /\ waiter[w] \in {"parked", "woken"}
    /\ waiter' = [waiter EXCEPT ![w] = "running"]
    /\ UNCHANGED <<streamVars, reader, accepted, delivered>>

------------------------------------------------------------------------------
NextStep(r)   == NextEvent(r) \/ NextEnded(r) \/ NextParks(r)
ResultStep(w) == ResultReturns(w) \/ ResultParks(w)

Next == \/ \E e \in Events : Push(e)
        \/ \E r \in Results \cup {NoResult} : End(r)
        \/ \E r \in Readers : NextStep(r) \/ NextCancelled(r)
        \/ \E w \in Waiters : ResultStep(w) \/ ResultCancelled(w)

Spec == Init /\ [][Next]_vars

\* A consumer loop keeps calling Next until the stream ends, and a goroutine
\* that is runnable runs.  Nothing makes a producer produce.
FairSpec == /\ Spec
            /\ \A r \in Readers : WF_vars(NextStep(r))
            /\ \A w \in Waiters : WF_vars(ResultStep(w))

------------------------------------------------------------------------------
(* Properties.                                                             *)

TypeOK ==
    /\ queue \in Seq(Events \cup {Zero})
    /\ head \in Nat
    /\ done \in BOOLEAN
    /\ changed \in BOOLEAN
    /\ resultReady \in BOOLEAN
    /\ result \in Results \cup {NoResult}
    /\ resultChanged \in BOOLEAN
    /\ reader \in [Readers -> Places]
    /\ waiter \in [Waiters -> Places]
    /\ accepted \in Seq(Events)
    /\ delivered \in Seq(Events)

\* The slots Next has not read, whatever the slice's reuse did to indices.
Unread == SubSeq(queue, head + 1, Len(queue))

\* FIFO across the slot reuse of stream.go:81-88: what was accepted is what was
\* returned followed by what is still queued, so nothing is lost, repeated,
\* reordered or returned as an emptied slot.
DeliveredThenUnread == accepted = delivered \o Unread

\* A goroutine waits in Next or Result only while there is nothing for it to do
\* and a channel exists that the Push or End which changes that will close
\* (stream.go:94-103, 119-128, 136-150).
NoLostWakeup ==
    /\ \A r \in Readers : reader[r] = "parked" => changed /\ ~done /\ head = Len(queue)
    /\ \A w \in Waiters : waiter[w] = "parked" => resultChanged /\ ~resultReady

\* "A terminal event ends the stream after being enqueued and resolves Result":
\* nothing follows it, and its message is the result whatever End was given.
TerminalIsLastAndDecides ==
    \A i \in 1..Len(accepted) :
        Terminal(accepted[i]) => /\ i = Len(accepted)
                                 /\ done
                                 /\ resultReady
                                 /\ result = ResultOf(accepted[i])

\* The stream implements the abstract log.
Fifo == INSTANCE EventFifo WITH
            Ends <- Terminal, OutcomeOf <- ResultOf, Outcomes <- Results,
            NoOutcome <- NoResult, pending <- Unread, taken <- delivered,
            closed <- done, outcome <- result

\* The stream implements the log and the fairness of a reader that keeps
\* reading: whatever is accepted is delivered, however pushes, cancelled waits
\* and the reader's parking interleave, and the outcome is decided once.
ImplementsFifo == Fifo!LiveSpec
==============================================================================
