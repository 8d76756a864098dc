----------------------------- MODULE BridgeWire -----------------------------
(***************************************************************************)
(* The wire of one bridge process (pkg/hub/protocol.go and the watcher in   *)
(* bridge.go): calls wait by request id for an answer, their context or the *)
(* end of the output; one goroutine reads the output and hands each line to *)
(* a waiter or to the event buffer; the watcher takes events until the      *)
(* buffer is closed or the process is done.  The bridge answers requests in *)
(* order (ServeBridge), emits events at any time, and may die at any time.  *)
(***************************************************************************)
EXTENDS Naturals, Sequences

CONSTANTS Calls,      \* callers of Call, each once
          MaxEmitted, \* bound: events the bridge emits
          Buffer      \* capacity of the events channel (128)

ASSUME WireAssumption == {MaxEmitted, Buffer} \subseteq Nat

VARIABLES
  call,     \* per caller its point in Call
  id,       \* per caller the id of its request, 0 before
  nextId,
  pending,  \* the ids that have a waiter in p.pending
  waiter,   \* the ids whose waiter channel holds the response
  stdin,    \* ids of the requests the bridge has not read yet
  output,   \* lines the reader has not read: answers by id, events by number
  emitted,  \* number of events the bridge emitted
  alive,    \* the bridge may still write
  buffer,   \* p.events
  reader,   \* the reader: "reading", then events closed, then done closed
  handled,  \* the events that reached onEvent, in order
  watching  \* the watcher did not return yet

wireVars == <<call, id, nextId, pending, waiter, stdin, output, emitted, alive, buffer, reader, handled, watching>>

Answer(n) == [kind |-> "answer", n |-> n]
Emitted(n) == [kind |-> "event", n |-> n]

WireTypeOK ==
  /\ call \in [Calls -> {"none", "registered", "waiting", "answered", "expired", "exited", "refused"}]
  /\ id \in [Calls -> Nat] /\ nextId \in Nat
  /\ pending \subseteq 1..nextId /\ waiter \subseteq 1..nextId
  /\ \A k \in DOMAIN output : output[k] \in [kind : {"answer", "event"}, n : Nat]
  /\ emitted \in 0..MaxEmitted /\ Len(buffer) <= Buffer
  /\ reader \in {"reading", "closed", "done"} /\ watching \in BOOLEAN /\ alive \in BOOLEAN

WireInit ==
  /\ call = [c \in Calls |-> "none"] /\ id = [c \in Calls |-> 0] /\ nextId = 0
  /\ pending = {} /\ waiter = {} /\ stdin = <<>> /\ output = <<>> /\ emitted = 0 /\ alive = TRUE
  /\ buffer = <<>> /\ reader = "reading" /\ handled = <<>> /\ watching = TRUE

----------------------------------------------------------------------------
(* Call: the waiter is registered before the request is written.            *)

Register(c) ==
  /\ call[c] = "none"
  /\ nextId' = nextId + 1
  /\ id' = [id EXCEPT ![c] = nextId + 1]
  /\ pending' = pending \cup {nextId + 1}
  /\ call' = [call EXCEPT ![c] = "registered"]
  /\ UNCHANGED <<waiter, stdin, output, emitted, alive, buffer, reader, handled, watching>>

Write(c) ==
  /\ call[c] = "registered" /\ alive
  /\ stdin' = Append(stdin, id[c])
  /\ call' = [call EXCEPT ![c] = "waiting"]
  /\ UNCHANGED <<id, nextId, pending, waiter, output, emitted, alive, buffer, reader, handled, watching>>

\* Each way out of Call drops the waiter.
Leave(c, outcome) ==
  /\ call' = [call EXCEPT ![c] = outcome]
  /\ pending' = pending \ {id[c]}

WriteFails(c) ==
  /\ call[c] = "registered" /\ ~alive
  /\ Leave(c, "refused")
  /\ UNCHANGED <<id, nextId, waiter, stdin, output, emitted, alive, buffer, reader, handled, watching>>

\* The select takes any branch that is ready.
Answered(c) ==
  /\ call[c] = "waiting" /\ id[c] \in waiter
  /\ Leave(c, "answered")
  /\ waiter' = waiter \ {id[c]}
  /\ UNCHANGED <<id, nextId, stdin, output, emitted, alive, buffer, reader, handled, watching>>

Expired(c) ==
  /\ call[c] = "waiting"
  /\ Leave(c, "expired")
  /\ UNCHANGED <<id, nextId, waiter, stdin, output, emitted, alive, buffer, reader, handled, watching>>

Exited(c) ==
  /\ call[c] = "waiting" /\ reader = "done"
  /\ Leave(c, "exited")
  /\ UNCHANGED <<id, nextId, waiter, stdin, output, emitted, alive, buffer, reader, handled, watching>>

----------------------------------------------------------------------------
(* The bridge.                                                              *)

Serve ==
  /\ alive /\ stdin # <<>>
  /\ output' = Append(output, Answer(Head(stdin)))
  /\ stdin' = Tail(stdin)
  /\ UNCHANGED <<call, id, nextId, pending, waiter, emitted, alive, buffer, reader, handled, watching>>

Emit ==
  /\ alive /\ emitted < MaxEmitted
  /\ emitted' = emitted + 1
  /\ output' = Append(output, Emitted(emitted + 1))
  /\ UNCHANGED <<call, id, nextId, pending, waiter, stdin, alive, buffer, reader, handled, watching>>

\* It exits or is killed; Wait may close the pipe on the lines not yet read.
Die ==
  /\ alive
  /\ alive' = FALSE
  /\ \E k \in 0..Len(output) : output' = SubSeq(output, 1, k)
  /\ UNCHANGED <<call, id, nextId, pending, waiter, stdin, emitted, buffer, reader, handled, watching>>

----------------------------------------------------------------------------
(* The reader.                                                              *)

MutReadAnswer ==
  /\ reader = "reading" /\ output # <<>> /\ Head(output).kind = "answer"
  /\ output' = Tail(output)
  /\ waiter' = waiter \cup {Head(output).n}
  /\ UNCHANGED <<call, id, nextId, pending, stdin, emitted, alive, buffer, reader, handled, watching>>

\* An answer nobody waits for any more is dropped.
ReadAnswer ==
  /\ reader = "reading" /\ output # <<>> /\ Head(output).kind = "answer"
  /\ output' = Tail(output)
  /\ pending' = pending \ {Head(output).n}
  /\ waiter' = waiter \cup ({Head(output).n} \cap pending)
  /\ UNCHANGED <<call, id, nextId, stdin, emitted, alive, buffer, reader, handled, watching>>

MutReadEvent ==
  /\ reader = "reading" /\ output # <<>> /\ Head(output).kind = "event"
  /\ output' = Tail(output)
  /\ buffer' = IF Len(buffer) <= Buffer THEN Append(buffer, Head(output).n) ELSE buffer
  /\ UNCHANGED <<call, id, nextId, pending, waiter, stdin, emitted, alive, reader, handled, watching>>

\* An event that finds the buffer full is dropped.
ReadEvent ==
  /\ reader = "reading" /\ output # <<>> /\ Head(output).kind = "event"
  /\ output' = Tail(output)
  /\ buffer' = IF Len(buffer) < Buffer THEN Append(buffer, Head(output).n) ELSE buffer
  /\ UNCHANGED <<call, id, nextId, pending, waiter, stdin, emitted, alive, reader, handled, watching>>

\* The deferred closes: the events first, then done.
ReaderEnds ==
  /\ \/ reader = "reading" /\ ~alive /\ output = <<>> /\ reader' = "closed"
     \/ reader = "closed" /\ reader' = "done"
  /\ UNCHANGED <<call, id, nextId, pending, waiter, stdin, output, emitted, alive, buffer, handled, watching>>

----------------------------------------------------------------------------
(* The watcher.                                                             *)

Handle ==
  /\ watching /\ buffer # <<>>
  /\ handled' = Append(handled, Head(buffer))
  /\ buffer' = Tail(buffer)
  /\ UNCHANGED <<call, id, nextId, pending, waiter, stdin, output, emitted, alive, reader, watching>>

\* The closed and drained buffer, or Done, which may win over events still there.
WatchEnds ==
  /\ watching
  /\ reader = "done" \/ (reader = "closed" /\ buffer = <<>>)
  /\ watching' = FALSE
  /\ UNCHANGED <<call, id, nextId, pending, waiter, stdin, output, emitted, alive, buffer, reader, handled>>

WireNext ==
  \/ \E c \in Calls : Register(c) \/ Write(c) \/ WriteFails(c) \/ Answered(c) \/ Expired(c) \/ Exited(c)
  \/ Serve \/ Emit \/ Die \/ ReadAnswer \/ ReadEvent \/ ReaderEnds \/ Handle \/ WatchEnds

WireSpec == WireInit /\ [][WireNext]_wireVars

----------------------------------------------------------------------------
\* "Every return path drops the waiter" (protocol.go:337), whichever of answer,
\* deadline and end comes first: the table holds exactly the calls still in flight
\* whose answer was not read, each answer that was read is for one call and is still
\* there for it, and events reach the hub in the order they were emitted, once.
CallsAndEventsPaired ==
  /\ \A n \in pending : \E c \in Calls : id[c] = n /\ call[c] \in {"registered", "waiting"} /\ n \notin waiter
  /\ \A c \in Calls : call[c] = "waiting" =>
       \/ id[c] \in pending
       \/ id[c] \in waiter
  /\ \A k, l \in DOMAIN handled : k < l => handled[k] < handled[l]
  /\ \A k \in DOMAIN handled, l \in DOMAIN buffer : handled[k] < buffer[l]
=============================================================================
