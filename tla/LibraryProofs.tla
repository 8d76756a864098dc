---------------------------- MODULE LibraryProofs ---------------------------
(***************************************************************************)
(* Proofs about the event stream (EventStream) and its refinement of a     *)
(* FIFO, the secret store (VaultFile), the hub's registry (HubRegistry) and *)
(* the terminal (TerminalSession), for any events, readers, waiters,        *)
(* clients, titles, bridges, sessions and bounds.                           *)
(***************************************************************************)
EXTENDS EventStream, VaultFile, HubRegistry, TerminalSession, SequenceTheorems, TLAPS

-----------------------------------------------------------------------------
(* The event stream (pkg/ai).                                               *)
\* The slice's shape: head never passes the end, a drained slice is the empty
\* one, and the slots that were not read hold events.
SliceShape ==
    /\ head <= Len(queue)
    /\ head = Len(queue) => queue = <<>>
    /\ \A i \in (head + 1)..Len(queue) : queue[i] \in Events

\* There is a result exactly when it is marked ready, and only after the end.
ResultShape ==
    /\ resultReady => done
    /\ resultReady <=> result # NoResult

\* Everyone parked waits on a channel that is still open and for something
\* that has not happened.
NoLostNext ==
    \A r \in Readers : reader[r] = "parked" => changed /\ ~done /\ head = Len(queue)

NoLostResult ==
    \A w \in Waiters : waiter[w] = "parked" => resultChanged /\ ~resultReady

WaitShape == NoLostNext /\ NoLostResult

\* A goroutine told that the stream ended had been given everything
\* (stream.go:90-93): iteration never stops short of the terminal event.
EndedAfterEverything ==
    \A r \in Readers : reader[r] = "ended" => done /\ delivered = accepted

IInv == /\ TypeOK
        /\ SliceShape
        /\ ResultShape
        /\ WaitShape
        /\ DeliveredThenUnread
        /\ TerminalIsLastAndDecides
        /\ EndedAfterEverything

\* A terminal event has a result, which is a real one.
LEMMA ResultOfTerminal == \A e \in Events : Terminal(e) => ResultOf(e) \in Results
  BY DEF Events, Terminal, ResultOf, Results

LEMMA NoResultIsNone == NoResult \notin Results
  BY StreamAssumption DEF Results

\* Waking moves the parked goroutines and nobody else.
LEMMA WakeTyped ==
  ASSUME NEW S, NEW place \in [S -> Places]
  PROVE  /\ Wake(place) \in [S -> Places]
         /\ \A g \in S : Wake(place)[g] # "parked"
         /\ \A g \in S : Wake(place)[g] = "ended" => place[g] = "ended"
  BY DEF Wake, Places

\* What a slot of the slice can hold.
Slots == Events \cup {Zero}

\* Unread events after one more is appended.
LEMMA UnreadAppend ==
  ASSUME NEW q \in Seq(Slots), NEW h \in Nat, h <= Len(q),
         \A i \in (h + 1)..Len(q) : q[i] \in Events, NEW e \in Events, e \in Slots
  PROVE  /\ SubSeq(q, h + 1, Len(q)) \in Seq(Events)
         /\ SubSeq(Append(q, e), h + 1, Len(Append(q, e))) = Append(SubSeq(q, h + 1, Len(q)), e)
<1> DEFINE u == SubSeq(q, h + 1, Len(q))
           v == SubSeq(Append(q, e), h + 1, Len(Append(q, e)))
<1> HIDE DEF u, v
<1>1. /\ Len(q) \in Nat
      /\ Append(q, e) \in Seq(Slots)
      /\ Len(Append(q, e)) = Len(q) + 1
      /\ \A i \in 1..Len(q) : Append(q, e)[i] = q[i]
      /\ Append(q, e)[Len(q) + 1] = e
  BY AppendProperties, LenProperties
<1>2. /\ u \in Seq(Events)
      /\ Len(u) = Len(q) - h
      /\ \A i \in 1..(Len(q) - h) : u[i] = q[h + i]
  <2>1. h + 1 \in Int /\ Len(q) \in Int
    BY <1>1
  <2>2. /\ u \in Seq(Events)
        /\ Len(u) = IF h + 1 <= Len(q) THEN Len(q) - (h + 1) + 1 ELSE 0
        /\ \A i \in 1..(Len(q) - (h + 1) + 1) : u[i] = q[(h + 1) + i - 1]
    BY <2>1, SubSeqProperties DEF u
  <2> QED BY <2>2, <1>1
<1>3. /\ v \in Seq(Events)
      /\ Len(v) = Len(q) + 1 - h
      /\ \A i \in 1..(Len(q) + 1 - h) : v[i] = Append(q, e)[h + i]
  <2>1. h + 1 \in Int /\ Len(Append(q, e)) \in Int
    BY <1>1
  <2>2. \A i \in (h + 1)..Len(Append(q, e)) : Append(q, e)[i] \in Events
    BY <1>1
  <2>3. /\ v \in Seq(Events)
        /\ Len(v) = IF h + 1 <= Len(Append(q, e)) THEN Len(Append(q, e)) - (h + 1) + 1 ELSE 0
        /\ \A i \in 1..(Len(Append(q, e)) - (h + 1) + 1) : v[i] = Append(q, e)[(h + 1) + i - 1]
    BY <2>1, <2>2, SubSeqProperties DEF v
  <2>4. Len(v) = Len(q) + 1 - h
    BY <2>3, <1>1
  <2>5. ASSUME NEW i \in 1..(Len(q) + 1 - h) PROVE v[i] = Append(q, e)[h + i]
    <3>1. i \in 1..(Len(Append(q, e)) - (h + 1) + 1)
      BY <1>1
    <3>2. (h + 1) + i - 1 = h + i
      OBVIOUS
    <3> QED BY <3>1, <3>2, <2>3
  <2> QED BY <2>3, <2>4, <2>5
<1>4. /\ Append(u, e) \in Seq(Events)
      /\ Len(Append(u, e)) = Len(u) + 1
      /\ \A i \in 1..Len(u) : Append(u, e)[i] = u[i]
      /\ Append(u, e)[Len(u) + 1] = e
  BY <1>2, AppendProperties
<1>5. \A i \in 1..Len(v) : v[i] = Append(u, e)[i]
  <2> SUFFICES ASSUME NEW i \in 1..Len(v) PROVE v[i] = Append(u, e)[i]
    OBVIOUS
  <2>1. CASE i <= Len(u)
    <3>1. i \in 1..Len(u) /\ i \in 1..(Len(q) - h) /\ h + i \in 1..Len(q)
      BY <2>1, <1>1, <1>2, <1>3
    <3> QED BY <3>1, <1>1, <1>2, <1>3, <1>4
  <2>2. CASE i = Len(u) + 1
    <3>1. h + i = Len(q) + 1
      BY <2>2, <1>1, <1>2
    <3> QED BY <3>1, <2>2, <1>1, <1>2, <1>3, <1>4
  <2>3. Len(v) = Len(u) + 1 /\ Len(u) \in Nat
    BY <1>1, <1>2, <1>3
  <2>4. i <= Len(u) \/ i = Len(u) + 1
    BY <2>3
  <2> QED BY <2>1, <2>2, <2>4
<1>6. v = Append(u, e)
  <2>1. Len(v) = Len(Append(u, e))
    BY <1>1, <1>2, <1>3, <1>4
  <2> QED BY <2>1, <1>3, <1>4, <1>5, SeqEqual
<1> QED BY <1>2, <1>6 DEF u, v

\* Unread events after the first of them is read and its slot emptied.
LEMMA UnreadPop ==
  ASSUME NEW q \in Seq(Slots), NEW h \in Nat, h < Len(q),
         \A i \in (h + 1)..Len(q) : q[i] \in Events, NEW z \in Slots
  PROVE  LET p == [q EXCEPT ![h + 1] = z] IN
         /\ p \in Seq(Slots)
         /\ Len(p) = Len(q)
         /\ \A i \in (h + 2)..Len(q) : p[i] = q[i]
         /\ SubSeq(q, h + 1, Len(q)) # <<>>
         /\ q[h + 1] = Head(SubSeq(q, h + 1, Len(q)))
         /\ SubSeq(p, h + 2, Len(p)) = Tail(SubSeq(q, h + 1, Len(q)))
         /\ SubSeq(q, h + 2, Len(q)) \in Seq(Events)
         /\ SubSeq(q, h + 1, Len(q)) = <<q[h + 1]>> \o SubSeq(q, h + 2, Len(q))
<1> DEFINE p == [q EXCEPT ![h + 1] = z]
           v == SubSeq(q, h + 2, Len(q))
           w == SubSeq(p, h + 2, Len(p))
<1>1. Len(q) \in Nat /\ h + 1 \in 1..Len(q) /\ Len(q) \in (h + 1)..Len(q)
  BY LenProperties
<1>2. /\ p \in Seq(Slots)
      /\ Len(p) = Len(q)
      /\ \A j \in 1..Len(q) : p[j] = IF j = h + 1 THEN z ELSE q[j]
  BY <1>1, ExceptSeq
<1>3. \A i \in (h + 2)..Len(q) : p[i] = q[i] /\ p[i] \in Events /\ q[i] \in Events
  <2> HIDE DEF p
  <2> QED BY <1>1, <1>2
<1>4. /\ v \in Seq(Events)
      /\ Len(v) = IF h + 2 <= Len(q) THEN Len(q) - (h + 2) + 1 ELSE 0
      /\ \A i \in 1..(Len(q) - (h + 2) + 1) : v[i] = q[(h + 2) + i - 1]
  <2>1. h + 2 \in Int /\ Len(q) \in Int
    BY <1>1
  <2> HIDE DEF p
  <2> QED BY <2>1, <1>3, SubSeqProperties
<1>5. /\ w \in Seq(Events)
      /\ Len(w) = IF h + 2 <= Len(q) THEN Len(q) - (h + 2) + 1 ELSE 0
      /\ \A i \in 1..(Len(q) - (h + 2) + 1) : w[i] = p[(h + 2) + i - 1]
  <2>1. h + 2 \in Int /\ Len(p) \in Int
    BY <1>1, <1>2
  <2> HIDE DEF p
  <2>2. \A i \in (h + 2)..Len(p) : p[i] \in Events
    BY <1>2, <1>3
  <2>3. /\ w \in Seq(Events)
        /\ Len(w) = IF h + 2 <= Len(p) THEN Len(p) - (h + 2) + 1 ELSE 0
        /\ \A i \in 1..(Len(p) - (h + 2) + 1) : w[i] = p[(h + 2) + i - 1]
    BY <2>1, <2>2, SubSeqProperties
  <2> QED BY <2>3, <1>2
<1>6. w = v
  <2> HIDE DEF p, v, w
  <2>1. ASSUME NEW i \in 1..Len(v) PROVE w[i] = v[i]
    <3>1. i \in 1..(Len(q) - (h + 2) + 1) /\ (h + 2) + i - 1 \in (h + 2)..Len(q)
      BY <1>1, <1>4
    <3> QED BY <3>1, <1>3, <1>4, <1>5
  <2>2. Len(w) = Len(v)
    BY <1>4, <1>5
  <2> QED BY <2>1, <2>2, <1>4, <1>5, SeqEqual
<1>7. /\ Head(SubSeq(q, h + 1, Len(q))) = q[h + 1]
      /\ Tail(SubSeq(q, h + 1, Len(q))) = SubSeq(q, (h + 1) + 1, Len(q))
      /\ SubSeq(q, h + 1, Len(q)) = <<q[h + 1]>> \o SubSeq(q, (h + 1) + 1, Len(q))
  BY <1>1, HeadTailOfSubSeq, SubSeqRecursiveFirst
<1>8. (h + 1) + 1 = h + 2
  OBVIOUS
<1>9. SubSeq(q, h + 1, Len(q)) # <<>>
  <2>1. /\ Len(SubSeq(q, h + 1, Len(q))) = Len(q) - (h + 1) + 1
    <3>1. h + 1 \in Int /\ Len(q) \in Int /\ h + 1 <= Len(q)
      BY <1>1
    <3> QED BY <3>1, SubSeqProperties
  <2>2. Len(<<>>) = 0
    OBVIOUS
  <2>3. Len(SubSeq(q, h + 1, Len(q))) # 0
    BY <2>1, <1>1
  <2> QED BY <2>2, <2>3
<1> QED BY <1>2, <1>3, <1>4, <1>6, <1>7, <1>8, <1>9

\* Appending to the end of a concatenation.
LEMMA ConcatAppend ==
  ASSUME NEW s \in Seq(Events), NEW t \in Seq(Events), NEW e \in Events
  PROVE  Append(s \o t, e) = s \o Append(t, e)
<1>1. s \o t \in Seq(Events) /\ <<e>> \in Seq(Events)
  BY ConcatProperties
<1>2. Append(s \o t, e) = (s \o t) \o <<e>>
  BY <1>1, AppendIsConcat
<1>3. Append(t, e) = t \o <<e>>
  BY AppendIsConcat
<1>4. (s \o t) \o <<e>> = s \o (t \o <<e>>)
  BY <1>1, ConcatAssociative
<1> QED BY <1>2, <1>3, <1>4

\* Moving the first of the second sequence to the end of the first.
LEMMA ConcatMove ==
  ASSUME NEW s \in Seq(Events), NEW t \in Seq(Events), NEW e \in Events
  PROVE  s \o (<<e>> \o t) = Append(s, e) \o t
<1>1. <<e>> \in Seq(Events)
  OBVIOUS
<1>2. Append(s, e) = s \o <<e>>
  BY AppendIsConcat
<1>3. (s \o <<e>>) \o t = s \o (<<e>> \o t)
  BY <1>1, ConcatAssociative
<1> QED BY <1>2, <1>3

\* After a signal nobody waits in Next: the channel they shared was open.
LEMMA Signalled ==
  ASSUME TypeOK, NoLostNext, SignalChanged
  PROVE  /\ reader' \in [Readers -> Places]
         /\ changed' = FALSE
         /\ \A r \in Readers : reader'[r] # "parked"
         /\ \A r \in Readers : reader'[r] = "ended" => reader[r] = "ended"
<1>1. reader \in [Readers -> Places]
  BY DEF TypeOK
<1>2. changed' = FALSE
  BY DEF SignalChanged
<1>3. CASE changed
  <2>1. reader' = Wake(reader)
    BY <1>3 DEF SignalChanged
  <2> QED BY <1>1, <1>2, <2>1, WakeTyped
<1>4. CASE ~changed
  <2>1. reader' = reader
    BY <1>4 DEF SignalChanged
  <2>2. \A r \in Readers : reader[r] # "parked"
    BY <1>4 DEF NoLostNext
  <2> QED BY <1>1, <1>2, <2>1, <2>2
<1> QED BY <1>3, <1>4

\* After the result is decided nobody waits in Result.
LEMMA Resolved ==
  ASSUME TypeOK, NoLostResult, NEW r, Resolve(r)
  PROVE  /\ waiter' \in [Waiters -> Places]
         /\ resultChanged' = FALSE
         /\ resultReady' = TRUE
         /\ result' = r
         /\ \A w \in Waiters : waiter'[w] # "parked"
<1>1. waiter \in [Waiters -> Places]
  BY DEF TypeOK
<1>2. resultChanged' = FALSE /\ resultReady' = TRUE /\ result' = r
  BY DEF Resolve, SignalResult
<1>3. CASE resultChanged
  <2>1. waiter' = Wake(waiter)
    BY <1>3 DEF Resolve, SignalResult
  <2> QED BY <1>1, <1>2, <2>1, WakeTyped
<1>4. CASE ~resultChanged
  <2>1. waiter' = waiter
    BY <1>4 DEF Resolve, SignalResult
  <2>2. \A w \in Waiters : waiter[w] # "parked"
    BY <1>4 DEF NoLostResult
  <2> QED BY <1>1, <1>2, <2>1, <2>2
<1> QED BY <1>3, <1>4

\* What a Push or an End does to the result, if the decision rests on t.
LEMMA ResultHalf ==
  ASSUME TypeOK, NoLostResult, NEW t \in BOOLEAN, NEW r,
         t => Resolve(r), ~t => KeepResult
  PROVE  /\ waiter' \in [Waiters -> Places]
         /\ resultChanged' \in BOOLEAN
         /\ resultReady' = (t \/ resultReady)
         /\ result' = IF t THEN r ELSE result
         /\ NoLostResult'
<1>1. CASE t
  BY <1>1, Resolved DEF NoLostResult
<1>2. CASE ~t
  BY <1>2 DEF KeepResult, TypeOK, NoLostResult
<1> QED BY <1>1, <1>2

------------------------------------------------------------------------------
\* The initial state satisfies the invariant.
LEMMA InvInit == Init => IInv
<1> SUFFICES ASSUME Init PROVE IInv
  OBVIOUS
<1>1. Len(<<>>) = 0 /\ <<>> \in Seq(Events \cup {Zero}) /\ <<>> \in Seq(Events)
  OBVIOUS
<1>2. TypeOK
  BY <1>1 DEF Init, TypeOK, Places
<1>3. SliceShape
  BY <1>1 DEF Init, SliceShape
<1>4. ResultShape /\ WaitShape
  BY DEF Init, ResultShape, WaitShape, NoLostNext, NoLostResult
<1>5. DeliveredThenUnread
  <2>1. SubSeq(<<>>, 1, 0) = <<>>
    BY SubSeqEmpty
  <2>2. <<>> \o <<>> = <<>>
    BY <1>1, ConcatEmptySeq
  <2> QED BY <1>1, <2>1, <2>2 DEF Init, DeliveredThenUnread, Unread
<1>6. TerminalIsLastAndDecides
  BY <1>1 DEF Init, TerminalIsLastAndDecides
<1>7. EndedAfterEverything
  BY DEF Init, EndedAfterEverything
<1> QED BY <1>2, <1>3, <1>4, <1>5, <1>6, <1>7 DEF IInv

\* Accepting an event.
LEMMA InvPush ==
  ASSUME IInv, NEW e \in Events, Push(e)
  PROVE  IInv'
<1>0. /\ TypeOK /\ SliceShape /\ ResultShape /\ WaitShape
      /\ DeliveredThenUnread /\ TerminalIsLastAndDecides /\ EndedAfterEverything
      /\ NoLostNext /\ NoLostResult
  BY DEF IInv, WaitShape
<1>1. CASE done
  BY <1>0, <1>1 DEF IInv, Push, vars, streamVars, TypeOK, SliceShape, ResultShape, WaitShape,
     NoLostNext, NoLostResult, DeliveredThenUnread, Unread,
     TerminalIsLastAndDecides, EndedAfterEverything
<1>2. CASE ~done
  <2>1. /\ queue' = Append(queue, e)
        /\ accepted' = Append(accepted, e)
        /\ done' = Terminal(e)
        /\ head' = head
        /\ delivered' = delivered
        /\ SignalChanged
        /\ Terminal(e) => Resolve(ResultOf(e))
        /\ ~Terminal(e) => KeepResult
    BY <1>0, <1>2 DEF Push, Enqueue, TypeOK, Terminal
  <2>2. /\ Len(queue) \in Nat
        /\ queue' \in Seq(Events \cup {Zero})
        /\ Len(queue') = Len(queue) + 1
        /\ \A i \in 1..Len(queue) : queue'[i] = queue[i]
        /\ queue'[Len(queue) + 1] = e
    <3>1. queue \in Seq(Events \cup {Zero}) /\ e \in Events \cup {Zero}
      BY <1>0 DEF TypeOK
    <3> QED BY <2>1, <3>1, AppendProperties, LenProperties
  <2>3. /\ Len(accepted) \in Nat
        /\ accepted' \in Seq(Events)
        /\ Len(accepted') = Len(accepted) + 1
        /\ \A i \in 1..Len(accepted) : accepted'[i] = accepted[i]
        /\ accepted'[Len(accepted) + 1] = e
    <3>1. accepted \in Seq(Events)
      BY <1>0 DEF TypeOK
    <3> QED BY <2>1, <3>1, AppendProperties, LenProperties
  <2>4. result = NoResult /\ resultReady = FALSE
    BY <1>0, <1>2 DEF ResultShape, TypeOK
  <2>5. /\ reader' \in [Readers -> Places]
        /\ changed' = FALSE
        /\ \A r \in Readers : reader'[r] # "parked"
        /\ \A r \in Readers : reader'[r] = "ended" => reader[r] = "ended"
    BY <1>0, <2>1, Signalled
  <2>6. /\ waiter' \in [Waiters -> Places]
        /\ resultChanged' \in BOOLEAN
        /\ resultReady' = Terminal(e)
        /\ result' = IF Terminal(e) THEN ResultOf(e) ELSE NoResult
        /\ NoLostResult'
    <3>1. Terminal(e) \in BOOLEAN
      BY DEF Terminal
    <3> QED BY <1>0, <2>1, <2>4, <3>1, ResultHalf
  <2>7. TypeOK'
    <3>1. result' \in Results \cup {NoResult}
      BY <2>6, ResultOfTerminal
    <3> QED BY <1>0, <2>1, <2>2, <2>3, <2>5, <2>6, <3>1 DEF TypeOK, Terminal
  <2>8. SliceShape'
    BY <1>0, <2>1, <2>2 DEF SliceShape, TypeOK
  <2>9. ResultShape'
    BY <2>1, <2>6, ResultOfTerminal, NoResultIsNone DEF ResultShape
  <2>10. WaitShape'
    BY <2>5, <2>6 DEF WaitShape, NoLostNext
  <2>11. DeliveredThenUnread'
    <3>1. /\ Unread \in Seq(Events)
          /\ Unread' = Append(Unread, e)
      <4>1. /\ queue \in Seq(Events \cup {Zero}) /\ head \in Nat /\ head <= Len(queue)
            /\ \A i \in (head + 1)..Len(queue) : queue[i] \in Events
            /\ e \in Slots /\ queue \in Seq(Slots)
        BY <1>0 DEF TypeOK, SliceShape, Slots
      <4>2. /\ SubSeq(queue, head + 1, Len(queue)) \in Seq(Events)
            /\ SubSeq(Append(queue, e), head + 1, Len(Append(queue, e)))
                 = Append(SubSeq(queue, head + 1, Len(queue)), e)
        BY <4>1, UnreadAppend
      <4> QED BY <2>1, <4>2 DEF Unread
    <3>2. delivered \in Seq(Events)
      BY <1>0 DEF TypeOK
    <3>3. Append(delivered \o Unread, e) = delivered \o Append(Unread, e)
      BY <3>1, <3>2, ConcatAppend
    <3> QED BY <1>0, <2>1, <3>1, <3>3 DEF DeliveredThenUnread
  <2>12. TerminalIsLastAndDecides'
    <3>1. \A i \in 1..Len(accepted) : ~Terminal(accepted[i])
      BY <1>0, <1>2 DEF TerminalIsLastAndDecides
    <3> SUFFICES ASSUME NEW i \in 1..Len(accepted'), Terminal(accepted'[i])
                 PROVE  /\ i = Len(accepted') /\ done' /\ resultReady'
                        /\ result' = ResultOf(accepted'[i])
      BY DEF TerminalIsLastAndDecides, Terminal, ResultOf
    <3>2. ~(i \in 1..Len(accepted))
      <4>1. i \in 1..Len(accepted) => accepted'[i] = accepted[i]
        BY <2>3
      <4> QED BY <3>1, <4>1 DEF Terminal
    <3>3. i = Len(accepted) + 1 /\ i = Len(accepted')
      BY <2>3, <3>2
    <3>4. accepted'[i] = e
      BY <2>3, <3>3
    <3>5. Terminal(e)
      BY <3>4 DEF Terminal
    <3> QED BY <2>1, <2>6, <3>3, <3>4, <3>5
  <2>13. EndedAfterEverything'
    BY <1>0, <1>2, <2>5 DEF EndedAfterEverything
  <2> QED BY <2>7, <2>8, <2>9, <2>10, <2>11, <2>12, <2>13 DEF IInv
<1> QED BY <1>1, <1>2

\* Ending the stream, with or without a result.
LEMMA InvEnd ==
  ASSUME IInv, NEW r \in Results \cup {NoResult}, End(r)
  PROVE  IInv'
<1>0. /\ TypeOK /\ SliceShape /\ ResultShape /\ WaitShape
      /\ DeliveredThenUnread /\ TerminalIsLastAndDecides /\ EndedAfterEverything
      /\ NoLostNext /\ NoLostResult
  BY DEF IInv, WaitShape
<1> DEFINE t == r # NoResult /\ ~resultReady
<1>1. /\ queue' = queue /\ head' = head
      /\ accepted' = accepted /\ delivered' = delivered
      /\ done' = TRUE
      /\ SignalChanged
      /\ t => Resolve(r)
      /\ ~t => KeepResult
  BY DEF End, Finish
<1>2. /\ reader' \in [Readers -> Places]
      /\ changed' = FALSE
      /\ \A g \in Readers : reader'[g] # "parked"
      /\ \A g \in Readers : reader'[g] = "ended" => reader[g] = "ended"
  BY <1>0, <1>1, Signalled
<1>3. /\ waiter' \in [Waiters -> Places]
      /\ resultChanged' \in BOOLEAN
      /\ resultReady' = (t \/ resultReady)
      /\ result' = IF t THEN r ELSE result
      /\ NoLostResult'
  <2>1. t \in BOOLEAN
    OBVIOUS
  <2> HIDE DEF t
  <2> QED BY <1>0, <1>1, <2>1, ResultHalf
<1>4. TypeOK'
  BY <1>0, <1>1, <1>2, <1>3 DEF TypeOK
<1>5. SliceShape'
  BY <1>0, <1>1 DEF SliceShape
<1>6. ResultShape'
  BY <1>0, <1>1, <1>3, NoResultIsNone DEF ResultShape, TypeOK
<1>7. WaitShape'
  BY <1>2, <1>3 DEF WaitShape, NoLostNext
<1>8. DeliveredThenUnread'
  BY <1>0, <1>1 DEF DeliveredThenUnread, Unread
<1>9. TerminalIsLastAndDecides'
  <2> SUFFICES ASSUME NEW i \in 1..Len(accepted), Terminal(accepted[i])
               PROVE  /\ i = Len(accepted) /\ done' /\ resultReady'
                      /\ result' = ResultOf(accepted[i])
    BY <1>1 DEF TerminalIsLastAndDecides, Terminal, ResultOf
  <2>1. i = Len(accepted) /\ resultReady /\ result = ResultOf(accepted[i])
    BY <1>0 DEF TerminalIsLastAndDecides
  <2> QED BY <1>1, <1>3, <2>1
<1>10. EndedAfterEverything'
  BY <1>0, <1>1, <1>2 DEF EndedAfterEverything
<1> QED BY <1>4, <1>5, <1>6, <1>7, <1>8, <1>9, <1>10 DEF IInv

\* Reading an event.
LEMMA InvNextEvent ==
  ASSUME IInv, NEW r \in Readers, NextEvent(r)
  PROVE  IInv'
<1>0. /\ TypeOK /\ SliceShape /\ ResultShape /\ WaitShape
      /\ DeliveredThenUnread /\ TerminalIsLastAndDecides /\ EndedAfterEverything
      /\ NoLostNext /\ NoLostResult
  BY DEF IInv, WaitShape
<1>1. /\ head < Len(queue)
      /\ delivered' = Append(delivered, queue[head + 1])
      /\ reader' = [reader EXCEPT ![r] = "running"]
      /\ done' = done /\ changed' = changed /\ resultReady' = resultReady
      /\ result' = result /\ resultChanged' = resultChanged /\ waiter' = waiter
      /\ accepted' = accepted
  BY DEF NextEvent, Read
<1> DEFINE p == [queue EXCEPT ![head + 1] = Zero]
<1>2. \/ head + 1 = Len(queue) /\ queue' = <<>> /\ head' = 0
      \/ head + 1 # Len(queue) /\ queue' = p /\ head' = head + 1
  BY DEF NextEvent, Read
<1>3. /\ queue \in Seq(Slots) /\ head \in Nat /\ Zero \in Slots
      /\ Len(queue) \in Nat
      /\ \A i \in (head + 1)..Len(queue) : queue[i] \in Events
  BY <1>0, LenProperties DEF TypeOK, SliceShape, Slots
<1>4. /\ p \in Seq(Slots)
      /\ Len(p) = Len(queue)
      /\ \A i \in (head + 2)..Len(queue) : p[i] = queue[i]
      /\ SubSeq(p, head + 2, Len(p)) = Tail(Unread)
      /\ SubSeq(queue, head + 2, Len(queue)) \in Seq(Events)
      /\ Unread = <<queue[head + 1]>> \o SubSeq(queue, head + 2, Len(queue))
      /\ Tail(Unread) = SubSeq(queue, head + 2, Len(queue))
  <2>1. (head + 1) + 1 = head + 2
    BY <1>3
  <2>2. Tail(SubSeq(queue, head + 1, Len(queue))) = SubSeq(queue, (head + 1) + 1, Len(queue))
    BY <1>1, <1>3, HeadTailOfSubSeq
  <2> QED BY <1>1, <1>3, <2>1, <2>2, UnreadPop DEF Unread
<1>5. queue[head + 1] \in Events
  BY <1>1, <1>3
<1>6. Unread' = SubSeq(queue, head + 2, Len(queue))
  <2>1. CASE head + 1 = Len(queue)
    <3>1. Unread' = SubSeq(<<>>, 1, 0)
      BY <1>2, <2>1 DEF Unread
    <3>2. SubSeq(<<>>, 1, 0) = <<>> /\ SubSeq(queue, head + 2, Len(queue)) = <<>>
      BY <1>3, <2>1, SubSeqEmpty
    <3> QED BY <3>1, <3>2
  <2>2. CASE head + 1 # Len(queue)
    <3>1. (head + 1) + 1 = head + 2
      BY <1>3
    <3> QED BY <1>2, <1>4, <2>2, <3>1 DEF Unread
  <2> QED BY <2>1, <2>2
<1> HIDE DEF p
<1>7. TypeOK'
  <2>1. queue' \in Seq(Slots) /\ head' \in Nat
    <3>1. <<>> \in Seq(Slots) /\ 0 \in Nat /\ head + 1 \in Nat
      BY <1>3
    <3> QED BY <1>2, <1>4, <3>1
  <2>2. delivered' \in Seq(Events)
    BY <1>0, <1>1, <1>5, AppendProperties DEF TypeOK
  <2>3. reader' \in [Readers -> Places]
    BY <1>0, <1>1 DEF TypeOK, Places
  <2> QED BY <1>0, <1>1, <2>1, <2>2, <2>3 DEF TypeOK, Slots
<1>8. SliceShape'
  <2>1. CASE head + 1 = Len(queue)
    BY <1>2, <2>1 DEF SliceShape
  <2>2. CASE head + 1 # Len(queue)
    <3>1. queue' = p /\ head' = head + 1 /\ Len(queue') = Len(queue)
      BY <1>2, <1>4, <2>2
    <3>2. \A i \in (head + 2)..Len(queue) : p[i] \in Events
      BY <1>3, <1>4
    <3>3. head + 1 < Len(queue) /\ (head + 1) + 1 = head + 2
      BY <1>1, <1>3, <2>2
    <3> QED BY <3>1, <3>2, <3>3 DEF SliceShape
  <2> QED BY <2>1, <2>2
<1>9. ResultShape'
  BY <1>0, <1>1 DEF ResultShape
<1>10. WaitShape'
  <2>1. NoLostResult'
    BY <1>0, <1>1 DEF NoLostResult
  <2>2. \A g \in Readers : reader[g] # "parked"
    BY <1>0, <1>1, <1>3 DEF NoLostNext
  <2>3. \A g \in Readers : reader'[g] # "parked"
    BY <1>0, <1>1, <2>2 DEF TypeOK
  <2> QED BY <2>1, <2>3 DEF WaitShape, NoLostNext
<1>11. DeliveredThenUnread'
  <2>1. delivered \in Seq(Events)
    BY <1>0 DEF TypeOK
  <2>2. delivered \o (<<queue[head + 1]>> \o SubSeq(queue, head + 2, Len(queue)))
          = Append(delivered, queue[head + 1]) \o SubSeq(queue, head + 2, Len(queue))
    BY <1>4, <1>5, <2>1, ConcatMove
  <2> QED BY <1>0, <1>1, <1>4, <1>6, <2>2 DEF DeliveredThenUnread
<1>12. TerminalIsLastAndDecides'
  BY <1>0, <1>1 DEF TerminalIsLastAndDecides, Terminal, ResultOf
<1>13. EndedAfterEverything'
  <2>1. Unread # <<>>
    BY <1>1, <1>3, UnreadPop DEF Unread
  <2>2. delivered # accepted
    <3>1. delivered \in Seq(Events) /\ Unread \in Seq(Events)
      <4>1. <<queue[head + 1]>> \in Seq(Events)
        BY <1>5
      <4> QED BY <1>0, <1>4, <4>1, ConcatProperties DEF TypeOK
    <3> QED BY <1>0, <2>1, <3>1, ConcatEqualIffEmpty DEF DeliveredThenUnread
  <2>3. \A g \in Readers : reader[g] # "ended"
    BY <1>0, <2>2 DEF EndedAfterEverything
  <2>4. \A g \in Readers : reader'[g] # "ended"
    BY <1>0, <1>1, <2>3 DEF TypeOK
  <2> QED BY <2>4 DEF EndedAfterEverything
<1> QED BY <1>7, <1>8, <1>9, <1>10, <1>11, <1>12, <1>13 DEF IInv

\* A Next call that does not read an event moves its goroutine only.
LEMMA InvNextOther ==
  ASSUME IInv, NEW r \in Readers, NextEnded(r) \/ NextParks(r) \/ NextCancelled(r)
  PROVE  IInv'
<1>0. /\ TypeOK /\ SliceShape /\ ResultShape /\ WaitShape
      /\ DeliveredThenUnread /\ TerminalIsLastAndDecides /\ EndedAfterEverything
      /\ NoLostNext /\ NoLostResult
  BY DEF IInv, WaitShape
<1>1. /\ queue' = queue /\ head' = head /\ done' = done
      /\ resultReady' = resultReady /\ result' = result
      /\ resultChanged' = resultChanged /\ waiter' = waiter
      /\ accepted' = accepted /\ delivered' = delivered
  BY DEF NextEnded, NextParks, NextCancelled, streamVars
<1>2. /\ changed' \in BOOLEAN
      /\ changed => changed'
      /\ reader' \in [Readers -> Places]
      /\ \A g \in Readers : g # r => reader'[g] = reader[g]
  BY <1>0 DEF NextEnded, NextParks, NextCancelled, streamVars, TypeOK, Places
<1>3. TypeOK'
  BY <1>0, <1>1, <1>2 DEF TypeOK
<1>4. SliceShape' /\ ResultShape' /\ DeliveredThenUnread' /\ TerminalIsLastAndDecides'
  BY <1>0, <1>1 DEF SliceShape, ResultShape, DeliveredThenUnread, Unread,
     TerminalIsLastAndDecides, Terminal, ResultOf
<1>5. WaitShape'
  <2>1. NoLostResult'
    BY <1>0, <1>1 DEF NoLostResult
  <2>2. reader'[r] = "parked" => changed' /\ ~done' /\ head' = Len(queue')
    BY <1>0, <1>1 DEF NextEnded, NextParks, NextCancelled, TypeOK
  <2>3. \A g \in Readers : g # r /\ reader'[g] = "parked" => changed' /\ ~done' /\ head' = Len(queue')
    BY <1>0, <1>1, <1>2 DEF NoLostNext
  <2> QED BY <2>1, <2>2, <2>3 DEF WaitShape, NoLostNext
<1>6. EndedAfterEverything'
  <2>1. \A g \in Readers : g # r /\ reader'[g] = "ended" => done' /\ delivered' = accepted'
    BY <1>0, <1>1, <1>2 DEF EndedAfterEverything
  <2>2. CASE NextEnded(r)
    <3>1. head = Len(queue) /\ done
      BY <2>2 DEF NextEnded
    <3>2. queue = <<>> /\ Len(queue) = 0 /\ head = 0
      BY <1>0, <3>1 DEF SliceShape
    <3>3. Unread = <<>>
      BY <3>2, SubSeqEmpty DEF Unread
    <3>4. accepted = delivered
      BY <1>0, <3>3, ConcatEmptySeq DEF DeliveredThenUnread, TypeOK
    <3> QED BY <1>1, <2>1, <3>1, <3>4 DEF EndedAfterEverything
  <2>3. CASE NextParks(r) \/ NextCancelled(r)
    <3>1. reader'[r] # "ended"
      BY <1>0, <2>3 DEF NextParks, NextCancelled, TypeOK
    <3> QED BY <2>1, <3>1 DEF EndedAfterEverything
  <2> QED BY <2>2, <2>3
<1> QED BY <1>3, <1>4, <1>5, <1>6 DEF IInv

\* A Result call moves its goroutine only.
LEMMA InvResult ==
  ASSUME IInv, NEW w \in Waiters, ResultStep(w) \/ ResultCancelled(w)
  PROVE  IInv'
<1>0. /\ TypeOK /\ SliceShape /\ ResultShape /\ WaitShape
      /\ DeliveredThenUnread /\ TerminalIsLastAndDecides /\ EndedAfterEverything
      /\ NoLostNext /\ NoLostResult
  BY DEF IInv, WaitShape
<1>1. /\ queue' = queue /\ head' = head /\ done' = done /\ changed' = changed
      /\ resultReady' = resultReady /\ result' = result /\ reader' = reader
      /\ accepted' = accepted /\ delivered' = delivered
  BY DEF ResultStep, ResultReturns, ResultParks, ResultCancelled, streamVars
<1>2. /\ resultChanged' \in BOOLEAN
      /\ resultChanged => resultChanged'
      /\ waiter' \in [Waiters -> Places]
      /\ \A g \in Waiters : g # w => waiter'[g] = waiter[g]
      /\ waiter'[w] = "parked" => resultChanged' /\ ~resultReady
  BY <1>0 DEF ResultStep, ResultReturns, ResultParks, ResultCancelled, streamVars, TypeOK, Places
<1>3. TypeOK'
  BY <1>0, <1>1, <1>2 DEF TypeOK
<1>4. SliceShape' /\ ResultShape' /\ DeliveredThenUnread' /\ TerminalIsLastAndDecides'
  BY <1>0, <1>1 DEF SliceShape, ResultShape, DeliveredThenUnread, Unread,
     TerminalIsLastAndDecides, Terminal, ResultOf
<1>5. WaitShape'
  BY <1>0, <1>1, <1>2 DEF WaitShape, NoLostNext, NoLostResult
<1>6. EndedAfterEverything'
  BY <1>0, <1>1 DEF EndedAfterEverything
<1> QED BY <1>3, <1>4, <1>5, <1>6 DEF IInv

\* A step that changes nothing.
LEMMA InvStutter ==
  ASSUME IInv, UNCHANGED vars
  PROVE  IInv'
BY DEF IInv, vars, streamVars, TypeOK, SliceShape, ResultShape, WaitShape,
   NoLostNext, NoLostResult, DeliveredThenUnread, Unread,
   TerminalIsLastAndDecides, EndedAfterEverything, Terminal, ResultOf

\* The inductive invariant holds in every state the code can reach.
THEOREM Invariance == Spec => []IInv
<1>1. IInv /\ [Next]_vars => IInv'
  <2> SUFFICES ASSUME IInv, [Next]_vars PROVE IInv'
    OBVIOUS
  <2>1. ASSUME NEW e \in Events, Push(e) PROVE IInv'
    BY <2>1, InvPush
  <2>2. ASSUME NEW r \in Results \cup {NoResult}, End(r) PROVE IInv'
    BY <2>2, InvEnd
  <2>3. ASSUME NEW r \in Readers, NextStep(r) \/ NextCancelled(r) PROVE IInv'
    BY <2>3, InvNextEvent, InvNextOther DEF NextStep
  <2>4. ASSUME NEW w \in Waiters, ResultStep(w) \/ ResultCancelled(w) PROVE IInv'
    BY <2>4, InvResult
  <2>5. CASE UNCHANGED vars
    BY <2>5, InvStutter
  <2> QED BY <2>1, <2>2, <2>3, <2>4, <2>5 DEF Next
<1> QED BY <1>1, InvInit, PTL DEF Spec

\* Every variable keeps its type: stream.go's fields and the goroutines' places.
THEOREM TypeCorrect == Spec => []TypeOK
BY Invariance, PTL DEF IInv

\* Next returns what Push accepted, once each and in order, through every reuse
\* of the slice (stream.go:78-88).
THEOREM FifoDelivery == Spec => []DeliveredThenUnread
BY Invariance, PTL DEF IInv

\* No goroutine in Next or Result is left waiting for something that has
\* happened (stream.go:94-103, 119-128, 136-150).
THEOREM NeverStuck == Spec => []NoLostWakeup
<1>1. IInv => NoLostWakeup
  BY DEF IInv, WaitShape, NoLostNext, NoLostResult, NoLostWakeup
<1> QED BY <1>1, Invariance, PTL

\* A terminal event is the last one and decides the result (stream.go:42-57).
THEOREM TerminalDecides == Spec => []TerminalIsLastAndDecides
BY Invariance, PTL DEF IInv

\* Next says the stream ended only to a caller that has everything.
THEOREM EndSeenLast == Spec => []EndedAfterEverything
BY Invariance, PTL DEF IInv

------------------------------------------------------------------------------
\* The result is written once: a later End never replaces what a terminal
\* event or an earlier End decided (stream.go:61-71).
THEOREM ResultWrittenOnce == Spec => [][resultReady => resultReady' /\ result' = result]_vars
<1> DEFINE Keeps == resultReady => resultReady' /\ result' = result
<1>1. IInv /\ [Next]_vars => [Keeps]_vars
  <2> SUFFICES ASSUME IInv, Next PROVE Keeps
    OBVIOUS
  <2> SUFFICES ASSUME resultReady = TRUE PROVE resultReady' /\ result' = result
    BY DEF IInv, TypeOK
  <2>1. done
    BY DEF IInv, ResultShape
  <2>2. ASSUME NEW e \in Events, Push(e) PROVE resultReady' = resultReady /\ result' = result
    BY <2>1, <2>2 DEF Push, Enqueue, vars, streamVars
  <2>3. ASSUME NEW r \in Results \cup {NoResult}, End(r)
        PROVE  resultReady' = resultReady /\ result' = result
    BY <2>3 DEF End, Finish, KeepResult
  <2>4. ASSUME NEW r \in Readers, NextStep(r) \/ NextCancelled(r)
        PROVE  resultReady' = resultReady /\ result' = result
    BY <2>4 DEF NextStep, NextEvent, Read, NextEnded, NextParks, NextCancelled, streamVars
  <2>5. ASSUME NEW w \in Waiters, ResultStep(w) \/ ResultCancelled(w)
        PROVE  resultReady' = resultReady /\ result' = result
    BY <2>5 DEF ResultStep, ResultReturns, ResultParks, ResultCancelled, streamVars
  <2> QED BY <2>2, <2>3, <2>4, <2>5 DEF Next
<1> QED BY <1>1, Invariance, PTL DEF Spec

\* Initially the abstract log is empty and open.
LEMMA FifoInit == Init => Fifo!Init
<1> SUFFICES ASSUME Init PROVE Fifo!Init
  OBVIOUS
<1>1. Unread = <<>>
  BY SubSeqEmpty DEF Init, Unread
<1> QED BY <1>1 DEF Init, Fifo!Init

\* A step of the stream is a step of the abstract log, or none.
LEMMA FifoStep == IInv /\ [Next]_vars => [Fifo!Next]_(Fifo!fifoVars)
<1> SUFFICES ASSUME IInv, [Next]_vars PROVE [Fifo!Next]_(Fifo!fifoVars)
  OBVIOUS
<1>0. /\ TypeOK /\ SliceShape /\ ResultShape
  BY DEF IInv
<1>1. ASSUME NEW e \in Events, Push(e) PROVE [Fifo!Next]_(Fifo!fifoVars)
  <2>1. CASE done
    BY <1>1, <2>1 DEF Push, Enqueue, vars, streamVars, Unread, Fifo!fifoVars
  <2>2. CASE ~done
    <3>1. /\ queue \in Seq(Slots) /\ head \in Nat /\ head <= Len(queue)
          /\ \A i \in (head + 1)..Len(queue) : queue[i] \in Events
          /\ e \in Slots
      BY <1>0 DEF TypeOK, SliceShape, Slots
    <3>2. SubSeq(Append(queue, e), head + 1, Len(Append(queue, e)))
            = Append(SubSeq(queue, head + 1, Len(queue)), e)
      BY <3>1, UnreadAppend
    <3>3. queue' = Append(queue, e) /\ head' = head /\ done' = Terminal(e) /\ delivered' = delivered
      BY <1>0, <1>1, <2>2 DEF Push, Enqueue, TypeOK, Terminal
    <3>4. Unread' = Append(Unread, e)
      BY <3>2, <3>3 DEF Unread
    <3>5. result' = IF Terminal(e) THEN ResultOf(e) ELSE result
      BY <1>1, <2>2 DEF Push, Enqueue, Resolve, KeepResult
    <3>6. Fifo!Publish(e)
      BY <2>2, <3>3, <3>4, <3>5 DEF Fifo!Publish
    <3> QED BY <3>6 DEF Fifo!Next
  <2> QED BY <2>1, <2>2
<1>2. ASSUME NEW r \in Results \cup {NoResult}, End(r) PROVE [Fifo!Next]_(Fifo!fifoVars)
  <2>1. /\ Unread' = Unread /\ delivered' = delivered /\ done' = TRUE
        /\ result' = IF r # NoResult /\ ~resultReady THEN r ELSE result
    BY <1>2 DEF End, Finish, Unread, Resolve, KeepResult
  <2>2. CASE ~done
    <3>1. result' \in {result} \cup Results
      BY <2>1
    <3>2. Fifo!Close
      BY <2>1, <2>2, <3>1 DEF Fifo!Close
    <3> QED BY <3>2 DEF Fifo!Next
  <2>3. CASE done /\ r # NoResult /\ ~resultReady
    <3>1. result = NoResult /\ r \in Results
      BY <1>0, <2>3 DEF ResultShape
    <3>2. Fifo!Decide(r)
      BY <1>0, <2>1, <2>3, <3>1 DEF Fifo!Decide, TypeOK
    <3> QED BY <3>1, <3>2 DEF Fifo!Next
  <2>4. CASE done /\ ~(r # NoResult /\ ~resultReady)
    BY <1>0, <2>1, <2>4 DEF Fifo!fifoVars, TypeOK
  <2> QED BY <2>2, <2>3, <2>4
<1>3. ASSUME NEW r \in Readers, NextEvent(r) PROVE [Fifo!Next]_(Fifo!fifoVars)
  <2>1. /\ queue \in Seq(Slots) /\ head \in Nat /\ head < Len(queue) /\ Zero \in Slots
        /\ Len(queue) \in Nat
        /\ \A i \in (head + 1)..Len(queue) : queue[i] \in Events
    BY <1>0, <1>3, LenProperties DEF TypeOK, SliceShape, Slots, NextEvent, Read
  <2>2. /\ Unread # <<>>
        /\ queue[head + 1] = Head(Unread)
        /\ SubSeq([queue EXCEPT ![head + 1] = Zero], head + 2, Len([queue EXCEPT ![head + 1] = Zero]))
              = Tail(Unread)
        /\ Len([queue EXCEPT ![head + 1] = Zero]) = Len(queue)
    BY <2>1, UnreadPop DEF Unread
  <2>3. Unread' = Tail(Unread)
    <3>1. CASE head + 1 = Len(queue)
      <4>1. queue' = <<>> /\ head' = 0 /\ Len(<<>>) = 0
        BY <1>3, <3>1 DEF NextEvent, Read
      <4>2. Unread' = SubSeq(<<>>, 1, 0)
        BY <4>1 DEF Unread
      <4>3. SubSeq([queue EXCEPT ![head + 1] = Zero], head + 2, Len(queue)) = <<>>
        BY <2>1, <3>1, SubSeqEmpty
      <4>4. SubSeq(<<>>, 1, 0) = <<>>
        BY SubSeqEmpty
      <4> QED BY <2>2, <4>2, <4>3, <4>4
    <3>2. CASE head + 1 # Len(queue)
      <4>1. queue' = [queue EXCEPT ![head + 1] = Zero] /\ head' = head + 1
        BY <1>3, <3>2 DEF NextEvent, Read
      <4>2. head' + 1 = head + 2
        BY <2>1, <4>1
      <4> QED BY <2>2, <4>1, <4>2 DEF Unread
    <3> QED BY <3>1, <3>2
  <2>4. delivered' = Append(delivered, queue[head + 1]) /\ done' = done /\ result' = result
    BY <1>3 DEF NextEvent, Read
  <2>5. Fifo!Take
    BY <2>2, <2>3, <2>4 DEF Fifo!Take
  <2> QED BY <2>5 DEF Fifo!Next
<1>4. ASSUME NEW r \in Readers, NextEnded(r) \/ NextParks(r) \/ NextCancelled(r)
      PROVE  UNCHANGED Fifo!fifoVars
  BY <1>4 DEF NextEnded, NextParks, NextCancelled, streamVars, Unread, Fifo!fifoVars
<1>5. ASSUME NEW w \in Waiters, ResultStep(w) \/ ResultCancelled(w)
      PROVE  UNCHANGED Fifo!fifoVars
  BY <1>5 DEF ResultStep, ResultReturns, ResultParks, ResultCancelled, streamVars, Unread,
     Fifo!fifoVars
<1>6. CASE UNCHANGED vars
  BY <1>6 DEF vars, streamVars, Unread, Fifo!fifoVars
<1> QED BY <1>1, <1>2, <1>3, <1>4, <1>5, <1>6 DEF Next, NextStep

\* The stream implements the log: whoever uses an EventStream may reason about
\* the log instead, with neither slice, head, channel nor lock.
THEOREM Implements == Spec => Fifo!Spec
BY FifoInit, FifoStep, Invariance, PTL DEF Spec, Fifo!Spec

-----------------------------------------------------------------------------
(* The secret store (pkg/vault).                                            *)
Copies == [password : Passwords, entries : [Titles -> (SUBSET Fields) \cup {NoVault}]]
SavingCalls == [at : {"opened", "encoded"}, call : {"create", "put", "delete", "password"}, copy : Copies, on : {"temporary"}, alone : {TRUE}]

\* No entry has both forms of a one-time secret.
OneForm(copy) == \A t \in Titles : ~(OneTime \subseteq Stored(copy, t))

\* A copy that has every field that was reported as stored.
HasAcked(copy) == \A t \in Titles : acked[t] \subseteq Stored(copy, t)

\* The file.
FileGood ==
  /\ vaultFile # NoVault => vaultFile.copy \in Copies /\ vaultFile.whole /\ OneForm(vaultFile.copy) /\ HasAcked(vaultFile.copy)
  /\ vaultFile = NoVault => \A t \in Titles : acked[t] = {}

\* The copies in memory.
CopiesGood ==
  \A c \in VaultClients :
    /\ c \in clean => vaultFile # NoVault /\ opened[c] = vaultFile.copy
    /\ opened[c] # NoVault => opened[c] \in Copies /\ OneForm(opened[c]) /\ (c \notin behind => HasAcked(opened[c]))

\* The one save that may be in progress.
SaveGood(c) ==
  /\ saving[c] \in SavingCalls
  /\ OneForm(saving[c].copy)
  /\ saving[c].call = "create" \/ opened[c] = saving[c].copy
  /\ c \notin behind => HasAcked(saving[c].copy)
  /\ temporary = Database(saving[c].copy, saving[c].at = "encoded")
  /\ c \notin clean

SavesGood ==
  /\ \A c \in VaultClients : saving[c] # Idle => SaveGood(c)
  /\ \A c, d \in VaultClients : saving[c] # Idle /\ saving[d] # Idle => c = d

VaultTyped ==
  /\ opened = [c \in VaultClients |-> opened[c]] /\ saving = [c \in VaultClients |-> saving[c]]
  /\ acked \in [Titles -> SUBSET Fields] /\ clean \subseteq VaultClients

VaultGood == VaultTyped /\ FileGood /\ CopiesGood /\ SavesGood

VaultInv == mixed \/ VaultGood

LEMMA VaultStarts == VaultInit => VaultInv
  <1> SUFFICES ASSUME VaultInit PROVE VaultGood
    BY DEF VaultInv
  <1>1. /\ vaultFile = NoVault /\ temporary = NoVault
        /\ opened = [c \in VaultClients |-> NoVault] /\ saving = [c \in VaultClients |-> Idle]
        /\ acked = [t \in Titles |-> {}] /\ clean = {} /\ behind = {}
    BY DEF VaultInit
  <1>2. VaultTyped
    BY <1>1 DEF VaultTyped
  <1>3. FileGood /\ CopiesGood
    BY <1>1 DEF FileGood, CopiesGood
  <1>4. SavesGood
    BY <1>1 DEF SavesGood
  <1> QED BY <1>2, <1>3, <1>4 DEF VaultGood

LEMMA IdleFacts == Idle.at = "idle" /\ Idle.on = "gone" /\ Idle.alone = TRUE /\ Idle \notin SavingCalls
  BY DEF Idle, SavingCalls

LEMMA StoredFacts ==
  ASSUME NEW copy \in Copies, NEW t \in Titles
  PROVE  Stored(copy, t) \in SUBSET Fields /\ (copy.entries[t] # NoVault => Stored(copy, t) = copy.entries[t])
  <1>1. copy.entries \in [Titles -> (SUBSET Fields) \cup {NoVault}]
    BY DEF Copies
  <1>2. copy.entries[t] \in (SUBSET Fields) \cup {NoVault}
    BY <1>1
  <1>3. Stored(copy, t) = IF copy.entries[t] = NoVault THEN {} ELSE copy.entries[t]
    BY DEF Stored
  <1>4. CASE copy.entries[t] = NoVault
    BY <1>3, <1>4
  <1>5. CASE copy.entries[t] # NoVault
    BY <1>2, <1>3, <1>5
  <1> QED BY <1>4, <1>5

\* While nobody else saves, a save that begins is alone with the temporary file.
LEMMA SavesFacts ==
  ASSUME VaultGood, NEW c \in VaultClients, NEW call \in {"create", "put", "delete", "password"}, NEW copy \in Copies,
         Saves(c, call, copy), ~mixed'
  PROVE  /\ \A d \in VaultClients : saving[d] = Idle
         /\ saving' = [d \in VaultClients |-> saving'[d]]
         /\ saving'[c] \in SavingCalls /\ saving'[c].copy = copy /\ saving'[c].call = call /\ saving'[c].at = "opened"
         /\ saving'[c] # Idle
         /\ \A d \in VaultClients : d # c => saving'[d] = Idle
         /\ temporary' = Database(copy, FALSE) /\ vaultFile' = vaultFile
  <1>1. /\ saving' = [d \in VaultClients |->
               IF d = c THEN [at |-> "opened", call |-> call, copy |-> copy, on |-> "temporary", alone |-> AtTemporary = {}]
               ELSE IF d \in AtTemporary THEN [saving[d] EXCEPT !.alone = FALSE] ELSE saving[d]]
        /\ temporary' = Database(copy, FALSE) /\ mixed' = (mixed \/ \E d \in VaultClients : saving[d] # Idle) /\ UNCHANGED vaultFile
    BY DEF Saves
  <1>2. \A d \in VaultClients : saving[d] = Idle
    BY <1>1, Zenon
  <1>3. AtTemporary = {}
    BY <1>2, IdleFacts DEF AtTemporary
  <1>4. ASSUME NEW d \in VaultClients, d # c PROVE saving'[d] = Idle
    BY <1>1, <1>2, <1>3, <1>4
  <1>5. saving'[c] = [at |-> "opened", call |-> call, copy |-> copy, on |-> "temporary", alone |-> TRUE]
    BY <1>1, <1>3
  <1>6. saving'[c] \in SavingCalls
    BY <1>5 DEF SavingCalls
  <1>7. saving' = [d \in VaultClients |-> saving'[d]]
    BY <1>1
  <1>8. saving'[c] # Idle
    BY <1>6, IdleFacts
  <1> QED BY <1>1, <1>2, <1>4, <1>5, <1>6, <1>7, <1>8

\* What an edit of an unlocked copy leaves.
LEMMA EditStep ==
  ASSUME VaultGood, NEW c \in VaultClients, NEW call \in {"put", "delete", "password"}, NEW copy \in Copies,
         opened[c] # NoVault, Edit(c, call, copy), ~mixed', OneForm(copy),
         acked' \in [Titles -> SUBSET Fields], \A t \in Titles : acked'[t] \subseteq acked[t],
         HasAcked(opened[c]) => HasAcked(copy)'
  PROVE  VaultGood'
  <1> USE DEF VaultGood
  <1>1. /\ opened' = [opened EXCEPT ![c] = copy] /\ clean' = clean \ {c} /\ Saves(c, call, copy) /\ UNCHANGED behind
    BY DEF Edit
  <1>2. /\ \A d \in VaultClients : saving[d] = Idle
        /\ saving' = [d \in VaultClients |-> saving'[d]]
        /\ saving'[c] \in SavingCalls /\ saving'[c].copy = copy /\ saving'[c].call = call /\ saving'[c].at = "opened"
        /\ saving'[c] # Idle
        /\ \A d \in VaultClients : d # c => saving'[d] = Idle
        /\ temporary' = Database(copy, FALSE) /\ vaultFile' = vaultFile
    BY <1>1, SavesFacts
  <1>3. opened' = [d \in VaultClients |-> opened'[d]] /\ opened'[c] = copy /\ \A d \in VaultClients : d # c => opened'[d] = opened[d]
    BY <1>1 DEF VaultTyped
  <1>4. VaultTyped'
    BY <1>1, <1>2, <1>3 DEF VaultTyped
  <1>5. FileGood'
    <2>1. vaultFile # NoVault => OneForm(vaultFile.copy)' /\ HasAcked(vaultFile.copy)'
      BY <1>2 DEF FileGood, OneForm, HasAcked
    <2>2. vaultFile = NoVault => \A t \in Titles : acked'[t] = {}
      BY DEF FileGood
    <2> QED BY <1>2, <2>1, <2>2 DEF FileGood
  <1>6. CopiesGood'
    <2> SUFFICES ASSUME NEW d \in VaultClients
                 PROVE  /\ d \in clean' => vaultFile' # NoVault /\ opened'[d] = vaultFile'.copy
                        /\ opened'[d] # NoVault => opened'[d] \in Copies /\ OneForm(opened[d])' /\ (d \notin behind' => HasAcked(opened[d])')
      BY DEF CopiesGood
    <2>1. CASE d = c
      BY <1>1, <1>3, <2>1 DEF CopiesGood, OneForm, HasAcked
    <2>2. CASE d # c
      BY <1>1, <1>2, <1>3, <2>2 DEF CopiesGood, OneForm, HasAcked
    <2> QED BY <2>1, <2>2
  <1>7. SavesGood'
    <2>1. SaveGood(c)'
      <3>1. c \notin behind' => HasAcked(saving[c].copy)'
        BY <1>1, <1>2 DEF CopiesGood, HasAcked
      <3>2. OneForm(saving[c].copy)' /\ c \notin clean' /\ opened'[c] = saving'[c].copy
        BY <1>1, <1>2, <1>3 DEF OneForm
      <3>3. temporary' = Database(saving'[c].copy, saving'[c].at = "encoded")
        BY <1>2 DEF Database
      <3> QED BY <1>2, <3>1, <3>2, <3>3 DEF SaveGood
    <2> QED BY <1>2, <2>1 DEF SavesGood
  <1> QED BY <1>4, <1>5, <1>6, <1>7

LEMMA PutStep ==
  ASSUME VaultGood, NEW c \in VaultClients, NEW title \in Titles, NEW given \in SUBSET Fields, Put(c, title, given), ~mixed'
  PROVE  VaultGood'
  <1>1. /\ opened[c] # NoVault /\ ~(OneTime \subseteq given)
        /\ Edit(c, "put", [opened[c] EXCEPT !.entries[title] = PutFields(@, given)])
        /\ acked' = [acked EXCEPT ![title] = @ \ Clears(given)]
    BY DEF Put
  <1>2. opened[c] \in Copies /\ OneForm(opened[c]) /\ acked \in [Titles -> SUBSET Fields]
    BY <1>1 DEF VaultGood, CopiesGood, VaultTyped
  <1>3. opened[c].entries \in [Titles -> (SUBSET Fields) \cup {NoVault}] /\ opened[c].password \in Passwords
    BY <1>2 DEF Copies
  <1>4. PICK copy : copy = [opened[c] EXCEPT !.entries[title] = PutFields(@, given)]
    OBVIOUS
  <1>5. PICK old : old = Stored(opened[c], title)
    OBVIOUS
  <1>6. old \in SUBSET Fields /\ PutFields(opened[c].entries[title], given) = (old \ Clears(given)) \cup given
    <2>1. old \in SUBSET Fields
      BY <1>2, <1>5, StoredFacts
    <2>2. CASE opened[c].entries[title] = NoVault
      BY <1>5, <2>1, <2>2 DEF PutFields, Stored
    <2>3. CASE opened[c].entries[title] # NoVault
      BY <1>5, <2>1, <2>3 DEF PutFields, Stored
    <2> QED BY <2>1, <2>2, <2>3
  <1>7. PICK new : new = (old \ Clears(given)) \cup given
    OBVIOUS
  <1>8. new \in SUBSET Fields /\ new # NoVault
    BY <1>6, <1>7, VaultAssumption
  <1>9. /\ copy.password = opened[c].password
        /\ copy.entries = [opened[c].entries EXCEPT ![title] = new]
        /\ copy \in Copies
    BY <1>2, <1>3, <1>4, <1>6, <1>7, <1>8 DEF Copies
  <1>10. Stored(copy, title) = new /\ \A t \in Titles : t # title => Stored(copy, t) = Stored(opened[c], t)
    BY <1>3, <1>8, <1>9 DEF Stored
  <1>11. ~(OneTime \subseteq old)
    BY <1>2, <1>5 DEF OneForm
  <1>12. ~(OneTime \subseteq new)
    BY <1>1, <1>7, <1>11 DEF Clears, OneTime
  <1>13. OneForm(copy)
    BY <1>2, <1>10, <1>12 DEF OneForm
  <1>14. /\ acked' \in [Titles -> SUBSET Fields] /\ acked'[title] = acked[title] \ Clears(given)
         /\ \A t \in Titles : t # title => acked'[t] = acked[t]
    BY <1>1, <1>2
  <1>15. \A t \in Titles : acked'[t] \subseteq acked[t]
    BY <1>14
  <1>16. HasAcked(opened[c]) => HasAcked(copy)'
    <2> SUFFICES ASSUME HasAcked(opened[c]), NEW t \in Titles PROVE acked'[t] \subseteq Stored(copy, t)
      BY DEF HasAcked, Stored
    <2>1. acked[t] \subseteq Stored(opened[c], t)
      BY DEF HasAcked
    <2>2. CASE t = title
      BY <1>5, <1>7, <1>10, <1>14, <2>1, <2>2
    <2>3. CASE t # title
      BY <1>10, <1>14, <2>1, <2>3
    <2> QED BY <2>2, <2>3
  <1>17. Edit(c, "put", copy)
    BY <1>1, <1>4
  <1> QED BY <1>1, <1>9, <1>13, <1>14, <1>15, <1>16, <1>17, EditStep

LEMMA DeleteStep ==
  ASSUME VaultGood, NEW c \in VaultClients, NEW title \in Titles, Delete(c, title), ~mixed'
  PROVE  VaultGood'
  <1>1. /\ opened[c] # NoVault
        /\ Edit(c, "delete", [opened[c] EXCEPT !.entries[title] = NoVault])
        /\ acked' = [acked EXCEPT ![title] = {}]
    BY DEF Delete
  <1>2. opened[c] \in Copies /\ OneForm(opened[c]) /\ acked \in [Titles -> SUBSET Fields]
    BY <1>1 DEF VaultGood, CopiesGood, VaultTyped
  <1>3. opened[c].entries \in [Titles -> (SUBSET Fields) \cup {NoVault}] /\ opened[c].password \in Passwords
    BY <1>2 DEF Copies
  <1>4. PICK copy : copy = [opened[c] EXCEPT !.entries[title] = NoVault]
    OBVIOUS
  <1>5. /\ copy.entries = [opened[c].entries EXCEPT ![title] = NoVault]
        /\ copy \in Copies
    BY <1>2, <1>3, <1>4 DEF Copies
  <1>6. Stored(copy, title) = {} /\ \A t \in Titles : t # title => Stored(copy, t) = Stored(opened[c], t)
    BY <1>3, <1>5 DEF Stored
  <1>7. OneForm(copy)
    BY <1>2, <1>6 DEF OneForm, OneTime
  <1>8. /\ acked' \in [Titles -> SUBSET Fields] /\ acked'[title] = {}
        /\ \A t \in Titles : t # title => acked'[t] = acked[t]
    BY <1>1, <1>2
  <1>9. \A t \in Titles : acked'[t] \subseteq acked[t]
    BY <1>8
  <1>10. HasAcked(opened[c]) => HasAcked(copy)'
    <2> SUFFICES ASSUME HasAcked(opened[c]), NEW t \in Titles PROVE acked'[t] \subseteq Stored(copy, t)
      BY DEF HasAcked, Stored
    <2>1. acked[t] \subseteq Stored(opened[c], t)
      BY DEF HasAcked
    <2>2. CASE t = title
      BY <1>8, <2>2
    <2>3. CASE t # title
      BY <1>6, <1>8, <2>1, <2>3
    <2> QED BY <2>2, <2>3
  <1>11. Edit(c, "delete", copy)
    BY <1>1, <1>4
  <1> QED BY <1>1, <1>5, <1>7, <1>8, <1>9, <1>10, <1>11, EditStep

LEMMA PasswordStep ==
  ASSUME VaultGood, NEW c \in VaultClients, NEW next \in Passwords, ChangePassword(c, next), ~mixed'
  PROVE  VaultGood'
  <1>1. /\ opened[c] # NoVault /\ Edit(c, "password", [opened[c] EXCEPT !.password = next])
        /\ UNCHANGED acked
    BY DEF ChangePassword
  <1>2. opened[c] \in Copies /\ OneForm(opened[c]) /\ acked \in [Titles -> SUBSET Fields]
    BY <1>1 DEF VaultGood, CopiesGood, VaultTyped
  <1>3. PICK copy : copy = [opened[c] EXCEPT !.password = next]
    OBVIOUS
  <1>4. copy.entries = opened[c].entries /\ copy \in Copies
    BY <1>2, <1>3 DEF Copies
  <1>5. \A t \in Titles : Stored(copy, t) = Stored(opened[c], t)
    BY <1>4 DEF Stored
  <1>6. OneForm(copy)
    BY <1>2, <1>5 DEF OneForm
  <1>7. HasAcked(opened[c]) => HasAcked(copy)'
    BY <1>1, <1>5 DEF HasAcked, Stored
  <1>8. Edit(c, "password", copy)
    BY <1>1, <1>3
  <1> QED BY <1>1, <1>2, <1>4, <1>6, <1>7, <1>8, EditStep

LEMMA CreateStep ==
  ASSUME VaultGood, NEW c \in VaultClients, NEW password \in Passwords, CreateVault(c, password), ~mixed'
  PROVE  VaultGood'
  <1> USE DEF VaultGood
  <1>1. PICK copy : copy = [password |-> password, entries |-> Empty]
    OBVIOUS
  <1>2. /\ vaultFile = NoVault /\ Saves(c, "create", copy) /\ behind' = behind \ {c}
        /\ UNCHANGED <<opened, acked, clean>>
    BY <1>1 DEF CreateVault
  <1>3. copy \in Copies /\ \A t \in Titles : Stored(copy, t) = {}
    BY <1>1 DEF Copies, Empty, Stored
  <1>4. /\ \A d \in VaultClients : saving[d] = Idle
        /\ saving' = [d \in VaultClients |-> saving'[d]]
        /\ saving'[c] \in SavingCalls /\ saving'[c].copy = copy /\ saving'[c].call = "create" /\ saving'[c].at = "opened"
        /\ saving'[c] # Idle
        /\ \A d \in VaultClients : d # c => saving'[d] = Idle
        /\ temporary' = Database(copy, FALSE) /\ vaultFile' = vaultFile
    BY <1>2, <1>3, SavesFacts
  <1>5. \A t \in Titles : acked'[t] = {}
    BY <1>2 DEF FileGood
  <1>6. VaultTyped'
    BY <1>2, <1>4 DEF VaultTyped
  <1>7. FileGood'
    BY <1>2, <1>4, <1>5 DEF FileGood
  <1>8. \A d \in VaultClients : HasAcked(opened[d])' /\ HasAcked(saving[d].copy)'
    BY <1>5 DEF HasAcked
  <1>9. CopiesGood'
    BY <1>2, <1>4, <1>8 DEF CopiesGood, OneForm, Stored
  <1>10. c \notin clean'
    BY <1>2 DEF CopiesGood
  <1>11. OneForm(saving[c].copy)'
    BY <1>3, <1>4 DEF OneForm, OneTime, Stored
  <1>12. temporary' = Database(saving'[c].copy, saving'[c].at = "encoded")
    BY <1>4 DEF Database
  <1>13. SaveGood(c)'
    BY <1>4, <1>8, <1>10, <1>11, <1>12 DEF SaveGood
  <1> QED BY <1>4, <1>6, <1>7, <1>9, <1>13 DEF SavesGood

LEMMA UnlockStep ==
  ASSUME VaultGood, NEW c \in VaultClients, NEW password \in Passwords, Unlock(c, password)
  PROVE  VaultGood'
  <1> USE DEF VaultGood
  <1>1. /\ saving[c] = Idle /\ vaultFile # NoVault
        /\ opened' = [opened EXCEPT ![c] = vaultFile.copy] /\ clean' = clean \cup {c} /\ behind' = behind \ {c}
        /\ UNCHANGED <<vaultFile, temporary, saving, acked>>
    BY DEF Unlock, Call
  <1>2. /\ opened' = [d \in VaultClients |-> opened'[d]] /\ opened'[c] = vaultFile.copy
        /\ \A d \in VaultClients : d # c => opened'[d] = opened[d]
    BY <1>1 DEF VaultTyped
  <1>3. VaultTyped'
    BY <1>1, <1>2 DEF VaultTyped
  <1>4. FileGood'
    BY <1>1 DEF FileGood, OneForm, HasAcked
  <1>5. CopiesGood'
    BY <1>1, <1>2 DEF CopiesGood, FileGood, OneForm, HasAcked
  <1>6. ASSUME NEW d \in VaultClients, d # c, SaveGood(d) PROVE SaveGood(d)'
    BY <1>1, <1>2, <1>6 DEF SaveGood, OneForm, HasAcked
  <1> QED BY <1>1, <1>3, <1>4, <1>5, <1>6 DEF SavesGood

LEMMA LockStep ==
  ASSUME VaultGood, NEW c \in VaultClients, Lock(c)
  PROVE  VaultGood'
  <1> USE DEF VaultGood
  <1>1. /\ saving[c] = Idle
        /\ opened' = [opened EXCEPT ![c] = NoVault] /\ clean' = clean \ {c}
        /\ UNCHANGED <<vaultFile, temporary, saving, acked, behind>>
    BY DEF Lock, Call
  <1>2. /\ opened' = [d \in VaultClients |-> opened'[d]] /\ opened'[c] = NoVault
        /\ \A d \in VaultClients : d # c => opened'[d] = opened[d]
    BY <1>1 DEF VaultTyped
  <1>3. VaultTyped'
    BY <1>1, <1>2 DEF VaultTyped
  <1>4. FileGood'
    BY <1>1 DEF FileGood, OneForm, HasAcked
  <1>5. CopiesGood'
    BY <1>1, <1>2 DEF CopiesGood, OneForm, HasAcked
  <1>6. ASSUME NEW d \in VaultClients, d # c, SaveGood(d) PROVE SaveGood(d)'
    BY <1>1, <1>2, <1>6 DEF SaveGood, OneForm, HasAcked
  <1> QED BY <1>1, <1>3, <1>4, <1>5, <1>6 DEF SavesGood

LEMMA DestroyStep ==
  ASSUME VaultGood, NEW c \in VaultClients, Destroy(c)
  PROVE  VaultGood'
  <1> USE DEF VaultGood
  <1>1. /\ saving[c] = Idle /\ vaultFile' = NoVault
        /\ opened' = [opened EXCEPT ![c] = NoVault] /\ clean' = {} /\ behind' = behind \cup Others(c)
        /\ acked' = [t \in Titles |-> {}] /\ UNCHANGED temporary
        /\ saving' = [d \in VaultClients |-> IF saving[d].on = "vault" THEN [saving[d] EXCEPT !.on = "gone"] ELSE saving[d]]
    BY DEF Destroy, Call
  <1>2. /\ opened' = [d \in VaultClients |-> opened'[d]] /\ opened'[c] = NoVault
        /\ \A d \in VaultClients : d # c => opened'[d] = opened[d]
    BY <1>1 DEF VaultTyped
  <1>3. \A d \in VaultClients : saving[d].on # "vault"
    BY IdleFacts DEF SavesGood, SaveGood, SavingCalls
  <1>4. saving' = saving
    BY <1>1, <1>3 DEF VaultTyped
  <1>5. VaultTyped'
    BY <1>1, <1>2, <1>4 DEF VaultTyped
  <1>6. FileGood'
    BY <1>1 DEF FileGood
  <1>7. \A d \in VaultClients : HasAcked(opened[d])' /\ HasAcked(saving[d].copy)'
    BY <1>1 DEF HasAcked
  <1>8. CopiesGood'
    BY <1>1, <1>2, <1>7 DEF CopiesGood, OneForm
  <1>9. ASSUME NEW d \in VaultClients, d # c, SaveGood(d) PROVE SaveGood(d)'
    BY <1>1, <1>2, <1>4, <1>7, <1>9 DEF SaveGood, OneForm
  <1> QED BY <1>1, <1>4, <1>5, <1>6, <1>8, <1>9 DEF SavesGood

LEMMA EncodedStep ==
  ASSUME VaultGood, NEW c \in VaultClients, Encoded(c)
  PROVE  VaultGood'
  <1> USE DEF VaultGood
  <1>1. /\ saving[c].at = "opened" /\ saving' = [saving EXCEPT ![c].at = "encoded"]
        /\ UNCHANGED <<opened, acked, clean, behind, mixed, calls>>
    BY DEF Encoded
  <1>2. SaveGood(c) /\ \A d \in VaultClients : d # c => saving[d] = Idle
    BY <1>1, IdleFacts DEF SavesGood
  <1>3. /\ saving[c] \in SavingCalls /\ saving[c].on = "temporary" /\ saving[c].alone = TRUE
    BY <1>2 DEF SaveGood, SavingCalls
  <1>4. temporary' = Database(saving[c].copy, TRUE) /\ vaultFile' = vaultFile
    BY <1>3 DEF Encoded
  <1>5. saving'[c] = [saving[c] EXCEPT !.at = "encoded"] /\ \A d \in VaultClients : d # c => saving'[d] = Idle
    BY <1>1, <1>2 DEF VaultTyped
  <1>6. saving'[c] \in SavingCalls /\ saving'[c].copy = saving[c].copy /\ saving'[c].call = saving[c].call /\ saving'[c].at = "encoded"
    BY <1>3, <1>5 DEF SavingCalls
  <1>7. saving' = [d \in VaultClients |-> saving'[d]]
    BY <1>1 DEF VaultTyped
  <1>8. VaultTyped'
    BY <1>1, <1>7 DEF VaultTyped
  <1>9. FileGood' /\ CopiesGood'
    BY <1>1, <1>4 DEF FileGood, CopiesGood, OneForm, HasAcked
  <1>10. temporary' = Database(saving'[c].copy, saving'[c].at = "encoded")
    BY <1>4, <1>6 DEF Database
  <1>11. SaveGood(c)'
    BY <1>1, <1>2, <1>6, <1>10 DEF SaveGood, OneForm, HasAcked
  <1> QED BY <1>5, <1>8, <1>9, <1>11 DEF SavesGood

\* A save that ends leaves no call in Save.
LEMMA MovesFacts ==
  ASSUME VaultGood, NEW c \in VaultClients, saving[c] # Idle, NEW place \in {"vault", "gone"}, Moves(c, place)
  PROVE  saving' = [d \in VaultClients |-> saving'[d]] /\ \A d \in VaultClients : saving'[d] = Idle
  <1>1. saving' = [d \in VaultClients |->
          IF d = c THEN Idle
          ELSE IF d \in AtTemporary THEN [saving[d] EXCEPT !.on = place]
          ELSE IF saving[d].on = "vault" /\ place = "vault" THEN [saving[d] EXCEPT !.on = "gone"]
          ELSE saving[d]]
    BY DEF Moves
  <1>2. ASSUME NEW d \in VaultClients, d # c PROVE saving[d] = Idle /\ d \notin AtTemporary /\ saving[d].on # "vault"
    BY <1>2, IdleFacts DEF VaultGood, SavesGood, AtTemporary
  <1>3. ASSUME NEW d \in VaultClients PROVE saving'[d] = Idle
    BY <1>1, <1>2
  <1> QED BY <1>1, <1>3

LEMMA RenamedStep ==
  ASSUME VaultGood, NEW c \in VaultClients, Renamed(c), ~mixed'
  PROVE  VaultGood'
  <1> USE DEF VaultGood
  <1>1. /\ saving[c].at = "encoded"
        /\ vaultFile' = temporary /\ temporary' = NoVault
        /\ Moves(c, "vault")
        /\ opened' = IF saving[c].call = "create" THEN [opened EXCEPT ![c] = saving[c].copy] ELSE opened
        /\ acked' = [t \in Titles |-> acked[t] \cup Stored(saving[c].copy, t)]
        /\ clean' = {d \in {c} : opened'[d] = saving[c].copy}
        /\ behind' = (behind \ {c}) \cup Others(c)
        /\ temporary # NoVault
    BY DEF Renamed
  <1>2. c \notin behind
    BY Zenon DEF Renamed
  <1>3. saving[c] # Idle /\ SaveGood(c)
    BY <1>1, IdleFacts DEF SavesGood
  <1>4. PICK copy : copy = saving[c].copy
    OBVIOUS
  <1>5. copy \in Copies /\ OneForm(copy) /\ HasAcked(copy) /\ temporary = Database(copy, TRUE)
    BY <1>1, <1>2, <1>3, <1>4 DEF SaveGood, SavingCalls
  <1>6. vaultFile' # NoVault /\ vaultFile'.copy = copy /\ vaultFile'.whole = TRUE
    BY <1>1, <1>5 DEF Database
  <1>7. saving' = [d \in VaultClients |-> saving'[d]] /\ \A d \in VaultClients : saving'[d] = Idle
    BY <1>1, <1>3, MovesFacts
  <1>8. /\ opened' = [d \in VaultClients |-> opened'[d]] /\ opened'[c] = copy
        /\ \A d \in VaultClients : d # c => opened'[d] = opened[d]
    BY <1>1, <1>3, <1>4 DEF VaultTyped, SaveGood
  <1>9. \A t \in Titles : acked'[t] = Stored(copy, t)
    BY <1>1, <1>4, <1>5 DEF HasAcked
  <1>10. acked' \in [Titles -> SUBSET Fields]
    <2>1. \A t \in Titles : acked'[t] \in SUBSET Fields
      BY <1>5, <1>9, StoredFacts
    <2> QED BY <1>1, <2>1
  <1>11. VaultTyped'
    BY <1>1, <1>7, <1>8, <1>10 DEF VaultTyped
  <1>12. OneForm(copy)' /\ HasAcked(copy)'
    BY <1>5, <1>9 DEF OneForm, HasAcked, Stored
  <1>13. FileGood'
    BY <1>5, <1>6, <1>12 DEF FileGood, OneForm, HasAcked
  <1>14. CopiesGood'
    <2> SUFFICES ASSUME NEW d \in VaultClients
                 PROVE  /\ d \in clean' => vaultFile' # NoVault /\ opened'[d] = vaultFile'.copy
                        /\ opened'[d] # NoVault => opened'[d] \in Copies /\ OneForm(opened[d])' /\ (d \notin behind' => HasAcked(opened[d])')
      BY DEF CopiesGood
    <2>1. CASE d = c
      BY <1>5, <1>6, <1>8, <1>12, <2>1 DEF OneForm, HasAcked
    <2>2. CASE d # c
      <3>1. d \notin clean'
        BY <1>1, <2>2
      <3>2. opened[d] # NoVault => d \in behind'
        BY <1>1, <2>2 DEF Others
      <3> QED BY <1>8, <2>2, <3>1, <3>2 DEF CopiesGood, OneForm
    <2> QED BY <2>1, <2>2
  <1>15. SavesGood'
    BY <1>7 DEF SavesGood
  <1> QED BY <1>11, <1>13, <1>14, <1>15

LEMMA FailsStep ==
  ASSUME VaultGood, NEW c \in VaultClients, SaveFails(c)
  PROVE  VaultGood'
  <1> USE DEF VaultGood
  <1>1. saving[c] # Idle /\ UNCHANGED <<vaultFile, opened, acked, clean, behind, mixed, calls>>
    BY DEF SaveFails
  <1>2. \A d \in VaultClients : d # c => saving[d] = Idle
    BY <1>1 DEF SavesGood
  <1>3. saving' = [d \in VaultClients |-> saving'[d]] /\ \A d \in VaultClients : saving'[d] = Idle
    <2>1. CASE Moves(c, "gone")
      BY <1>1, <2>1, MovesFacts
    <2>2. CASE saving' = [saving EXCEPT ![c] = Idle]
      BY <1>2, <2>2 DEF VaultTyped
    <2> QED BY <2>1, <2>2 DEF SaveFails
  <1>4. VaultTyped'
    BY <1>1, <1>3 DEF VaultTyped
  <1>5. FileGood' /\ CopiesGood'
    BY <1>1 DEF FileGood, CopiesGood, OneForm, HasAcked
  <1>6. SavesGood'
    BY <1>3 DEF SavesGood
  <1> QED BY <1>4, <1>5, <1>6

LEMMA RestartStep ==
  ASSUME VaultGood, Restart
  PROVE  VaultGood'
  <1> USE DEF VaultGood
  <1>1. /\ opened' = [c \in VaultClients |-> NoVault] /\ saving' = [c \in VaultClients |-> Idle] /\ clean' = {}
        /\ UNCHANGED <<vaultFile, acked>>
    BY DEF Restart
  <1>2. VaultTyped' /\ SavesGood' /\ CopiesGood'
    BY <1>1 DEF VaultTyped, SavesGood, CopiesGood
  <1>3. FileGood'
    BY <1>1 DEF FileGood, OneForm, HasAcked
  <1> QED BY <1>2, <1>3

LEMMA VaultMoves == VaultInv /\ [VaultNext]_vaultVars => VaultInv'
  <1> SUFFICES ASSUME VaultInv, [VaultNext]_vaultVars, ~mixed' PROVE VaultGood'
    BY Zenon DEF VaultInv
  <1>1. ~mixed
    <2>1. CASE UNCHANGED vaultVars
      BY <2>1, Zenon DEF vaultVars
    <2>2. CASE VaultNext
      <3>1. ASSUME NEW c \in VaultClients, NEW call, NEW copy, Saves(c, call, copy) PROVE ~mixed
        BY <3>1, Zenon DEF Saves
      <3> QED BY <2>2, <3>1, ZenonT(30) DEF VaultNext, Lock, Destroy, Encoded, Renamed, SaveFails, CreateVault, Unlock, ChangePassword, Delete, Put, Edit, Restart
    <2> QED BY <2>1, <2>2
  <1>2. VaultGood
    BY <1>1 DEF VaultInv
  <1>3. CASE UNCHANGED vaultVars
    <2>1. UNCHANGED <<vaultFile, temporary, opened, saving, acked, clean, behind>>
      BY <1>3 DEF vaultVars
    <2>2. VaultTyped' /\ FileGood' /\ CopiesGood'
      BY <1>2, <2>1 DEF VaultGood, VaultTyped, FileGood, CopiesGood, OneForm, HasAcked
    <2>3. \A c \in VaultClients : SaveGood(c) => SaveGood(c)'
      BY <2>1 DEF SaveGood, OneForm, HasAcked
    <2>4. SavesGood'
      BY <1>2, <2>1, <2>3 DEF VaultGood, SavesGood
    <2> QED BY <2>2, <2>4 DEF VaultGood
  <1>4. ASSUME NEW c \in VaultClients, Lock(c) \/ Destroy(c) \/ Encoded(c) \/ Renamed(c) \/ SaveFails(c) PROVE VaultGood'
    BY <1>2, <1>4, LockStep, DestroyStep, EncodedStep, RenamedStep, FailsStep
  <1>5. ASSUME NEW c \in VaultClients, NEW password \in Passwords,
               CreateVault(c, password) \/ Unlock(c, password) \/ ChangePassword(c, password) PROVE VaultGood'
    BY <1>2, <1>5, CreateStep, UnlockStep, PasswordStep
  <1>6. ASSUME NEW c \in VaultClients, NEW title \in Titles, Delete(c, title) PROVE VaultGood'
    BY <1>2, <1>6, DeleteStep
  <1>7. ASSUME NEW c \in VaultClients, NEW title \in Titles, NEW given \in SUBSET Fields, Put(c, title, given) PROVE VaultGood'
    BY <1>2, <1>7, PutStep
  <1>8. CASE Restart
    BY <1>2, <1>8, RestartStep
  <1> QED BY <1>3, <1>4, <1>5, <1>6, <1>7, <1>8 DEF VaultNext

LEMMA VaultImplied == VaultInv => VaultKept
  <1> SUFFICES ASSUME VaultGood PROVE VaultKept
    BY DEF VaultInv, VaultKept
  <1>1. vaultFile # NoVault => vaultFile.whole /\ \A t \in Titles : ~(OneTime \subseteq Stored(vaultFile.copy, t))
    BY DEF VaultGood, FileGood, OneForm
  <1>2. \A t \in Titles : acked[t] # {} => vaultFile # NoVault /\ acked[t] \subseteq Stored(vaultFile.copy, t)
    BY DEF VaultGood, FileGood, HasAcked
  <1>3. \A c \in clean : vaultFile # NoVault /\ opened[c] = vaultFile.copy
    BY DEF VaultGood, VaultTyped, CopiesGood
  <1> QED BY <1>1, <1>2, <1>3 DEF VaultKept

\* As long as no session writes over another's save (pkg/vault), the database is
\* whole, holds every field that was reported as stored, and is what a session
\* whose last call succeeded has in its hands, whatever failed or was cut off.
THEOREM VaultIsKept == VaultSpec => []VaultKept
  <1>1. VaultSpec => []VaultInv
    BY VaultStarts, VaultMoves, PTL DEF VaultSpec
  <1> QED BY <1>1, VaultImplied, PTL

-----------------------------------------------------------------------------
(* The bridges that are installed (pkg/hub).                                *)
MaybeBinary == Binaries \cup {NoBinary}
Calls == [op : {"install", "uninstall"}, bridge : Bridges, wants : MaybeBinary,
          step : {"fetch", "record", "add", "remove", "erase"}] \cup {Resting}

RegistryTyped ==
  /\ config \in [Bridges -> MaybeBinary] /\ configDisk \in [Bridges -> MaybeBinary]
  /\ supervised \in [Bridges -> MaybeBinary] /\ binary \in [Bridges -> MaybeBinary]
  /\ promisedAt \in [Bridges -> MaybeBinary] /\ registry \in [Bridges -> Binaries]
  /\ catalogue.entries \in [Bridges -> MaybeBinary]
  /\ installing \in [HubClients -> Calls]

\* A bridge that is known anywhere has a binary.
Runs(b) ==
  /\ configDisk[b] # NoBinary => binary[b] # NoBinary
  /\ supervised[b] # NoBinary => binary[b] # NoBinary
  /\ config[b] # NoBinary => binary[b] # NoBinary

\* It is what its last call reported.
Told(b) ==
  b \notin cut => /\ config[b] = promisedAt[b] /\ configDisk[b] = promisedAt[b]
                  /\ supervised[b] = promisedAt[b] /\ binary[b] = promisedAt[b]

\* How far the call on a bridge has come.
Stage(b, call) ==
  \/ /\ call.op = "install" /\ call.step = "fetch"
     /\ Runs(b) /\ Told(b)
  \/ /\ call.op = "install" /\ call.step = "record"
     /\ binary[b] = call.wants /\ call.wants # NoBinary
  \/ /\ call.op = "install" /\ call.step = "add"
     /\ binary[b] = call.wants /\ call.wants # NoBinary
     /\ config[b] = call.wants /\ configDisk[b] = call.wants
  \/ /\ call.op = "uninstall" /\ call.step = "remove"
     /\ config[b] = NoBinary /\ configDisk[b] = NoBinary /\ promisedAt[b] = NoBinary
     /\ supervised[b] # NoBinary => binary[b] # NoBinary
  \/ /\ call.op = "uninstall" /\ call.step = "erase"
     /\ config[b] = NoBinary /\ configDisk[b] = NoBinary /\ promisedAt[b] = NoBinary /\ supervised[b] = NoBinary

Works(c, b) == installing[c].bridge = b

\* As long as a bridge was not crowded: one call at most works on it, and it is
\* as that call, or the last one, left it.
Bridge(b) ==
  /\ \A c, d \in HubClients : Works(c, b) /\ Works(d, b) => c = d
  /\ \A c \in HubClients : Works(c, b) => Stage(b, installing[c])
  /\ (\A c \in HubClients : ~Works(c, b)) => Runs(b) /\ Told(b)

RegistryInv == RegistryTyped /\ \A b \in Bridges : b \notin crowded => Bridge(b)

LEMMA RegistryStarts == RegistryInit => RegistryInv
  <1> SUFFICES ASSUME RegistryInit PROVE RegistryInv
    OBVIOUS
  <1>1. /\ config = NoBridges /\ configDisk = NoBridges /\ supervised = NoBridges /\ binary = NoBridges
        /\ promisedAt = NoBridges /\ registry \in [Bridges -> Binaries] /\ catalogue.entries = NoBridges
        /\ installing = [c \in HubClients |-> Resting]
    BY DEF RegistryInit
  <1>2. NoBridges \in [Bridges -> MaybeBinary] /\ \A b \in Bridges : NoBridges[b] = NoBinary
    BY DEF NoBridges, MaybeBinary
  <1>3. Resting \in Calls /\ Resting.bridge = NoBinary
    BY DEF Resting, Calls
  <1>4. RegistryTyped
    BY <1>1, <1>2, <1>3 DEF RegistryTyped
  <1>5. ASSUME NEW b \in Bridges PROVE Bridge(b)
    <2>1. \A c \in HubClients : ~Works(c, b)
      BY <1>1, <1>3, RegistryAssumption DEF Works
    <2>2. Runs(b) /\ Told(b)
      BY <1>1, <1>2 DEF Runs, Told
    <2> QED BY <2>1, <2>2 DEF Bridge
  <1> QED BY <1>4, <1>5 DEF RegistryInv

\* What a step leaves of a bridge it does not touch: a save of the whole
\* configuration may bring its entry up to date.
LEMMA BridgeKept ==
  ASSUME NEW b \in Bridges, Bridge(b),
         config'[b] = config[b], configDisk'[b] \in {configDisk[b], config[b]}, supervised'[b] = supervised[b],
         binary'[b] = binary[b], promisedAt'[b] = promisedAt[b], b \in cut' <=> b \in cut,
         \A c \in HubClients : (Works(c, b)' <=> Works(c, b)) /\ (Works(c, b) => installing'[c] = installing[c])
  PROVE  Bridge(b)'
  <1>1. (Runs(b) => Runs(b)') /\ (Told(b) => Told(b)')
    BY DEF Runs, Told
  <1>2. ASSUME NEW c \in HubClients, Works(c, b)' PROVE Stage(b, installing[c])'
    <2>1. installing'[c] = installing[c] /\ Stage(b, installing[c])
      BY <1>2 DEF Bridge
    <2> QED BY <1>1, <2>1 DEF Stage
  <1> QED BY <1>1, <1>2 DEF Bridge

\* The call of a client goes on, or ends; the others' do not.
LEMMA CallMoved ==
  ASSUME RegistryTyped, NEW c \in HubClients, NEW new \in Calls, installing' = [installing EXCEPT ![c] = new]
  PROVE  /\ installing' \in [HubClients -> Calls] /\ installing'[c] = new
         /\ \A d \in HubClients : d # c => installing'[d] = installing[d]
  BY DEF RegistryTyped

\* A step of a client's call, on the one bridge it works on.
LEMMA CallStep ==
  ASSUME RegistryInv, NEW c \in HubClients, NEW b \in Bridges, NEW new \in Calls,
         Works(c, b), new.bridge \in {b, NoBinary}, installing' = [installing EXCEPT ![c] = new], UNCHANGED crowded,
         \A o \in Bridges : o # b =>
           /\ config'[o] = config[o] /\ configDisk'[o] \in {configDisk[o], config[o]}
           /\ supervised'[o] = supervised[o] /\ binary'[o] = binary[o]
           /\ promisedAt'[o] = promisedAt[o] /\ (o \in cut' <=> o \in cut),
         Bridge(b) => IF new.bridge = b THEN Stage(b, new)' ELSE Runs(b)' /\ Told(b)'
  PROVE  \A o \in Bridges : o \notin crowded' => Bridge(o)'
  <1>1. /\ installing'[c] = new /\ \A d \in HubClients : d # c => installing'[d] = installing[d]
    BY CallMoved DEF RegistryInv
  <1>2. b # NoBinary
    BY RegistryAssumption
  <1>3. ASSUME NEW o \in Bridges, o \notin crowded', o # b PROVE Bridge(o)'
    <2>1. \A d \in HubClients : (Works(d, o)' <=> Works(d, o)) /\ (Works(d, o) => installing'[d] = installing[d])
      BY <1>1, <1>3, RegistryAssumption DEF Works
    <2>2. Bridge(o)
      BY <1>3 DEF RegistryInv
    <2> QED BY <1>3, <2>1, <2>2, BridgeKept
  <1>4. ASSUME b \notin crowded' PROVE Bridge(b)'
    <2>1. Bridge(b)
      BY <1>4 DEF RegistryInv
    <2>2. \A d \in HubClients : d # c => ~Works(d, b)
      BY <2>1 DEF Bridge
    <2>3. \A d \in HubClients : d # c => ~Works(d, b)'
      BY <1>1, <2>2 DEF Works
    <2>4. CASE new.bridge = b
      <3>1. Stage(b, new)'
        BY <2>1, <2>4
      <3>2. Works(c, b)' /\ Stage(b, installing[c])'
        BY <1>1, <2>4, <3>1 DEF Works, Stage
      <3> QED BY <2>3, <3>2 DEF Bridge
    <2>5. CASE new.bridge # b
      <3>1. ~Works(c, b)' /\ Runs(b)' /\ Told(b)'
        BY <1>1, <2>1, <2>5 DEF Works
      <3> QED BY <2>3, <3>1 DEF Bridge
    <2> QED BY <2>4, <2>5
  <1> QED BY <1>3, <1>4

LEMMA MeetFacts ==
  ASSUME NEW b \in Bridges, crowded' = Meet(b)
  PROVE  /\ \A o \in Bridges : o \notin crowded' => o \notin crowded
         /\ b \notin crowded' => \A d \in HubClients : ~Works(d, b)
  BY DEF Meet, Works

\* A call begins on a bridge: if another one works on it, it is crowded.
LEMMA BeginStep ==
  ASSUME RegistryInv, NEW c \in HubClients, NEW b \in Bridges, NEW new \in Calls,
         installing[c] = Resting, new.bridge = b, installing' = [installing EXCEPT ![c] = new], crowded' = Meet(b),
         \A o \in Bridges : o # b =>
           /\ config'[o] = config[o] /\ configDisk'[o] \in {configDisk[o], config[o]}
           /\ supervised'[o] = supervised[o] /\ binary'[o] = binary[o]
           /\ promisedAt'[o] = promisedAt[o] /\ (o \in cut' <=> o \in cut),
         Runs(b) /\ Told(b) => Stage(b, new)'
  PROVE  \A o \in Bridges : o \notin crowded' => Bridge(o)'
  <1>1. /\ installing'[c] = new /\ \A d \in HubClients : d # c => installing'[d] = installing[d]
    BY CallMoved DEF RegistryInv
  <1>2. \A o \in Bridges : ~Works(c, o)
    BY RegistryAssumption DEF Works, Resting
  <1>3. ASSUME NEW o \in Bridges, o \notin crowded', o # b PROVE Bridge(o)'
    <2>1. \A d \in HubClients : (Works(d, o)' <=> Works(d, o)) /\ (Works(d, o) => installing'[d] = installing[d])
      BY <1>1, <1>2, <1>3 DEF Works
    <2>2. Bridge(o)
      BY <1>3, MeetFacts DEF RegistryInv
    <2> QED BY <1>3, <2>1, <2>2, BridgeKept
  <1>4. ASSUME b \notin crowded' PROVE Bridge(b)'
    <2>1. Bridge(b) /\ \A d \in HubClients : ~Works(d, b)
      BY <1>4, MeetFacts DEF RegistryInv
    <2>2. Stage(b, new)'
      BY <2>1 DEF Bridge
    <2>3. Works(c, b)' /\ Stage(b, installing[c])'
      BY <1>1, <2>2 DEF Works, Stage
    <2>4. \A d \in HubClients : d # c => ~Works(d, b)'
      BY <1>1, <2>1 DEF Works
    <2> QED BY <2>3, <2>4 DEF Bridge
  <1> QED BY <1>3, <1>4

\* One entry of a map.
LEMMA EntrySet ==
  ASSUME NEW f \in [Bridges -> MaybeBinary], NEW b \in Bridges, NEW v \in MaybeBinary
  PROVE  /\ [f EXCEPT ![b] = v] \in [Bridges -> MaybeBinary] /\ [f EXCEPT ![b] = v][b] = v
         /\ \A o \in Bridges : o # b => [f EXCEPT ![b] = v][o] = f[o]
  OBVIOUS

\* What a client at work has in its hands, and how its call goes on and ends.
LEMMA AtWork ==
  ASSUME RegistryTyped, NEW c \in HubClients, installing[c].op # "none"
  PROVE  /\ installing[c].bridge \in Bridges /\ installing[c].wants \in MaybeBinary
         /\ \A step \in {"record", "add", "erase"} : CallGoes(c, step) =>
              \E new \in Calls : /\ new.bridge = installing[c].bridge /\ new.op = installing[c].op
                                 /\ new.wants = installing[c].wants /\ new.step = step
                                 /\ installing' = [installing EXCEPT ![c] = new]
  <1>1. /\ installing[c] \in [op : {"install", "uninstall"}, bridge : Bridges, wants : MaybeBinary,
                              step : {"fetch", "record", "add", "remove", "erase"}]
    BY DEF RegistryTyped, Calls, Resting
  <1>2. ASSUME NEW step \in {"record", "add", "erase"}, CallGoes(c, step)
        PROVE  \E new \in Calls : /\ new.bridge = installing[c].bridge /\ new.op = installing[c].op
                                  /\ new.wants = installing[c].wants /\ new.step = step
                                  /\ installing' = [installing EXCEPT ![c] = new]
    <2> DEFINE on == [installing[c] EXCEPT !.step = step]
    <2>1. on \in Calls /\ on.bridge = installing[c].bridge /\ on.op = installing[c].op /\ on.wants = installing[c].wants /\ on.step = step
      BY <1>1 DEF Calls
    <2>2. installing' = [installing EXCEPT ![c] = on]
      BY <1>2 DEF CallGoes
    <2> QED BY <2>1, <2>2
  <1> QED BY <1>1, <1>2

LEMMA AtEnd ==
  ASSUME NEW c \in HubClients, CallDone(c)
  PROVE  \E new \in Calls : new.bridge = NoBinary /\ new = Resting /\ installing' = [installing EXCEPT ![c] = new]
  BY DEF CallDone, Calls, Resting

\* The calls that begin by what they want.
LEMMA InstallBegins ==
  ASSUME RegistryInv, NEW c \in HubClients, NEW b \in Bridges, NEW wants \in MaybeBinary,
         BeginCall(c, "install", b, wants, "fetch"), catalogue'.entries \in [Bridges -> MaybeBinary],
         UNCHANGED <<config, configDisk, supervised, binary, registry, promisedAt, cut>>
  PROVE  RegistryInv'
  <1> DEFINE new == [op |-> "install", bridge |-> b, wants |-> wants, step |-> "fetch"]
  <1>1. new \in Calls /\ new.bridge = b /\ new.op = "install" /\ new.step = "fetch"
    BY DEF Calls
  <1>2. installing[c] = Resting /\ installing' = [installing EXCEPT ![c] = new] /\ crowded' = Meet(b)
    BY DEF BeginCall
  <1> HIDE DEF new
  <1>3. Runs(b) /\ Told(b) => Stage(b, new)'
    BY <1>1 DEF Runs, Told, Stage
  <1>4. \A o \in Bridges : o \notin crowded' => Bridge(o)'
    BY <1>1, <1>2, <1>3, BeginStep
  <1>5. RegistryTyped'
    BY <1>1, <1>2, CallMoved DEF RegistryInv, RegistryTyped
  <1> QED BY <1>4, <1>5 DEF RegistryInv

LEMMA CatalogTyped ==
  ASSUME RegistryTyped, NEW refresh \in BOOLEAN
  PROVE  Catalog(refresh).entries \in [Bridges -> MaybeBinary]
  <1>1. registry \in [Bridges -> MaybeBinary]
    BY DEF RegistryTyped, MaybeBinary
  <1>2. [entries |-> registry, age |-> 0].entries = registry
    OBVIOUS
  <1> QED BY <1>1, <1>2 DEF Catalog, RegistryTyped

LEMMA FetchStep ==
  ASSUME RegistryInv, NEW c \in HubClients, NEW found \in Binaries, FetchBridge(c, found)
  PROVE  RegistryInv'
  <1>t. RegistryTyped
    BY DEF RegistryInv
  <1>1. installing[c].op = "install" /\ installing[c].step = "fetch"
        /\ UNCHANGED <<config, configDisk, supervised, registry, catalogue, promisedAt, crowded, cut, hubCalls>>
    BY DEF FetchBridge, CallAt
  <1>2. PICK b \in Bridges : b = installing[c].bridge
    BY <1>t, <1>1, AtWork
  <1>3. Works(c, b) /\ found \in MaybeBinary /\ found # NoBinary
    BY <1>2, RegistryAssumption DEF Works, MaybeBinary
  <1>4. CASE found = installing[c].wants
    <2>1. binary' = [binary EXCEPT ![b] = found] /\ CallGoes(c, "record")
      BY <1>2, <1>4 DEF FetchBridge, Verified
    <2>2. PICK new \in Calls : new.bridge = b /\ new.op = "install" /\ new.wants = found /\ new.step = "record"
                               /\ installing' = [installing EXCEPT ![c] = new]
      BY <1>t, <1>1, <1>2, <1>4, <2>1, AtWork
    <2>3. /\ binary' \in [Bridges -> MaybeBinary] /\ binary'[b] = found /\ \A o \in Bridges : o # b => binary'[o] = binary[o]
      BY <1>t, <1>3, <2>1, EntrySet DEF RegistryTyped
    <2>4. Stage(b, new)'
      BY <1>3, <2>2, <2>3 DEF Stage
    <2>5. \A o \in Bridges : o \notin crowded' => Bridge(o)'
      BY <1>1, <1>3, <2>2, <2>3, <2>4, CallStep
    <2>6. RegistryTyped'
      BY <1>t, <1>1, <2>2, <2>3, CallMoved DEF RegistryTyped
    <2> QED BY <2>5, <2>6 DEF RegistryInv
  <1>5. CASE found # installing[c].wants
    <2>1. binary' = binary /\ CallDone(c)
      BY <1>5 DEF FetchBridge, Verified
    <2>2. PICK new \in Calls : new.bridge = NoBinary /\ installing' = [installing EXCEPT ![c] = new]
      BY <2>1, AtEnd
    <2>3. Bridge(b) => Runs(b)' /\ Told(b)'
      <3>1. Bridge(b) => Runs(b) /\ Told(b)
        BY <1>1, <1>3 DEF Bridge, Stage
      <3> QED BY <1>1, <2>1, <3>1 DEF Runs, Told
    <2>4. new.bridge # b
      BY <2>2, RegistryAssumption
    <2>5. \A o \in Bridges : o \notin crowded' => Bridge(o)'
      BY <1>1, <1>3, <2>1, <2>2, <2>3, <2>4, CallStep
    <2>6. RegistryTyped'
      BY <1>t, <1>1, <2>1, <2>2, CallMoved DEF RegistryTyped
    <2> QED BY <2>5, <2>6 DEF RegistryInv
  <1> QED BY <1>4, <1>5

\* What updateConfig leaves of the configuration.
LEMMA UpdateFacts ==
  ASSUME RegistryTyped, NEW b \in Bridges, NEW to \in MaybeBinary, NEW saved \in BOOLEAN, UpdateConfig(b, to, saved)
  PROVE  /\ config' \in [Bridges -> MaybeBinary] /\ configDisk' \in [Bridges -> MaybeBinary]
         /\ config'[b] = to /\ \A o \in Bridges : o # b => config'[o] = config[o]
         /\ saved => configDisk' = config' /\ cut' = cut
         /\ ~saved => configDisk' = configDisk /\ cut' = cut \cup {b}
  BY EntrySet DEF UpdateConfig, RegistryTyped

LEMMA RecordStep ==
  ASSUME RegistryInv, NEW c \in HubClients, RecordBridge(c)
  PROVE  RegistryInv'
  <1>t. RegistryTyped
    BY DEF RegistryInv
  <1>1. installing[c].op = "install" /\ installing[c].step = "record"
        /\ UNCHANGED <<supervised, binary, registry, catalogue, promisedAt, crowded, hubCalls>>
    BY DEF RecordBridge, CallAt
  <1>2. PICK b \in Bridges : b = installing[c].bridge
    BY <1>t, <1>1, AtWork
  <1>3. PICK saved \in BOOLEAN : UpdateConfig(b, installing[c].wants, saved) /\ (IF saved THEN CallGoes(c, "add") ELSE CallDone(c))
    BY <1>2 DEF RecordBridge
  <1>4. Works(c, b) /\ installing[c].wants \in MaybeBinary
    BY <1>t, <1>1, <1>2, AtWork DEF Works
  <1>5. /\ config' \in [Bridges -> MaybeBinary] /\ configDisk' \in [Bridges -> MaybeBinary]
        /\ config'[b] = installing[c].wants /\ \A o \in Bridges : o # b => config'[o] = config[o]
        /\ saved => configDisk' = config' /\ cut' = cut
        /\ ~saved => configDisk' = configDisk /\ cut' = cut \cup {b}
    BY <1>t, <1>3, <1>4, UpdateFacts
  <1>6. Bridge(b) => binary[b] = installing[c].wants /\ installing[c].wants # NoBinary
    BY <1>1, <1>4 DEF Bridge, Stage
  <1>7. CASE saved
    <2>1. PICK new \in Calls : new.bridge = b /\ new.op = "install" /\ new.wants = installing[c].wants /\ new.step = "add"
                               /\ installing' = [installing EXCEPT ![c] = new]
      BY <1>t, <1>1, <1>2, <1>3, <1>7, AtWork
    <2>2. Bridge(b) => Stage(b, new)'
      BY <1>1, <1>5, <1>6, <1>7, <2>1 DEF Stage
    <2>5. \A o \in Bridges : o \notin crowded' => Bridge(o)'
      BY <1>1, <1>4, <1>5, <1>7, <2>1, <2>2, CallStep
    <2>6. RegistryTyped'
      BY <1>t, <1>1, <1>5, <2>1, CallMoved DEF RegistryTyped
    <2> QED BY <2>5, <2>6 DEF RegistryInv
  <1>8. CASE ~saved
    <2>1. PICK new \in Calls : new.bridge = NoBinary /\ installing' = [installing EXCEPT ![c] = new]
      BY <1>3, <1>8, AtEnd
    <2>2. Bridge(b) => Runs(b)' /\ Told(b)'
      BY <1>1, <1>5, <1>6, <1>8 DEF Runs, Told
    <2>4. new.bridge # b
      BY <2>1, RegistryAssumption
    <2>5. \A o \in Bridges : o \notin crowded' => Bridge(o)'
      BY <1>1, <1>4, <1>5, <1>8, <2>1, <2>2, <2>4, CallStep
    <2>6. RegistryTyped'
      BY <1>t, <1>1, <1>5, <2>1, CallMoved DEF RegistryTyped
    <2> QED BY <2>5, <2>6 DEF RegistryInv
  <1> QED BY <1>7, <1>8

LEMMA AddStep ==
  ASSUME RegistryInv, NEW c \in HubClients, AddBridge(c)
  PROVE  RegistryInv'
  <1>t. RegistryTyped
    BY DEF RegistryInv
  <1>1. /\ installing[c].op = "install" /\ installing[c].step = "add" /\ CallDone(c)
        /\ UNCHANGED <<config, configDisk, binary, registry, catalogue, crowded, hubCalls>>
    BY DEF AddBridge, CallAt
  <1>2. PICK b \in Bridges : b = installing[c].bridge
    BY <1>t, <1>1, AtWork
  <1>3. /\ supervised' = [supervised EXCEPT ![b] = installing[c].wants]
        /\ promisedAt' = [promisedAt EXCEPT ![b] = installing[c].wants] /\ cut' = cut \ {b}
    BY <1>2 DEF AddBridge
  <1>4. Works(c, b) /\ installing[c].wants \in MaybeBinary
    BY <1>t, <1>1, <1>2, AtWork DEF Works
  <1>5. /\ supervised' \in [Bridges -> MaybeBinary] /\ promisedAt' \in [Bridges -> MaybeBinary]
        /\ supervised'[b] = installing[c].wants /\ promisedAt'[b] = installing[c].wants
        /\ \A o \in Bridges : o # b => supervised'[o] = supervised[o] /\ promisedAt'[o] = promisedAt[o]
    BY <1>t, <1>3, <1>4, EntrySet DEF RegistryTyped
  <1>6. PICK new \in Calls : new.bridge = NoBinary /\ installing' = [installing EXCEPT ![c] = new]
    BY <1>1, AtEnd
  <1>7. Bridge(b) => Runs(b)' /\ Told(b)'
    <2>1. Bridge(b) => /\ binary[b] = installing[c].wants /\ installing[c].wants # NoBinary
                       /\ config[b] = installing[c].wants /\ configDisk[b] = installing[c].wants
      BY <1>1, <1>4 DEF Bridge, Stage
    <2> QED BY <1>1, <1>5, <2>1 DEF Runs, Told
  <1>8. new.bridge # b
    BY <1>6, RegistryAssumption
  <1>9. \A o \in Bridges : o \notin crowded' => Bridge(o)'
    BY <1>1, <1>3, <1>4, <1>5, <1>6, <1>7, <1>8, CallStep
  <1>10. RegistryTyped'
    BY <1>t, <1>1, <1>5, <1>6, CallMoved DEF RegistryTyped
  <1> QED BY <1>9, <1>10 DEF RegistryInv

LEMMA RemoveStep ==
  ASSUME RegistryInv, NEW c \in HubClients, RemoveBridge(c)
  PROVE  RegistryInv'
  <1>t. RegistryTyped /\ NoBinary \in MaybeBinary
    BY DEF RegistryInv, MaybeBinary
  <1>1. /\ installing[c].op = "uninstall" /\ installing[c].step = "remove" /\ CallGoes(c, "erase")
        /\ UNCHANGED <<config, configDisk, binary, registry, catalogue, promisedAt, crowded, cut, hubCalls>>
    BY DEF RemoveBridge, CallAt
  <1>2. PICK b \in Bridges : b = installing[c].bridge
    BY <1>t, <1>1, AtWork
  <1>3. supervised' = [supervised EXCEPT ![b] = NoBinary]
    BY <1>2 DEF RemoveBridge
  <1>4. Works(c, b)
    BY <1>2 DEF Works
  <1>5. /\ supervised' \in [Bridges -> MaybeBinary] /\ supervised'[b] = NoBinary
        /\ \A o \in Bridges : o # b => supervised'[o] = supervised[o]
    BY <1>t, <1>3, EntrySet DEF RegistryTyped
  <1>6. PICK new \in Calls : new.bridge = b /\ new.op = "uninstall" /\ new.step = "erase"
                             /\ installing' = [installing EXCEPT ![c] = new]
    BY <1>t, <1>1, <1>2, AtWork
  <1>7. Bridge(b) => Stage(b, new)'
    BY <1>1, <1>4, <1>5, <1>6 DEF Bridge, Stage
  <1>9. \A o \in Bridges : o \notin crowded' => Bridge(o)'
    BY <1>1, <1>4, <1>5, <1>6, <1>7, CallStep
  <1>10. RegistryTyped'
    BY <1>t, <1>1, <1>5, <1>6, CallMoved DEF RegistryTyped
  <1> QED BY <1>9, <1>10 DEF RegistryInv

LEMMA EraseStep ==
  ASSUME RegistryInv, NEW c \in HubClients, EraseBinary(c)
  PROVE  RegistryInv'
  <1>t. RegistryTyped /\ NoBinary \in MaybeBinary
    BY DEF RegistryInv, MaybeBinary
  <1>1. /\ installing[c].op = "uninstall" /\ installing[c].step = "erase" /\ CallDone(c)
        /\ UNCHANGED <<config, configDisk, supervised, registry, catalogue, promisedAt, crowded, hubCalls>>
    BY DEF EraseBinary, CallAt
  <1>2. PICK b \in Bridges : b = installing[c].bridge
    BY <1>t, <1>1, AtWork
  <1>3. \/ binary' = [binary EXCEPT ![b] = NoBinary] /\ cut' = cut
        \/ cut' = cut \cup {b} /\ binary' = binary
    BY <1>2 DEF EraseBinary
  <1>4. Works(c, b)
    BY <1>2 DEF Works
  <1>5. /\ binary' \in [Bridges -> MaybeBinary] /\ (b \notin cut' => binary'[b] = NoBinary)
        /\ \A o \in Bridges : o # b => binary'[o] = binary[o] /\ (o \in cut' <=> o \in cut)
    BY <1>t, <1>3, EntrySet DEF RegistryTyped
  <1>6. PICK new \in Calls : new.bridge = NoBinary /\ installing' = [installing EXCEPT ![c] = new]
    BY <1>1, AtEnd
  <1>7. Bridge(b) => Runs(b)' /\ Told(b)'
    <2>1. Bridge(b) => config[b] = NoBinary /\ configDisk[b] = NoBinary /\ promisedAt[b] = NoBinary /\ supervised[b] = NoBinary
      BY <1>1, <1>4 DEF Bridge, Stage
    <2> QED BY <1>1, <1>5, <2>1 DEF Runs, Told
  <1>8. new.bridge # b
    BY <1>6, RegistryAssumption
  <1>9. \A o \in Bridges : o \notin crowded' => Bridge(o)'
    BY <1>1, <1>4, <1>5, <1>6, <1>7, <1>8, CallStep
  <1>10. RegistryTyped'
    BY <1>t, <1>1, <1>5, <1>6, CallMoved DEF RegistryTyped
  <1> QED BY <1>9, <1>10 DEF RegistryInv

LEMMA UninstallStep ==
  ASSUME RegistryInv, NEW c \in HubClients, NEW b \in Bridges, Uninstall(c, b)
  PROVE  RegistryInv'
  <1>t. RegistryTyped /\ NoBinary \in MaybeBinary
    BY DEF RegistryInv, MaybeBinary
  <1>1. promisedAt' = [promisedAt EXCEPT ![b] = NoBinary] /\ UNCHANGED <<supervised, binary, registry, catalogue>>
    BY DEF Uninstall
  <1>2. PICK saved \in BOOLEAN :
          /\ UpdateConfig(b, NoBinary, saved)
          /\ IF saved THEN BeginCall(c, "uninstall", b, NoBinary, "remove")
             ELSE SpendCall /\ installing[c] = Resting /\ UNCHANGED installing /\ crowded' = Meet(b)
    BY DEF Uninstall
  <1>3. /\ config' \in [Bridges -> MaybeBinary] /\ configDisk' \in [Bridges -> MaybeBinary]
        /\ config'[b] = NoBinary /\ \A o \in Bridges : o # b => config'[o] = config[o]
        /\ saved => configDisk' = config' /\ cut' = cut
        /\ ~saved => configDisk' = configDisk /\ cut' = cut \cup {b}
    BY <1>t, <1>2, UpdateFacts
  <1>4. /\ promisedAt' \in [Bridges -> MaybeBinary] /\ promisedAt'[b] = NoBinary
        /\ \A o \in Bridges : o # b => promisedAt'[o] = promisedAt[o]
    BY <1>t, <1>1, EntrySet DEF RegistryTyped
  <1>5. CASE saved
    <2> DEFINE call == [op |-> "uninstall", bridge |-> b, wants |-> NoBinary, step |-> "remove"]
    <2>1. call \in Calls /\ call.bridge = b /\ call.op = "uninstall" /\ call.step = "remove"
      BY <1>t DEF Calls
    <2>2. installing[c] = Resting /\ installing' = [installing EXCEPT ![c] = call] /\ crowded' = Meet(b)
      BY <1>2, <1>5 DEF BeginCall
    <2> HIDE DEF call
    <2>3. Runs(b) /\ Told(b) => Stage(b, call)'
      BY <1>1, <1>3, <1>4, <1>5, <2>1 DEF Runs, Stage
    <2>s. \A o \in Bridges : o # b =>
            /\ config'[o] = config[o] /\ configDisk'[o] \in {configDisk[o], config[o]}
            /\ supervised'[o] = supervised[o] /\ binary'[o] = binary[o]
            /\ promisedAt'[o] = promisedAt[o] /\ (o \in cut' <=> o \in cut)
      BY <1>1, <1>3, <1>4, <1>5
    <2>4. \A o \in Bridges : o \notin crowded' => Bridge(o)'
      BY <2>1, <2>2, <2>3, <2>s, BeginStep
    <2>5. RegistryTyped'
      BY <1>t, <1>1, <1>3, <1>4, <2>1, <2>2, CallMoved DEF RegistryTyped
    <2> QED BY <2>4, <2>5 DEF RegistryInv
  <1>6. CASE ~saved
    <2>1. UNCHANGED installing /\ crowded' = Meet(b) /\ configDisk' = configDisk /\ cut' = cut \cup {b}
      BY <1>2, <1>3, <1>6
    <2>2. ASSUME NEW o \in Bridges, o \notin crowded' PROVE Bridge(o)'
      <3>1. Bridge(o)
        BY <2>1, <2>2, MeetFacts DEF RegistryInv
      <3>2. CASE o # b
        <4>1. o \in cut' <=> o \in cut
          BY <2>1, <3>2
        <4> QED BY <1>1, <1>3, <1>4, <2>1, <3>1, <3>2, <4>1, BridgeKept DEF Works
      <3>3. CASE o = b
        <4>1. \A d \in HubClients : ~Works(d, o)
          BY <2>1, <2>2, <3>3, MeetFacts
        <4>2. Runs(o)
          BY <3>1, <4>1 DEF Bridge
        <4>3. Runs(o)' /\ Told(o)'
          BY <1>1, <1>3, <2>1, <3>3, <4>2 DEF Runs, Told
        <4>4. \A d \in HubClients : ~Works(d, o)'
          BY <2>1, <4>1 DEF Works
        <4> QED BY <4>3, <4>4 DEF Bridge
      <3> QED BY <3>2, <3>3
    <2>3. RegistryTyped'
      BY <1>t, <1>1, <1>3, <1>4, <2>1 DEF RegistryTyped
    <2> QED BY <2>2, <2>3 DEF RegistryInv
  <1> QED BY <1>5, <1>6

\* What changes only the catalogue, the registry or the file of the configuration.
LEMMA AsideStep ==
  ASSUME RegistryInv, UNCHANGED <<config, supervised, binary, installing, promisedAt, crowded, cut>>,
         configDisk' = config \/ configDisk' = configDisk,
         registry' \in [Bridges -> Binaries], catalogue'.entries \in [Bridges -> MaybeBinary]
  PROVE  RegistryInv'
  <1>1. RegistryTyped'
    BY DEF RegistryInv, RegistryTyped
  <1>2. ASSUME NEW o \in Bridges, o \notin crowded' PROVE Bridge(o)'
    <2>1. Bridge(o)
      BY <1>2 DEF RegistryInv
    <2>2. configDisk'[o] \in {configDisk[o], config[o]}
      OBVIOUS
    <2> QED BY <2>1, <2>2, BridgeKept DEF Works
  <1> QED BY <1>1, <1>2 DEF RegistryInv

LEMMA OpenedStep ==
  ASSUME RegistryInv, HubOpened
  PROVE  RegistryInv'
  <1>t. RegistryTyped
    BY DEF RegistryInv
  <1>1. /\ config' = configDisk /\ supervised' = configDisk /\ installing' = [c \in HubClients |-> Resting]
        /\ cut' = cut \cup ({installing[c].bridge : c \in HubClients} \ {NoBinary})
        /\ UNCHANGED <<configDisk, binary, registry, catalogue, promisedAt, crowded>>
    BY DEF HubOpened
  <1>2. RegistryTyped'
    <2>1. installing' \in [HubClients -> Calls]
      BY <1>1 DEF Calls
    <2> QED BY <1>t, <1>1, <2>1 DEF RegistryTyped
  <1>3. ASSUME NEW o \in Bridges, o \notin crowded' PROVE Bridge(o)'
    <2>1. Bridge(o)
      BY <1>1, <1>3 DEF RegistryInv
    <2>2. \A c \in HubClients : ~Works(c, o)'
      BY <1>1, RegistryAssumption DEF Works, Resting
    <2>3. configDisk[o] # NoBinary => binary[o] # NoBinary
      <3>1. CASE \E c \in HubClients : Works(c, o)
        BY <2>1, <3>1 DEF Bridge, Stage, Runs
      <3>2. CASE \A c \in HubClients : ~Works(c, o)
        BY <2>1, <3>2 DEF Bridge, Runs
      <3> QED BY <3>1, <3>2
    <2>4. Told(o)'
      <3>1. CASE \E c \in HubClients : Works(c, o)
        <4>1. o \in cut'
          BY <1>1, <3>1, RegistryAssumption DEF Works
        <4> QED BY <4>1 DEF Told
      <3>2. CASE \A c \in HubClients : ~Works(c, o)
        <4>1. Told(o)
          BY <2>1, <3>2 DEF Bridge
        <4>2. o \in cut => o \in cut'
          BY <1>1
        <4> QED BY <1>1, <4>1, <4>2 DEF Told
      <3> QED BY <3>1, <3>2
    <2>5. Runs(o)'
      BY <1>1, <2>3 DEF Runs
    <2> QED BY <2>2, <2>4, <2>5 DEF Bridge
  <1> QED BY <1>2, <1>3 DEF RegistryInv

LEMMA RegistryStep == RegistryInv /\ [RegistryNext]_registryVars => RegistryInv'
  <1> SUFFICES ASSUME RegistryInv, [RegistryNext]_registryVars PROVE RegistryInv'
    OBVIOUS
  <1>t. RegistryTyped
    BY DEF RegistryInv
  <1>1. ASSUME NEW c \in HubClients, NEW b \in Bridges, NEW wants \in Binaries, InstallFrom(c, b, wants) PROVE RegistryInv'
    <2>1. wants \in MaybeBinary
      BY DEF MaybeBinary
    <2>2. /\ BeginCall(c, "install", b, wants, "fetch")
          /\ UNCHANGED <<config, configDisk, supervised, binary, registry, catalogue, promisedAt, cut>>
      BY <1>1 DEF InstallFrom
    <2>3. catalogue'.entries \in [Bridges -> MaybeBinary]
      BY <1>t, <2>2 DEF RegistryTyped
    <2> QED BY <2>1, <2>2, <2>3, InstallBegins
  <1>2. ASSUME NEW c \in HubClients, NEW b \in Bridges, InstallNamed(c, b) PROVE RegistryInv'
    <2>1. /\ BeginCall(c, "install", b, Catalog(FALSE).entries[b], "fetch") /\ catalogue' = Catalog(FALSE)
          /\ UNCHANGED <<config, configDisk, supervised, binary, registry, promisedAt, cut>>
      BY <1>2 DEF InstallNamed
    <2>2. Catalog(FALSE).entries \in [Bridges -> MaybeBinary]
      BY <1>t, CatalogTyped
    <2>3. Catalog(FALSE).entries[b] \in MaybeBinary /\ catalogue'.entries \in [Bridges -> MaybeBinary]
      BY <2>1, <2>2
    <2> HIDE DEF Catalog
    <2> QED BY <2>1, <2>3, InstallBegins
  <1>3. ASSUME NEW refresh \in BOOLEAN, Available(refresh) PROVE RegistryInv'
    <2>1. /\ catalogue' = Catalog(refresh)
          /\ UNCHANGED <<config, configDisk, supervised, binary, registry, installing, promisedAt, crowded, cut>>
      BY <1>3 DEF Available
    <2>2. catalogue'.entries \in [Bridges -> MaybeBinary] /\ registry' \in [Bridges -> Binaries]
      BY <1>t, <2>1, CatalogTyped DEF RegistryTyped
    <2> QED BY <2>1, <2>2, AsideStep
  <1>4. ASSUME NEW b \in Bridges, NEW to \in Binaries, Republished(b, to) PROVE RegistryInv'
    <2>1. /\ registry' = [registry EXCEPT ![b] = to]
          /\ UNCHANGED <<config, configDisk, supervised, binary, catalogue, installing, promisedAt, crowded, cut>>
      BY <1>4 DEF Republished
    <2>2. catalogue'.entries \in [Bridges -> MaybeBinary] /\ registry' \in [Bridges -> Binaries]
      BY <1>t, <2>1 DEF RegistryTyped
    <2> QED BY <2>1, <2>2, AsideStep
  <1>5. CASE RememberAccounts
    BY <1>t, <1>5, AsideStep DEF RememberAccounts, RegistryTyped
  <1>6. CASE CatalogAges
    <2>1. catalogue' = [catalogue EXCEPT !.age = @ + 1]
          /\ UNCHANGED <<config, configDisk, supervised, binary, registry, installing, promisedAt, crowded, cut>>
      BY <1>6 DEF CatalogAges
    <2>2. catalogue'.entries \in [Bridges -> MaybeBinary] /\ registry' \in [Bridges -> Binaries]
      BY <1>t, <2>1 DEF RegistryTyped
    <2> QED BY <2>1, <2>2, AsideStep
  <1>7. CASE UNCHANGED registryVars
    <2>1. UNCHANGED <<config, configDisk, supervised, binary, registry, catalogue, installing, promisedAt, crowded, cut, hubCalls>>
      BY <1>7 DEF registryVars
    <2>2. catalogue'.entries \in [Bridges -> MaybeBinary] /\ registry' \in [Bridges -> Binaries]
      BY <1>t, <2>1 DEF RegistryTyped
    <2> QED BY <2>1, <2>2, AsideStep
  <1> QED
    BY <1>1, <1>2, <1>3, <1>4, <1>5, <1>6, <1>7, FetchStep, RecordStep, AddStep, RemoveStep, EraseStep, UninstallStep, OpenedStep
    DEF RegistryNext

LEMMA RegistryImplied == RegistryInv => InstalledKept
  <1> SUFFICES ASSUME RegistryInv, NEW b \in Bridges, BridgeQuiet(b)
               PROVE  /\ \A place \in {configDisk, supervised, config} : place[b] # NoBinary => binary[b] # NoBinary
                      /\ b \notin cut => \A place \in {configDisk, supervised, config, binary} : place[b] = promisedAt[b]
    BY DEF InstalledKept
  <1>1. Runs(b) /\ Told(b)
    BY DEF BridgeQuiet, RegistryInv, Bridge, Works
  <1> QED BY <1>1 DEF Runs, Told

\* As long as two calls did not work on one bridge (pkg/hub registry.go), it is
\* offered and configured only with a binary, and what the last call reported is
\* what a restart finds, wherever an install or a removal was cut off.
THEOREM InstalledIsKept == RegistrySpec => []InstalledKept
  BY RegistryStarts, RegistryStep, RegistryImplied, PTL DEF RegistrySpec

-----------------------------------------------------------------------------
(* The terminal (internal/tui process_terminal.go).                         *)
Answers == {"kitty", "zero", "attributes"}
Token == [kind : {"none", "key", "paste", "prefix"} \cup Answers, n : Nat] \cup [kind : {"rest"}, n : Nat, of : Answers]
Chunk == [token : Token, drain : Nat]
Hearing == [what : Token, to : Nat, next : Token]
Forwarded == [token : Token, n : Nat, to : Nat]
LifePlaces == {"idle", "opening", "asking", "failed", "stopping", "writing", "clearing"}

TermTyped ==
  term \in [supports : {"kitty", "zero", "none"}, raw : BOOLEAN, paste : BOOLEAN, kitty : Nat, other : BOOLEAN,
            progress : BOOLEAN, owes : Seq(Answers \cup {"rest"})]
FieldsTyped ==
  pt \in [starts : Nat, session : Nat, handler : Nat, reading : BOOLEAN, saved : BOOLEAN, draining : BOOLEAN, drains : Nat,
          pushed : BOOLEAN, kitty : BOOLEAN, other : BOOLEAN, held : Token]
CallsTyped ==
  /\ life \in [at : LifePlaces, undo : [pop : BOOLEAN, other : BOOLEAN]]
  /\ drain \in [at : {"idle", "waiting"}, session : Nat, handler : Nat]
  /\ progress \in {"off", "on", "ending", "ended"} /\ outrun \in BOOLEAN /\ allowed \in [Allowed -> Nat]
FlowTyped ==
  /\ inputData \in [Sessions -> Seq(Chunk)] /\ taken \in [Sessions -> Token] /\ hearing \in [Sessions -> Hearing]
  /\ read \in Seq(Nat) /\ forwarded \in Seq(Forwarded)
TerminalTyped == TermTyped /\ FieldsTyped /\ CallsTyped /\ FlowTyped

\* One answer is cut at a time, and the protocol is only confirmed by a terminal that has it.
Owing ==
  /\ \A i \in DOMAIN term.owes : term.owes[i] = "rest" => i = 1 /\ Len(term.owes) >= 2
  /\ \A i \in DOMAIN term.owes : term.owes[i] = "kitty" => term.supports = "kitty"

\* A session is begun after every other, and ends before the modes are undone.
SessionLife ==
  /\ pt.session \in {0, pt.starts} /\ pt.starts + allowed["starts"] <= MaxSessions
  /\ life.at \in {"opening", "asking", "failed", "clearing"} => pt.session # 0
  /\ life.at \in {"stopping", "writing"} => pt.session = 0
  /\ pt.session = 0 => ~pt.pushed /\ ~pt.kitty /\ ~pt.other /\ pt.held = None /\ pt.handler = 0

RawPaste ==
  /\ term.raw = pt.saved /\ (pt.session # 0 => term.raw)
  /\ pt.session # 0 /\ ~At("opening") => term.paste
  /\ pt.session = 0 /\ At("idle") => ~term.paste

\* The protocol that was pushed is popped by what the fields or the stop remember.
Protocols ==
  /\ term.other => pt.other \/ (life.at \in {"stopping", "writing"} /\ life.undo.other)
  /\ pt.other => term.other /\ ~pt.kitty
  /\ term.kitty # 0 => term.kitty = 1 /\ (pt.pushed \/ (life.at \in {"stopping", "writing"} /\ life.undo.pop))
  /\ pt.pushed /\ term.supports = "kitty" => term.kitty = 1
  /\ pt.pushed => life.at \notin {"opening", "asking", "failed"}
  /\ pt.kitty /\ ~outrun => term.kitty = 1

Progress ==
  /\ progress = "off" => ~term.progress
  /\ progress = "on" => At("idle") /\ pt.session # 0
  /\ progress \in {"ending", "ended"} => life.at \in {"clearing", "stopping", "writing"}

\* A drain takes the handler away and gives it back to the same session only.
Handled ==
  /\ pt.session # 0 => pt.handler = (IF pt.draining THEN 0 ELSE pt.session)
  /\ pt.session # 0 /\ pt.draining => drain.at = "waiting" /\ drain.session = pt.session
  /\ drain.session <= pt.starts
  /\ drain.at = "waiting" /\ drain.session # 0 => drain.handler = drain.session

\* t goes to the handler before u, unless t is a paste and u a prefix that was held.
Before(t, u) == t.n # 0 /\ u.n # 0 => t.n < u.n \/ (t.kind = "paste" /\ u.kind = "prefix" /\ u.n < t.n)

\* A key of this session; an answer is none.
Own(t) ==
  /\ t.n \in 0 .. Len(read) /\ (t.n # 0 => read[t.n] = pt.session)
  /\ t.kind \in Answers \cup {"none", "rest"} => t.n = 0
  /\ t.kind = "kitty" \/ (t.kind = "rest" /\ t.of = "kitty") => term.supports = "kitty"

Placed(t) == Own(t) /\ t.n \notin purged
Gone(t, l) == t.n = 0 \/ t.n \in l

\* The line of a session's keys: f was forwarded, w and x are being heard, h is
\* held, t was taken and q waits.
LineOwn(w, x, h, t, q) ==
  /\ Placed(w) /\ Placed(x) /\ Placed(h) /\ Placed(t)
  /\ \A j \in DOMAIN q : Own(q[j].token) /\ q[j].drain <= pt.drains /\ (q[j].drain = pt.drains => q[j].token.n \notin purged)
  /\ w.kind \notin Answers /\ h.kind \in {"none", "prefix"}

LineOrder(f, w, x, h, t, q) ==
  /\ \A i \in DOMAIN f : Before(f[i].token, w) /\ Before(f[i].token, x) /\ Before(f[i].token, h) /\ Before(f[i].token, t)
  /\ \A i \in DOMAIN f, j \in DOMAIN q : Before(f[i].token, q[j].token)
  /\ Before(w, x) /\ Before(w, h) /\ Before(w, t) /\ Before(x, t) /\ Before(h, t)
  /\ \A j \in DOMAIN q : Before(w, q[j].token) /\ Before(x, q[j].token) /\ Before(h, q[j].token) /\ Before(t, q[j].token)
  /\ \A i, j \in DOMAIN q : i < j => Before(q[i].token, q[j].token)

\* What was typed and not lost stands somewhere in it.
LineWhole(f, w, x, h, t, q, l) ==
  \A n \in DOMAIN read : read[n] = pt.session /\ n \notin l /\ (\A i \in DOMAIN f : f[i].n # n) =>
    n \in {w.n, x.n, h.n, t.n} \/ \E j \in DOMAIN q : q[j].token.n = n

\* What a drain found in it is lost.
LineLost(w, x, h, t, q, l) ==
  /\ pt.draining => Gone(w, l) /\ Gone(x, l) /\ Gone(h, l) /\ Gone(t, l)
  /\ \A j \in DOMAIN q : q[j].drain # pt.drains => Gone(q[j].token, l)
  /\ \A j \in DOMAIN q : pt.draining => q[j].drain # pt.drains

LineGood(f, w, x, h, t, q, l) ==
  LineOwn(w, x, h, t, q) /\ LineOrder(f, w, x, h, t, q) /\ LineWhole(f, w, x, h, t, q, l) /\ LineLost(w, x, h, t, q, l)

\* One piece is in the worker's hands, and only a paste is heard before what is held.
Hands(s) ==
  /\ hearing[s] # NobodyHears => hearing[s].what # None
  /\ hearing[s].next # None => taken[s] = None /\ pt.held = None
  /\ hearing[s].what # None => hearing[s].to \in {0, s}
  /\ hearing[s].what # None /\ hearing[s].to = 0 => Gone(hearing[s].what, lost)

Past ==
  /\ \A n \in DOMAIN read : read[n] \in 1 .. pt.starts
  /\ \A m, n \in DOMAIN read : m <= n => read[m] <= read[n]
  /\ purged \subseteq DOMAIN read
  /\ \A i \in DOMAIN forwarded :
       /\ forwarded[i].n = forwarded[i].token.n /\ forwarded[i].n <= Len(read)
       /\ forwarded[i].n # 0 => read[forwarded[i].n] = forwarded[i].to /\ forwarded[i].n \notin purged
       /\ forwarded[i].token.kind \notin Answers
  /\ \A i, j \in DOMAIN forwarded : i < j => Before(forwarded[i].token, forwarded[j].token)

\* Sessions that are over or were not begun have no line.
OtherSessions ==
  \A s \in Sessions : /\ s # pt.session => inputData[s] = <<>>
                      /\ s > pt.starts => taken[s] = None /\ hearing[s] = NobodyHears

LineNow ==
  LET s == pt.session IN
  s # 0 => /\ LineGood(forwarded, hearing[s].what, hearing[s].next, pt.held, taken[s], inputData[s], lost)
           /\ Hands(s)

TerminalInv ==
  /\ TerminalTyped /\ Owing /\ SessionLife /\ RawPaste /\ Protocols /\ Progress /\ Handled
  /\ Past /\ OtherSessions /\ LineNow

LEMMA TokensTyped ==
  /\ None \in Token
  /\ \A t \in Token : t.n \in Nat /\ t.kind \in {"none", "rest", "key", "paste", "prefix", "kitty", "zero", "attributes"}
  /\ \A t \in Token : t.kind = "rest" => t.of \in Answers
  /\ \A kind \in {"key", "paste", "prefix", "kitty", "zero", "attributes"}, n \in Nat : Key(kind, n) \in Token
  /\ \A reply \in Answers : [kind |-> "rest", n |-> 0, of |-> reply] \in Token
  BY DEF Token, Answers, None, Key

LEMMA ChunksTyped == ASSUME NEW q \in Seq(Chunk), NEW j \in DOMAIN q PROVE q[j].token \in Token /\ q[j].drain \in Nat
<1>1. q[j] \in Chunk OBVIOUS
<1>2. QED BY <1>1 DEF Chunk
LEMMA ForwardedTyped ==
  ASSUME NEW f \in Seq(Forwarded), NEW i \in DOMAIN f PROVE f[i].token \in Token /\ f[i].n \in Nat /\ f[i].to \in Nat
<1>1. f[i] \in Forwarded OBVIOUS
<1>2. QED BY <1>1 DEF Forwarded

LEMMA NoneOwn == ASSUME TerminalTyped, Past PROVE Placed(None)
  BY DEF TerminalTyped, FlowTyped, Past, Placed, Own, None, Answers

\* What a step leaves alone of the keys.
KeysAlone ==
  /\ UNCHANGED <<flowVars, lost, purged>>
  /\ pt'.session = pt.session /\ pt'.held = pt.held /\ pt'.drains = pt.drains /\ pt'.draining = pt.draining /\ pt'.starts = pt.starts
  /\ term'.supports = term.supports

LEMMA KeysStand ==
  ASSUME TerminalTyped, Past, OtherSessions, LineNow, KeysAlone
  PROVE  Past' /\ OtherSessions' /\ LineNow'
<1>0. /\ pt'.session = pt.session /\ pt'.held = pt.held /\ pt'.drains = pt.drains /\ pt'.draining = pt.draining /\ pt'.starts = pt.starts
      /\ term'.supports = term.supports
  BY DEF KeysAlone
<1>u. inputData' = inputData /\ taken' = taken /\ hearing' = hearing /\ read' = read /\ forwarded' = forwarded /\ lost' = lost /\ purged' = purged
  BY DEF KeysAlone, flowVars
<1>1. Past' BY <1>0, <1>u DEF Past
<1>2. OtherSessions' BY <1>0, <1>u DEF OtherSessions
<1>3. \A t : Own(t)' <=> Own(t) BY <1>0, <1>u DEF Own
<1>4. \A t : Placed(t)' <=> Placed(t) BY <1>3, <1>u DEF Placed
<1>5. LineNow'
  BY <1>0, <1>u, <1>3, <1>4 DEF LineNow, LineGood, LineOwn, LineOrder, LineWhole, LineLost, Hands
<1>6. QED BY <1>1, <1>2, <1>5

LEMMA BeforeNone == \A t : Before(None, t) /\ Before(t, None)
  BY DEF Before, None
LEMMA BeforeDiffers == \A t, u \in Token : Before(t, u) /\ t.n # 0 => t.n # u.n
  BY TokensTyped DEF Before

\* The line's order, when a piece moves on.
LEMMA OrderEmpty == ASSUME NEW f PROVE LineOrder(f, None, None, None, None, <<>>)
  BY BeforeNone DEF LineOrder
LEMMA OrderHeldGone ==
  ASSUME NEW f, NEW w, NEW x, NEW h, NEW t, NEW q, LineOrder(f, w, x, h, t, q)
  PROVE  LineOrder(f, w, x, None, t, q)
  BY BeforeNone DEF LineOrder
LEMMA OrderJoined ==
  ASSUME NEW f, NEW w, NEW x, NEW h, NEW t, NEW q \in Seq(Chunk), NEW c, LineOrder(f, w, x, h, t, q),
         \A i \in DOMAIN f : Before(f[i].token, c.token), \A j \in DOMAIN q : Before(q[j].token, c.token),
         Before(w, c.token), Before(x, c.token), Before(h, c.token), Before(t, c.token)
  PROVE  LineOrder(f, w, x, h, t, Append(q, c))
<1>1. /\ Len(q) \in Nat /\ DOMAIN q = 1 .. Len(q) /\ DOMAIN Append(q, c) = 1 .. Len(q) + 1
      /\ Append(q, c)[Len(q) + 1] = c /\ \A j \in DOMAIN q : Append(q, c)[j] = q[j]
  OBVIOUS
<1>2. \A j \in DOMAIN Append(q, c) : j \in DOMAIN q \/ j = Len(q) + 1 BY <1>1
<1>3. \A i, j \in DOMAIN Append(q, c) : i < j => i \in DOMAIN q BY <1>1
<1> DEFINE r == Append(q, c)
<1>4. r[Len(q) + 1] = c /\ (\A j \in DOMAIN q : r[j] = q[j]) /\ (\A j \in DOMAIN r : j \in DOMAIN q \/ j = Len(q) + 1)
      /\ (\A i, j \in DOMAIN r : i < j => i \in DOMAIN q)
  BY <1>1, <1>2, <1>3
<1> HIDE DEF r
<1>5. LineOrder(f, w, x, h, t, r) BY <1>4 DEF LineOrder
<1>6. QED BY <1>5 DEF r
LEMMA OrderTaken ==
  ASSUME NEW f, NEW h, NEW q \in Seq(Chunk), q # <<>>, LineOrder(f, None, None, h, None, q)
  PROVE  LineOrder(f, None, None, h, Head(q).token, Tail(q)) /\ LineOrder(f, None, None, h, None, Tail(q))
<1>1. /\ Len(q) \in Nat \ {0} /\ DOMAIN q = 1 .. Len(q) /\ Head(q) = q[1] /\ DOMAIN Tail(q) = 1 .. Len(q) - 1
      /\ \A j \in DOMAIN Tail(q) : Tail(q)[j] = q[j + 1]
  OBVIOUS
<1> DEFINE r == Tail(q)
<1>2. /\ \A j \in DOMAIN r : r[j] = q[j + 1] /\ j + 1 \in DOMAIN q /\ 1 < j + 1
      /\ \A i, j \in DOMAIN r : i < j => i + 1 < j + 1
      /\ 1 \in DOMAIN q
  BY <1>1
<1> HIDE DEF r
<1>3. LineOrder(f, None, None, h, q[1].token, r) /\ LineOrder(f, None, None, h, None, r) BY <1>2, BeforeNone DEF LineOrder
<1>4. QED BY <1>1, <1>3 DEF r
LEMMA OrderPasted ==
  ASSUME NEW f, NEW h \in Token, NEW t \in Token, NEW q, LineOrder(f, None, None, h, t, q),
         t.kind = "paste", h.kind = "prefix" \/ h.n = 0
  PROVE  LineOrder(f, t, None, h, None, q)
<1>1. Before(h, t) BY DEF LineOrder
<1>2. Before(t, h) BY <1>1, TokensTyped DEF Before
<1>3. QED BY <1>2, BeforeNone DEF LineOrder
LEMMA OrderMoved ==
  ASSUME NEW f, NEW h, NEW t, NEW q, LineOrder(f, None, None, h, t, q)
  PROVE  /\ LineOrder(f, h, t, None, None, q) /\ LineOrder(f, h, None, None, t, q)
         /\ LineOrder(f, t, None, None, None, q) /\ LineOrder(f, None, None, t, None, q)
         /\ LineOrder(f, None, None, None, None, q)
  BY BeforeNone DEF LineOrder
LEMMA OrderForwarded ==
  ASSUME NEW f \in Seq(Forwarded), NEW w, NEW x, NEW h, NEW t, NEW q, LineOrder(f, w, x, h, t, q), NEW n, NEW to
  PROVE  LineOrder(Append(f, [token |-> w, n |-> n, to |-> to]), None, x, h, t, q) /\ LineOrder(f, None, x, h, t, q)
<1> DEFINE c == [token |-> w, n |-> n, to |-> to]  r == Append(f, c)
<1>1. r[Len(f) + 1] = c /\ (\A i \in DOMAIN f : r[i] = f[i]) /\ (\A i \in DOMAIN r : i \in DOMAIN f \/ i = Len(f) + 1) OBVIOUS
<1>2. c.token = w OBVIOUS
<1> HIDE DEF r, c
<1>3. LineOrder(r, None, x, h, t, q) /\ LineOrder(f, None, x, h, t, q) BY <1>1, <1>2, BeforeNone DEF LineOrder
<1>4. QED BY <1>3 DEF r, c
LEMMA OrderNextHeard ==
  ASSUME NEW f, NEW x, NEW q, LineOrder(f, None, x, None, None, q)
  PROVE  LineOrder(f, None, None, None, x, q)
  BY BeforeNone DEF LineOrder

\* What is read goes to the end of the line, or is lost to a drain.
LEMMA ReadsTyped ==
  ASSUME FieldsTyped, FlowTyped, SessionLife, CallsTyped, NEW token \in Token, Reads(token)
  PROVE  /\ pt.session \in Sessions /\ pt.session = pt.starts /\ pt' = pt /\ inputData' \in [Sessions -> Seq(Chunk)]
         /\ \A r \in Sessions : r # pt.session => inputData'[r] = inputData[r]
         /\ \/ pt.draining /\ inputData' = inputData
            \/ ~pt.draining /\ inputData'[pt.session] = Append(inputData[pt.session], [token |-> token, drain |-> pt.drains])
<1>1. pt.session \in Sessions /\ pt.session = pt.starts
  BY TerminalAssumption DEF Reads, SessionLife, Sessions, FieldsTyped, CallsTyped, Allowed
<1>2. [token |-> token, drain |-> pt.drains] \in Chunk BY DEF Chunk, FieldsTyped
<1>3. Append(inputData[pt.session], [token |-> token, drain |-> pt.drains]) \in Seq(Chunk) BY <1>1, <1>2 DEF FlowTyped
<1>4. QED BY <1>1, <1>3 DEF Reads, FlowTyped

LEMMA ReadsKeep ==
  ASSUME FieldsTyped, FlowTyped, SessionLife, CallsTyped, Past, OtherSessions, LineNow, NEW token \in Token, Reads(token),
         term'.supports = term.supports, read' \in Seq(Nat), Len(read) <= Len(read'), \A n \in DOMAIN read : read'[n] = read[n],
         \A n \in DOMAIN read' : n \notin DOMAIN read => n = token.n /\ read'[n] = pt.session /\ (pt.draining => n \in lost'),
         lost \subseteq lost', purged \subseteq purged', ~pt.draining => purged' = purged,
         \A n \in purged' : n \in purged \/ (n \notin DOMAIN read /\ n \in DOMAIN read'),
         Own(token)', token.n # 0 => token.n > Len(read)
  PROVE  Past' /\ OtherSessions' /\ LineNow'
<1> DEFINE s == pt.session
<1>1. /\ s \in Sessions /\ s = pt.starts /\ pt' = pt /\ \A r \in Sessions : r # s => inputData'[r] = inputData[r]
  BY ReadsTyped
<1>2. taken' = taken /\ hearing' = hearing /\ forwarded' = forwarded BY DEF Reads
<1>3. OtherSessions' BY <1>1, <1>2 DEF OtherSessions
<1>4. /\ Len(read) \in Nat /\ Len(read') \in Nat /\ DOMAIN read = 1 .. Len(read) /\ DOMAIN read' = 1 .. Len(read')
      /\ forwarded \in Seq(Forwarded)
  BY DEF FlowTyped
<1>5. Past'
  <2>1. \A n \in DOMAIN read' : read'[n] \in 1 .. pt.starts BY <1>1, <1>4 DEF Past, Sessions
  <2>2. \A m, n \in DOMAIN read' : m <= n => read'[m] <= read'[n]
    <3>1. TAKE m, n \in DOMAIN read'
    <3>2. HAVE m <= n
    <3>3. CASE n \in DOMAIN read BY <3>2, <3>3, <1>4 DEF Past
    <3>4. CASE n \notin DOMAIN read
      <4>1. read'[n] = pt.starts /\ read'[m] \in 1 .. pt.starts BY <3>4, <1>1, <2>1
      <4>2. QED BY <4>1 DEF FieldsTyped
    <3>5. QED BY <3>3, <3>4
  <2>3. purged' \subseteq DOMAIN read' BY <1>4 DEF Past
  <2>4. \A i \in DOMAIN forwarded :
          /\ forwarded[i].n <= Len(read')
          /\ forwarded[i].n # 0 => read'[forwarded[i].n] = forwarded[i].to /\ forwarded[i].n \notin purged'
    <3>1. TAKE i \in DOMAIN forwarded
    <3>2. forwarded[i].n \in Nat BY <1>4, ForwardedTyped
    <3>3. forwarded[i].n # 0 => forwarded[i].n \in DOMAIN read BY <3>2, <1>4 DEF Past
    <3>4. QED BY <3>2, <3>3, <1>4 DEF Past
  <2>5. QED BY <2>1, <2>2, <2>3, <2>4, <1>1, <1>2 DEF Past
<1>6. \A u : Own(u) => Own(u)' BY <1>1, <1>4 DEF Own
<1>7. \A u : Placed(u) => Placed(u)'
  BY <1>6, <1>4 DEF Placed, Own
<1>8. PICK z, f, l, w, x, h, t, q, p :
        /\ z = pt.session /\ f = forwarded /\ l = lost' /\ w = hearing[s].what /\ x = hearing[s].next /\ h = pt.held /\ t = taken[s]
        /\ q = inputData[s] /\ p = inputData'[s]
  OBVIOUS
<1>9. LineGood(f, w, x, h, t, q, lost) /\ Hands(z) BY <1>8 DEF LineNow, Reads
<1>10. w \in Token /\ x \in Token /\ h \in Token /\ t \in Token /\ q \in Seq(Chunk) /\ pt.drains \in Nat /\ f \in Seq(Forwarded)
  BY <1>1, <1>8 DEF FlowTyped, FieldsTyped, Hearing
<1>11. Hands(z)' BY <1>9, <1>1, <1>2 DEF Hands, Gone
<1>12. Placed(w) /\ Placed(x) /\ Placed(h) /\ Placed(t) /\ w.kind \notin Answers /\ h.kind \in {"none", "prefix"}
       /\ \A j \in DOMAIN q : Own(q[j].token) /\ q[j].drain <= pt.drains /\ (q[j].drain = pt.drains => q[j].token.n \notin purged)
  BY <1>9 DEF LineGood, LineOwn
<1>13. Placed(w)' /\ Placed(x)' /\ Placed(h)' /\ Placed(t)' /\ \A j \in DOMAIN q : Own(q[j].token)'
  BY <1>12, <1>6, <1>7
<1>14. pt'.drains = pt.drains /\ pt'.draining = pt.draining /\ pt'.session = pt.session BY <1>1
<1>15. LineOrder(f, w, x, h, t, q) /\ LineWhole(f, w, x, h, t, q, lost) /\ LineLost(w, x, h, t, q, lost) BY <1>9 DEF LineGood
<1>16. ASSUME pt.draining, p = q PROVE LineGood(f, w, x, h, t, p, l)'
  <2>1. \A j \in DOMAIN q : q[j].drain # pt.drains BY <1>15, <1>16 DEF LineLost
  <2>2. LineOwn(w, x, h, t, q)' BY <1>12, <1>13, <1>14, <2>1 DEF LineOwn
  <2>3. LineWhole(f, w, x, h, t, q, l)'
    <3>1. SUFFICES ASSUME NEW n \in DOMAIN read', read'[n] = pt.session, n \notin l, \A i \in DOMAIN f : f[i].n # n
                   PROVE  n \in {w.n, x.n, h.n, t.n} \/ \E j \in DOMAIN q : q[j].token.n = n
      BY <1>14 DEF LineWhole
    <3>2. n \in DOMAIN read /\ n \notin lost /\ read[n] = pt.session BY <3>1, <1>16, <1>8
    <3>3. QED BY <3>1, <3>2, <1>15 DEF LineWhole
  <2>4. LineLost(w, x, h, t, q, l)' BY <1>15, <1>14, <1>8 DEF LineLost, Gone
  <2>5. QED BY <2>2, <2>3, <2>4, <1>15, <1>16 DEF LineGood
<1>17. ASSUME ~pt.draining, NEW c, c.token = token, c.drain = pt.drains, p = Append(q, c) PROVE LineGood(f, w, x, h, t, p, l)'
  <2>1. /\ Len(q) \in Nat /\ DOMAIN q = 1 .. Len(q) /\ DOMAIN p = 1 .. Len(q) + 1
        /\ p[Len(q) + 1] = c /\ \A j \in DOMAIN q : p[j] = q[j]
    BY <1>10, <1>17
  <2>2. (\A j \in DOMAIN p : (j \in DOMAIN q /\ p[j] = q[j]) \/ p[j] = c) /\ (\A j \in DOMAIN q : j \in DOMAIN p /\ p[j] = q[j])
        /\ \E j \in DOMAIN p : p[j] = c
    BY <2>1
  <2>3. \A u \in Token : Own(u) => Before(u, token)
    BY <1>4, TokensTyped DEF Own, Before
  <2>4. LineOrder(f, w, x, h, t, p)
    <3>1. \A i \in DOMAIN f : Before(f[i].token, token)
      <4>1. TAKE i \in DOMAIN f
      <4>2. f[i].token \in Token /\ f[i].token.n <= Len(read) BY <1>4, <1>8, ForwardedTyped DEF Past
      <4>3. QED BY <4>2, <1>4, TokensTyped DEF Before
    <3>2. \A j \in DOMAIN q : Before(q[j].token, token) BY <1>12, <1>10, ChunksTyped, <2>3
    <3>3. Before(w, token) /\ Before(x, token) /\ Before(h, token) /\ Before(t, token) BY <1>12, <1>10, <2>3 DEF Placed
    <3>4. QED BY <3>1, <3>2, <3>3, <1>15, <1>10, <1>17, OrderJoined
  <2>5. LineOwn(w, x, h, t, p)'
    <3>1. \A n \in purged' : n \in purged BY <1>17
    <3>2. token.n \notin purged'
      <4>1. \A n \in purged : n \in 1 .. Len(read) BY <1>4 DEF Past
      <4>2. QED BY <3>1, <4>1, <1>4
    <3>3. \A j \in DOMAIN p : Own(p[j].token)' /\ p[j].drain <= pt.drains /\ (p[j].drain = pt.drains => p[j].token.n \notin purged')
      <4>1. TAKE j \in DOMAIN p
      <4>2. CASE j \in DOMAIN q /\ p[j] = q[j] BY <4>2, <1>12, <1>13, <3>1
      <4>3. CASE p[j] = c BY <4>3, <1>17, <3>2, <1>10
      <4>4. QED BY <4>2, <4>3, <2>2
    <3>4. QED BY <3>3, <1>12, <1>13, <1>14 DEF LineOwn
  <2>6. LineWhole(f, w, x, h, t, p, l)'
    <3>1. SUFFICES ASSUME NEW n \in DOMAIN read', read'[n] = pt.session, n \notin l, \A i \in DOMAIN f : f[i].n # n
                   PROVE  n \in {w.n, x.n, h.n, t.n} \/ \E j \in DOMAIN p : p[j].token.n = n
      BY <1>14 DEF LineWhole
    <3>2. CASE n \in DOMAIN read
      <4>1. n \notin lost /\ read[n] = pt.session BY <3>1, <3>2, <1>8
      <4>2. n \in {w.n, x.n, h.n, t.n} \/ \E j \in DOMAIN q : q[j].token.n = n BY <3>1, <3>2, <4>1, <1>15 DEF LineWhole
      <4>3. QED BY <4>2, <2>2
    <3>3. CASE n \notin DOMAIN read BY <3>1, <3>3, <2>2, <1>17
    <3>4. QED BY <3>2, <3>3
  <2>7. LineLost(w, x, h, t, p, l)'
    BY <1>15, <1>14, <1>8, <1>17, <2>2 DEF LineLost, Gone
  <2>8. QED BY <2>4, <2>5, <2>6, <2>7 DEF LineGood
<1>18. LineGood(f, w, x, h, t, p, l)'
  <2>1. CASE pt.draining /\ inputData' = inputData BY <2>1, <1>16, <1>8
  <2>2. CASE ~pt.draining /\ inputData'[pt.session] = Append(inputData[pt.session], [token |-> token, drain |-> pt.drains])
    BY <2>2, <1>17, <1>8
  <2>3. QED BY <2>1, <2>2, ReadsTyped
<1>19. LineNow' BY <1>18, <1>11, <1>8, <1>1, <1>2, <1>14 DEF LineNow
<1>20. QED BY <1>3, <1>5, <1>19

\* What a piece does that the worker hears.
HearPaste(s, t) == t.kind = "paste" /\ Hears(s, t, None) /\ UNCHANGED <<term, pt, outrun, lost>>
HearReply(s, t) == \E reply \in Answers : reply = Reply(pt.held, t) /\ Negotiated(t) /\ Rests(s)
HearHeld(s, t) == pt.held # None /\ Hears(s, pt.held, t) /\ pt' = [pt EXCEPT !.held = None] /\ UNCHANGED <<term, outrun, lost>>
HearPrefix(s, t) == pt.held = None /\ t.kind = "prefix" /\ pt' = [pt EXCEPT !.held = t] /\ Rests(s) /\ UNCHANGED <<term, outrun, lost>>
HearPlain(s, t) == pt.held = None /\ t.kind \notin Answers /\ Hears(s, t, None) /\ UNCHANGED <<term, pt, outrun, lost>>

LEMMA ReplyOf ==
  ASSUME NEW t \in Token, NEW h \in Token
  PROVE  /\ Reply(h, t) \in Answers \cup {"none"}
         /\ Reply(h, t) \in Answers => t.kind \in Answers \cup {"rest"}
         /\ Reply(h, t) = "kitty" => t.kind = "kitty" \/ (t.kind = "rest" /\ t.of = "kitty")
         /\ Reply(h, t) = "none" /\ h = None => t.kind \notin Answers
  BY TokensTyped DEF Reply, Answers, None

LEMMA HearCases ==
  ASSUME NEW s, NEW t \in Token, pt.held \in Token, pt.session = s, Hear(s, t)
  PROVE  HearPaste(s, t) \/ HearReply(s, t) \/ HearHeld(s, t) \/ HearPrefix(s, t) \/ HearPlain(s, t)
<1>1. Reply(pt.held, t) \in Answers \cup {"none"} /\ "none" \notin Answers BY ReplyOf DEF Answers
<1>2. CASE t.kind = "paste"
  <2>1. Reply(pt.held, t) = "none" BY <1>1, <1>2, ReplyOf DEF Answers
  <2>2. QED BY <1>2, <2>1 DEF Hear, HearPaste
<1>3. CASE t.kind # "paste" /\ Reply(pt.held, t) # "none"
  <2>1. t.kind # "prefix" BY <1>1, <1>3, ReplyOf DEF Answers
  <2>2. Negotiated(t) /\ Rests(s) BY <1>3, <2>1 DEF Hear
  <2>3. QED BY <1>1, <1>3, <2>2 DEF HearReply
<1>4. CASE t.kind # "paste" /\ Reply(pt.held, t) = "none" /\ pt.held # None BY <1>4 DEF Hear, HearHeld
<1>5. CASE t.kind # "paste" /\ Reply(pt.held, t) = "none" /\ pt.held = None /\ t.kind = "prefix"
  BY <1>5 DEF Hear, HearPrefix
<1>6. CASE t.kind # "paste" /\ Reply(pt.held, t) = "none" /\ pt.held = None /\ t.kind # "prefix"
  <2>1. t.kind \notin Answers BY <1>6, ReplyOf
  <2>2. QED BY <1>6, <2>1 DEF Hear, HearPlain
<1>7. QED BY <1>2, <1>3, <1>4, <1>5, <1>6

\* The modes and the fields after it.
LEMMA HearTyped ==
  ASSUME TermTyped, FieldsTyped, outrun \in BOOLEAN, hearing \in [Sessions -> Hearing], NEW s \in Sessions, NEW t \in Token, Hear(s, t)
  PROVE  /\ TermTyped' /\ FieldsTyped' /\ outrun' \in BOOLEAN /\ hearing' \in [Sessions -> Hearing]
         /\ \A r \in Sessions : r # s => hearing'[r] = hearing[r]
         /\ pt'.session = pt.session /\ pt'.starts = pt.starts /\ pt'.handler = pt.handler /\ pt'.draining = pt.draining
         /\ pt'.drains = pt.drains /\ pt'.saved = pt.saved /\ pt'.pushed = pt.pushed
         /\ term'.supports = term.supports /\ term'.raw = term.raw /\ term'.paste = term.paste /\ term'.kitty = term.kitty
         /\ term'.progress = term.progress /\ term'.owes = term.owes
<1>1. None \in Token /\ pt.held \in Token /\ pt.handler \in Nat BY TokensTyped DEF FieldsTyped
<1>2. NobodyHears \in Hearing /\ \A u, v \in Token : [what |-> u, to |-> pt.handler, next |-> v] \in Hearing
  BY <1>1 DEF NobodyHears, Hearing
<1>3. pt.session = s => HearPaste(s, t) \/ HearReply(s, t) \/ HearHeld(s, t) \/ HearPrefix(s, t) \/ HearPlain(s, t)
  BY <1>1, HearCases
<1>4. pt.session # s => Rests(s) /\ UNCHANGED <<term, pt, outrun>> BY DEF Hear
<1>5. PICK v \in Hearing : hearing' = [hearing EXCEPT ![s] = v]
  BY <1>1, <1>2, <1>3, <1>4 DEF HearPaste, HearReply, HearHeld, HearPrefix, HearPlain, Hears, Rests
<1>6. hearing' \in [Sessions -> Hearing] /\ \A r \in Sessions : r # s => hearing'[r] = hearing[r] BY <1>5
<1>7. \/ UNCHANGED <<term, pt, outrun>>
      \/ UNCHANGED <<term, outrun>> /\ \E u \in Token : pt' = [pt EXCEPT !.held = u]
      \/ HearReply(s, t)
  BY <1>1, <1>3, <1>4 DEF HearPaste, HearReply, HearHeld, HearPrefix, HearPlain
<1>8. CASE UNCHANGED <<term, pt, outrun>> BY <1>6, <1>8 DEF TermTyped, FieldsTyped
<1>9. CASE UNCHANGED <<term, outrun>> /\ \E u \in Token : pt' = [pt EXCEPT !.held = u]
  <2>1. PICK u \in Token : pt' = [pt EXCEPT !.held = u] BY <1>9
  <2>2. FieldsTyped' BY <2>1 DEF FieldsTyped
  <2>3. /\ pt'.session = pt.session /\ pt'.starts = pt.starts /\ pt'.handler = pt.handler /\ pt'.draining = pt.draining
        /\ pt'.drains = pt.drains /\ pt'.saved = pt.saved /\ pt'.pushed = pt.pushed
    BY <2>1 DEF FieldsTyped
  <2>4. QED BY <1>6, <1>9, <2>2, <2>3 DEF TermTyped
<1>10. CASE HearReply(s, t)
  <2>1. PICK reply \in Answers : reply = Reply(pt.held, t) /\ Negotiated(t) BY <1>10 DEF HearReply
  <2>2. PICK active, other :
          /\ pt' = [pt EXCEPT !.held = None, !.kitty = active, !.other = other] /\ term' = [term EXCEPT !.other = other]
          /\ active = (pt.kitty \/ reply = "kitty") /\ other = (IF reply = "kitty" THEN FALSE ELSE pt.other \/ ~active)
    BY <2>1 DEF Negotiated
  <2>3. active \in BOOLEAN /\ other \in BOOLEAN BY <2>2 DEF FieldsTyped
  <2>4. FieldsTyped' BY <1>1, <2>2, <2>3 DEF FieldsTyped
  <2>5. /\ pt'.session = pt.session /\ pt'.starts = pt.starts /\ pt'.handler = pt.handler /\ pt'.draining = pt.draining
        /\ pt'.drains = pt.drains /\ pt'.saved = pt.saved /\ pt'.pushed = pt.pushed
    BY <2>2 DEF FieldsTyped
  <2>6. TermTyped' /\ term'.supports = term.supports /\ term'.raw = term.raw /\ term'.paste = term.paste /\ term'.kitty = term.kitty
        /\ term'.progress = term.progress /\ term'.owes = term.owes
    BY <2>2, <2>3 DEF TermTyped
  <2>7. outrun' \in BOOLEAN BY <2>1 DEF Negotiated
  <2>8. QED BY <1>6, <2>4, <2>5, <2>6, <2>7
<1>11. QED BY <1>7, <1>8, <1>9, <1>10

LEMMA HearModes ==
  ASSUME TerminalInv, NEW s \in Sessions, NEW t \in Token, Hear(s, t), pt.session = s => Own(t),
         UNCHANGED <<life, drain, progress, allowed>>
  PROVE  TermTyped' /\ FieldsTyped' /\ CallsTyped' /\ Owing' /\ SessionLife' /\ RawPaste' /\ Protocols' /\ Progress' /\ Handled'
<1>t. /\ TermTyped /\ FieldsTyped /\ CallsTyped /\ FlowTyped
      /\ Owing /\ SessionLife /\ RawPaste /\ Protocols /\ Progress /\ Handled
  BY DEF TerminalInv, TerminalTyped
<1>1. outrun \in BOOLEAN /\ hearing \in [Sessions -> Hearing] BY <1>t DEF CallsTyped, FlowTyped
<1>2. /\ TermTyped' /\ FieldsTyped' /\ outrun' \in BOOLEAN
      /\ pt'.session = pt.session /\ pt'.starts = pt.starts /\ pt'.handler = pt.handler /\ pt'.draining = pt.draining
      /\ pt'.drains = pt.drains /\ pt'.saved = pt.saved /\ pt'.pushed = pt.pushed
      /\ term'.supports = term.supports /\ term'.raw = term.raw /\ term'.paste = term.paste /\ term'.kitty = term.kitty
      /\ term'.progress = term.progress /\ term'.owes = term.owes
  BY <1>t, <1>1, HearTyped
<1>3. CallsTyped' BY <1>t, <1>2 DEF CallsTyped
<1>4. Owing' BY <1>t, <1>2 DEF Owing
<1>5. RawPaste' BY <1>t, <1>2 DEF RawPaste, At
<1>6. Progress' BY <1>t, <1>2 DEF Progress, At
<1>7. Handled' BY <1>t, <1>2 DEF Handled
<1>8. pt.held \in Token BY <1>t DEF FieldsTyped
<1>9. \/ pt'.kitty = pt.kitty /\ pt'.other = pt.other /\ term'.other = term.other /\ outrun' = outrun /\ (pt.session # s => pt' = pt)
      \/ pt.session = s /\ HearReply(s, t)
  <2>1. CASE pt.session # s BY <2>1 DEF Hear
  <2>2. CASE pt.session = s
    <3>1. HearPaste(s, t) \/ HearReply(s, t) \/ HearHeld(s, t) \/ HearPrefix(s, t) \/ HearPlain(s, t) BY <1>8, <2>2, HearCases
    <3>2. CASE HearPaste(s, t) BY <2>2, <3>2 DEF HearPaste
    <3>3. CASE HearHeld(s, t) BY <1>t, <2>2, <3>3 DEF HearHeld, FieldsTyped
    <3>4. CASE HearPrefix(s, t) BY <1>t, <2>2, <3>4 DEF HearPrefix, FieldsTyped
    <3>5. CASE HearPlain(s, t) BY <2>2, <3>5 DEF HearPlain
    <3>6. QED BY <2>2, <3>1, <3>2, <3>3, <3>4, <3>5
  <2>3. QED BY <2>1, <2>2
<1>10. s # 0 BY DEF Sessions
<1>11. SessionLife'
  <2>1. pt.session # s => pt' = pt BY DEF Hear
  <2>2. QED BY <1>t, <1>2, <1>10, <2>1 DEF SessionLife
<1>12. Protocols'
  <2>1. CASE pt'.kitty = pt.kitty /\ pt'.other = pt.other /\ term'.other = term.other /\ outrun' = outrun
    BY <1>t, <1>2, <2>1 DEF Protocols
  <2>2. CASE pt.session = s /\ HearReply(s, t)
    <3>1. PICK reply \in Answers : reply = Reply(pt.held, t) /\ Negotiated(t) BY <2>2 DEF HearReply
    <3>2. /\ pt'.kitty = (pt.kitty \/ reply = "kitty")
          /\ pt'.other = (IF reply = "kitty" THEN FALSE ELSE pt.other \/ ~(pt.kitty \/ reply = "kitty"))
          /\ term'.other = pt'.other /\ outrun' = (outrun \/ (reply = "kitty" /\ ~pt.pushed))
      BY <1>t, <3>1 DEF Negotiated, FieldsTyped, TermTyped
    <3>3. reply = "kitty" => term.supports = "kitty" BY <1>8, <2>2, <3>1, ReplyOf DEF Own
    <3>4. pt.other => ~pt.kitty BY <1>t DEF Protocols
    <3>5. pt'.kitty \in BOOLEAN /\ pt'.other \in BOOLEAN /\ term'.other \in BOOLEAN BY <1>2 DEF FieldsTyped, TermTyped
    <3>6. (pt'.other => ~pt'.kitty) /\ (term'.other => pt'.other) /\ (pt'.other => term'.other)
      BY <3>2, <3>4
    <3>7. pt'.kitty /\ ~outrun' => term'.kitty = 1
      <4>1. reply = "kitty" /\ ~outrun' => pt.pushed BY <3>2
      <4>2. pt'.kitty => pt.kitty \/ reply = "kitty" BY <3>2
      <4>3. ~outrun' => ~outrun BY <3>2
      <4>4. QED BY <1>t, <1>2, <3>3, <4>1, <4>2, <4>3 DEF Protocols
    <3>8. QED BY <1>t, <1>2, <3>6, <3>7 DEF Protocols
  <2>3. QED BY <1>9, <2>1, <2>2
<1>13. QED BY <1>2, <1>3, <1>4, <1>5, <1>6, <1>7, <1>11, <1>12

\* A piece of the line that moves keeps it good.
LEMMA LineMoved ==
  ASSUME NEW f, NEW h \in Token, NEW t \in Token, NEW q, LineGood(f, None, None, h, t, q, lost), FlowTyped,
         NEW w \in {None, h, t}, NEW x \in {None, h, t}, NEW g \in {None, h, t}, NEW u \in {None, h, t},
         LineOrder(f, w, x, g, u, q), w.kind \notin Answers, g.kind \in {"none", "prefix"},
         NEW l, l = lost', lost \subseteq l, \A v \in {h, t} : v.n = 0 \/ v.n \in l \/ v \in {w, x, g, u},
         read' = read, purged' = purged, term'.supports = term.supports,
         pt'.session = pt.session, pt'.drains = pt.drains, pt'.draining = pt.draining
  PROVE  LineGood(f, w, x, g, u, q, l)'
<1>1. l = lost' OBVIOUS
<1>2. \A v : Placed(v)' <=> Placed(v) BY DEF Placed, Own
<1>3. Placed(None) /\ Placed(h) /\ Placed(t) BY DEF LineGood, LineOwn
<1>4. Placed(w)' /\ Placed(x)' /\ Placed(g)' /\ Placed(u)' BY <1>2, <1>3
<1>5. \A j \in DOMAIN q : Own(q[j].token)' <=> Own(q[j].token) BY DEF Own
<1>6. LineOwn(w, x, g, u, q)' BY <1>4, <1>5 DEF LineGood, LineOwn
<1>7. None.n = 0 BY DEF None
<1>8. LineWhole(f, w, x, g, u, q, l)'
  <2>1. SUFFICES ASSUME NEW n \in DOMAIN read, read[n] = pt.session, n \notin l, \A i \in DOMAIN f : f[i].n # n
                 PROVE  n \in {w.n, x.n, g.n, u.n} \/ \E j \in DOMAIN q : q[j].token.n = n
    BY DEF LineWhole
  <2>2. n # 0 /\ n \notin lost BY <1>1, <2>1 DEF FlowTyped
  <2>3. n \in {0, h.n, t.n} \/ \E j \in DOMAIN q : q[j].token.n = n BY <2>1, <2>2, <1>7 DEF LineGood, LineWhole
  <2>4. h.n = n => h \in {w, x, g, u} BY <2>1, <2>2, <1>1
  <2>5. t.n = n => t \in {w, x, g, u} BY <2>1, <2>2, <1>1
  <2>6. QED BY <2>2, <2>3, <2>4, <2>5
<1>9. LineLost(w, x, g, u, q, l)' BY <1>1, <1>7 DEF LineGood, LineLost, Gone
<1>10. LineOrder(f, w, x, g, u, q) OBVIOUS
<1>11. QED BY <1>6, <1>8, <1>9, <1>10 DEF LineGood

\* The line after it, and what the worker then holds.
LEMMA HearLine ==
  ASSUME TermTyped, FieldsTyped, FlowTyped, CallsTyped, Handled, NEW s \in Sessions, s = pt.session, NEW f, NEW t \in Token, t # None, NEW q,
         LineGood(f, None, None, pt.held, t, q, lost), Hear(s, t), read' = read, purged' = purged, taken'[s] = None
  PROVE  /\ LineGood(f, hearing[s].what, hearing[s].next, pt.held, None, q, lost)' /\ Hands(s)'
<1>1. PICK h, l : h = pt.held /\ l = lost' OBVIOUS
<1>2. h \in Token /\ None \in Token /\ None.n = 0 /\ None.kind = "none" BY <1>1, TokensTyped DEF FieldsTyped, None
<1>3. /\ pt'.session = pt.session /\ pt'.drains = pt.drains /\ pt'.draining = pt.draining /\ term'.supports = term.supports
      /\ hearing' \in [Sessions -> Hearing]
  BY HearTyped DEF CallsTyped, FlowTyped
<1>4. /\ LineOwn(None, None, h, t, q) /\ LineOrder(f, None, None, h, t, q) /\ LineLost(None, None, h, t, q, lost) BY <1>1 DEF LineGood
<1>5. Own(h) /\ Own(t) /\ h.kind \in {"none", "prefix"} BY <1>4 DEF LineOwn, Placed
<1>6. h.kind = "prefix" \/ h.n = 0 BY <1>5 DEF Own
<1>7. s # 0 /\ pt.handler \in {0, s} /\ (pt.handler = 0 => pt.draining) BY DEF Handled, Sessions
<1>8. pt.draining => Gone(h, lost) /\ Gone(t, lost) BY <1>4 DEF LineLost
<1>9. LineGood(f, None, None, h, t, q, lost) BY <1>1
<1>10. CASE HearPaste(s, t)
  <2>1. hearing'[s].what = t /\ hearing'[s].next = None /\ hearing'[s].to = pt.handler /\ pt'.held = h /\ lost' = lost
    BY <1>10, <1>1 DEF HearPaste, Hears, FlowTyped
  <2>2. t.kind = "paste" BY <1>10 DEF HearPaste
  <2>3. LineOrder(f, t, None, h, None, q) BY <1>2, <1>4, <1>6, <2>2, OrderPasted
  <2>4. LineGood(f, t, None, h, None, q, l)'
    BY <1>1, <1>2, <1>3, <1>5, <1>9, <2>1, <2>2, <2>3, LineMoved DEF Answers
  <2>5. Hands(s)' BY <2>1, <1>7, <1>8 DEF Hands, Gone
  <2>6. QED BY <1>1, <2>1, <2>4, <2>5 DEF LineGood, LineWhole, LineLost, Gone
<1>11. CASE HearPlain(s, t)
  <2>1. hearing'[s].what = t /\ hearing'[s].next = None /\ hearing'[s].to = pt.handler /\ pt'.held = None /\ lost' = lost /\ h = None
    BY <1>11, <1>1 DEF HearPlain, Hears, FlowTyped
  <2>2. t.kind \notin Answers BY <1>11 DEF HearPlain
  <2>3. LineOrder(f, t, None, None, None, q) BY <1>4, <2>1, OrderMoved
  <2>4. LineGood(f, t, None, None, None, q, l)'
    BY <1>1, <1>2, <1>3, <1>9, <2>1, <2>2, <2>3, LineMoved
  <2>5. Hands(s)' BY <2>1, <1>7, <1>8 DEF Hands, Gone
  <2>6. QED BY <1>1, <2>1, <2>4, <2>5 DEF LineGood, LineWhole, LineLost, Gone
<1>12. CASE HearHeld(s, t)
  <2>1. hearing'[s].what = h /\ hearing'[s].next = t /\ hearing'[s].to = pt.handler /\ pt'.held = None /\ lost' = lost /\ h # None
    BY <1>12, <1>1 DEF HearHeld, Hears, FlowTyped, FieldsTyped
  <2>2. LineOrder(f, h, t, None, None, q) BY <1>4, OrderMoved
  <2>3. LineGood(f, h, t, None, None, q, l)'
    BY <1>1, <1>2, <1>3, <1>5, <1>9, <2>1, <2>2, LineMoved DEF Answers
  <2>4. Hands(s)' BY <2>1, <1>7, <1>8 DEF Hands, Gone
  <2>5. QED BY <1>1, <2>1, <2>3, <2>4 DEF LineGood, LineWhole, LineLost, Gone
<1>13. CASE HearPrefix(s, t)
  <2>1. hearing'[s] = NobodyHears /\ pt'.held = t /\ lost' = lost /\ h = None /\ t.kind = "prefix"
    BY <1>13, <1>1 DEF HearPrefix, Rests, FlowTyped, FieldsTyped
  <2>2. LineOrder(f, None, None, t, None, q) BY <1>4, <2>1, OrderMoved
  <2>3. LineGood(f, None, None, t, None, q, l)'
    BY <1>1, <1>2, <1>3, <1>9, <2>1, <2>2, LineMoved DEF Answers
  <2>4. hearing'[s].what = None /\ hearing'[s].next = None BY <2>1 DEF NobodyHears
  <2>5. Hands(s)' BY <2>1, <2>4 DEF Hands
  <2>6. QED BY <1>1, <2>1, <2>3, <2>4, <2>5 DEF LineGood, LineWhole, LineLost, Gone
<1>14. CASE HearReply(s, t)
  <2>1. PICK reply \in Answers : reply = Reply(h, t) /\ Negotiated(t) /\ Rests(s) BY <1>14, <1>1 DEF HearReply
  <2>2. hearing'[s] = NobodyHears /\ pt'.held = None /\ lost' = lost \cup {h.n}
    BY <2>1, <1>1 DEF Negotiated, Rests, FlowTyped, FieldsTyped
  <2>3. t.n = 0 BY <2>1, <1>2, <1>5, ReplyOf DEF Own
  <2>4. LineOrder(f, None, None, None, None, q) /\ lost \subseteq l /\ h.n \in l BY <1>1, <1>4, <2>2, OrderMoved
  <2>5. LineGood(f, None, None, None, None, q, l)'
    <3>1. \A v \in {h, t} : v.n = 0 \/ v.n \in l BY <2>3, <2>4
    <3>2. None \in {None, h, t} /\ None.kind \notin Answers BY <1>2 DEF Answers
    <3>3. QED BY <1>1, <1>2, <1>3, <1>9, <2>4, <3>1, <3>2, LineMoved
  <2>6. hearing'[s].what = None /\ hearing'[s].next = None BY <2>2 DEF NobodyHears
  <2>7. Hands(s)' BY <2>2, <2>6 DEF Hands
  <2>8. QED BY <1>1, <2>2, <2>5, <2>6, <2>7 DEF LineGood, LineWhole, LineLost, Gone
<1>15. QED
  <2>1. pt.held \in Token BY <1>1, <1>2
  <2>2. QED BY <2>1, <1>10, <1>11, <1>12, <1>13, <1>14, HearCases

Progresses == \E active \in BOOLEAN : SetProgress(active)

LEMMA StartFailsQuiet ==
  ASSUME TerminalInv, StartFails
  PROVE  TerminalInv'
<1>t. /\ TermTyped /\ FieldsTyped /\ CallsTyped /\ FlowTyped
      /\ Owing /\ SessionLife /\ RawPaste /\ Protocols /\ Progress /\ Handled /\ Past /\ OtherSessions /\ LineNow
  BY DEF TerminalInv, TerminalTyped
<1>1. TermTyped'
  BY <1>t DEF StartFails, At, Spend, TermTyped, drainVars
<1>2. FieldsTyped'
  BY <1>t DEF StartFails, At, Spend, FieldsTyped, drainVars
<1>3. CallsTyped'
  BY <1>t DEF StartFails, At, Spend, CallsTyped, Allowed, LifePlaces, drainVars
<1>4. FlowTyped'
  BY <1>t DEF StartFails, At, Spend, FlowTyped, flowVars, drainVars
<1>5. Owing'
  BY <1>t DEF StartFails, At, Spend, Owing, TermTyped, drainVars
<1>6. SessionLife'
  BY <1>t, TerminalAssumption DEF StartFails, At, Spend, SessionLife, CallsTyped, Allowed, LifePlaces, FieldsTyped, drainVars
<1>7. RawPaste'
  <2>1. CASE pt' = [pt EXCEPT !.saved = FALSE] /\ term' = [term EXCEPT !.raw = FALSE]
    <3>1. term'.raw = FALSE /\ pt'.saved = FALSE /\ term'.paste = term.paste /\ pt'.session = 0 /\ life'.at = "idle"
      BY <1>t, <2>1 DEF StartFails, At, TermTyped, FieldsTyped
    <3>2. pt.session = 0 /\ life.at = "idle" BY DEF StartFails, At
    <3>3. QED BY <1>t, <3>1, <3>2 DEF RawPaste, At
  <2>2. CASE UNCHANGED <<pt, term>>
    BY <1>t, <2>2 DEF StartFails, RawPaste, At
  <2>3. QED BY <2>1, <2>2 DEF StartFails
<1>8. Protocols'
  BY <1>t DEF StartFails, At, Spend, Protocols, SessionLife, CallsTyped, LifePlaces, drainVars, TermTyped, FieldsTyped
<1>9. Progress'
  BY <1>t DEF StartFails, At, Spend, Progress, SessionLife, CallsTyped, LifePlaces, TermTyped, FieldsTyped, drainVars
<1>10. Handled'
  BY <1>t DEF StartFails, At, Spend, Handled, FieldsTyped, SessionLife, drainVars
<1>11. KeysAlone
  BY <1>t DEF StartFails, At, Spend, KeysAlone, TermTyped, FieldsTyped, flowVars, drainVars
<1>12. Past' /\ OtherSessions' /\ LineNow'
  BY <1>t, <1>11, KeysStand DEF TerminalTyped
<1>13. QED
  BY <1>1, <1>2, <1>3, <1>4, <1>5, <1>6, <1>7, <1>8, <1>9, <1>10, <1>12 DEF TerminalInv, TerminalTyped

LEMMA OpenReaderQuiet ==
  ASSUME TerminalInv, OpenReader
  PROVE  TerminalInv'
<1>t. /\ TermTyped /\ FieldsTyped /\ CallsTyped /\ FlowTyped
      /\ Owing /\ SessionLife /\ RawPaste /\ Protocols /\ Progress /\ Handled /\ Past /\ OtherSessions /\ LineNow
  BY DEF TerminalInv, TerminalTyped
<1>1. TermTyped'
  BY <1>t DEF OpenReader, At, Goes, Spend, TermTyped, drainVars
<1>2. FieldsTyped'
  BY <1>t DEF OpenReader, At, Goes, Spend, FieldsTyped, drainVars
<1>3. CallsTyped'
  BY <1>t DEF OpenReader, At, Goes, Spend, CallsTyped, Allowed, LifePlaces, drainVars
<1>4. FlowTyped'
  BY <1>t DEF OpenReader, At, Goes, Spend, FlowTyped, flowVars, drainVars
<1>5. Owing'
  BY <1>t DEF OpenReader, At, Goes, Spend, Owing, TermTyped, drainVars
<1>6. SessionLife'
  BY <1>t, TerminalAssumption DEF OpenReader, At, Goes, Spend, SessionLife, CallsTyped, Allowed, LifePlaces, FieldsTyped, drainVars
<1>7. RawPaste'
  BY <1>t DEF OpenReader, At, Goes, Spend, RawPaste, SessionLife, CallsTyped, LifePlaces, TermTyped, FieldsTyped, drainVars
<1>8. Protocols'
  BY <1>t DEF OpenReader, At, Goes, Spend, Protocols, SessionLife, CallsTyped, LifePlaces, drainVars, TermTyped, FieldsTyped
<1>9. Progress'
  BY <1>t DEF OpenReader, At, Goes, Spend, Progress, SessionLife, CallsTyped, LifePlaces, TermTyped, FieldsTyped, drainVars
<1>10. Handled'
  BY <1>t DEF OpenReader, At, Goes, Spend, Handled, FieldsTyped, SessionLife, drainVars
<1>11. KeysAlone
  BY <1>t DEF OpenReader, At, Goes, Spend, KeysAlone, TermTyped, FieldsTyped, flowVars, drainVars
<1>12. Past' /\ OtherSessions' /\ LineNow'
  BY <1>t, <1>11, KeysStand DEF TerminalTyped
<1>13. QED
  BY <1>1, <1>2, <1>3, <1>4, <1>5, <1>6, <1>7, <1>8, <1>9, <1>10, <1>12 DEF TerminalInv, TerminalTyped

LEMMA RestoreRawQuiet ==
  ASSUME TerminalInv, RestoreRaw
  PROVE  TerminalInv'
<1>t. /\ TermTyped /\ FieldsTyped /\ CallsTyped /\ FlowTyped
      /\ Owing /\ SessionLife /\ RawPaste /\ Protocols /\ Progress /\ Handled /\ Past /\ OtherSessions /\ LineNow
  BY DEF TerminalInv, TerminalTyped
<1>1. TermTyped'
  BY <1>t DEF RestoreRaw, At, Goes, Spend, TermTyped, drainVars
<1>2. FieldsTyped'
  BY <1>t DEF RestoreRaw, At, Goes, Spend, FieldsTyped, drainVars
<1>3. CallsTyped'
  BY <1>t DEF RestoreRaw, At, Goes, Spend, CallsTyped, Allowed, LifePlaces, drainVars
<1>4. FlowTyped'
  BY <1>t DEF RestoreRaw, At, Goes, Spend, FlowTyped, flowVars, drainVars
<1>5. Owing'
  BY <1>t DEF RestoreRaw, At, Goes, Spend, Owing, TermTyped, drainVars
<1>6. SessionLife'
  BY <1>t, TerminalAssumption DEF RestoreRaw, At, Goes, Spend, SessionLife, CallsTyped, Allowed, LifePlaces, FieldsTyped, drainVars
<1>7. RawPaste'
  <2>1. CASE term' = [term EXCEPT !.raw = FALSE] /\ pt' = [pt EXCEPT !.saved = FALSE]
    <3>1. term'.raw = FALSE /\ pt'.saved = FALSE /\ pt'.session = 0 /\ life'.at = "writing"
      BY <1>t, <2>1 DEF RestoreRaw, At, Goes, TermTyped, FieldsTyped, CallsTyped, SessionLife
    <3>2. QED BY <3>1 DEF RawPaste, At
  <2>2. CASE UNCHANGED <<pt, term>>
    <3>1. life'.at = "writing" /\ pt.session = 0
      BY <1>t DEF RestoreRaw, At, Goes, CallsTyped, SessionLife
    <3>2. QED BY <1>t, <2>2, <3>1 DEF RawPaste, At
  <2>3. QED BY <2>1, <2>2 DEF RestoreRaw
<1>8. Protocols'
  BY <1>t DEF RestoreRaw, At, Goes, Spend, Protocols, SessionLife, CallsTyped, LifePlaces, drainVars, TermTyped, FieldsTyped
<1>9. Progress'
  BY <1>t DEF RestoreRaw, At, Goes, Spend, Progress, SessionLife, CallsTyped, LifePlaces, TermTyped, FieldsTyped, drainVars
<1>10. Handled'
  BY <1>t DEF RestoreRaw, At, Goes, Spend, Handled, FieldsTyped, SessionLife, drainVars
<1>11. KeysAlone
  BY <1>t DEF RestoreRaw, At, Goes, Spend, KeysAlone, TermTyped, FieldsTyped, flowVars, drainVars
<1>12. Past' /\ OtherSessions' /\ LineNow'
  BY <1>t, <1>11, KeysStand DEF TerminalTyped
<1>13. QED
  BY <1>1, <1>2, <1>3, <1>4, <1>5, <1>6, <1>7, <1>8, <1>9, <1>10, <1>12 DEF TerminalInv, TerminalTyped

LEMMA WriteModesQuiet ==
  ASSUME TerminalInv, WriteModes
  PROVE  TerminalInv'
<1>t. /\ TermTyped /\ FieldsTyped /\ CallsTyped /\ FlowTyped
      /\ Owing /\ SessionLife /\ RawPaste /\ Protocols /\ Progress /\ Handled /\ Past /\ OtherSessions /\ LineNow
  BY DEF TerminalInv, TerminalTyped
<1>1. TermTyped'
  <2>1. DEFINE fewer == IF life.undo.pop /\ term.kitty > 0 THEN term.kitty - 1 ELSE term.kitty
  <2>2. fewer \in Nat BY <1>t DEF TermTyped
  <2>3. term' = [supports |-> term.supports, raw |-> term.raw, paste |-> FALSE, kitty |-> fewer,
                 other |-> term.other /\ ~life.undo.other, progress |-> term.progress /\ progress # "ended", owes |-> term.owes]
    BY <1>t DEF WriteModes, Popped, TermTyped
  <2>4. QED BY <1>t, <2>2, <2>3 DEF TermTyped
<1>2. FieldsTyped'
  BY <1>t DEF WriteModes, At, Popped, Quiet, FieldsTyped, drainVars
<1>3. CallsTyped'
  BY <1>t DEF WriteModes, At, Popped, Quiet, CallsTyped, Allowed, LifePlaces, drainVars
<1>4. FlowTyped'
  BY <1>t DEF WriteModes, At, Popped, Quiet, FlowTyped, flowVars, drainVars
<1>5. Owing'
  BY <1>t DEF WriteModes, At, Popped, Quiet, Owing, TermTyped, drainVars
<1>6. SessionLife'
  BY <1>t, TerminalAssumption DEF WriteModes, At, Popped, Quiet, SessionLife, CallsTyped, Allowed, LifePlaces, FieldsTyped, drainVars
<1>7. RawPaste'
  BY <1>t DEF WriteModes, At, Popped, Quiet, RawPaste, SessionLife, CallsTyped, LifePlaces, TermTyped, FieldsTyped, drainVars
<1>8. Protocols'
  BY <1>t DEF WriteModes, At, Popped, Quiet, Protocols, SessionLife, CallsTyped, LifePlaces, drainVars, TermTyped, FieldsTyped
<1>9. Progress'
  BY <1>t DEF WriteModes, At, Popped, Quiet, Progress, SessionLife, CallsTyped, LifePlaces, TermTyped, FieldsTyped, drainVars
<1>10. Handled'
  BY <1>t DEF WriteModes, At, Popped, Quiet, Handled, FieldsTyped, SessionLife, drainVars
<1>11. KeysAlone
  BY <1>t DEF WriteModes, At, Popped, Quiet, KeysAlone, TermTyped, FieldsTyped, flowVars, drainVars
<1>12. Past' /\ OtherSessions' /\ LineNow'
  BY <1>t, <1>11, KeysStand DEF TerminalTyped
<1>13. QED
  BY <1>1, <1>2, <1>3, <1>4, <1>5, <1>6, <1>7, <1>8, <1>9, <1>10, <1>12 DEF TerminalInv, TerminalTyped

LEMMA ProgressesQuiet ==
  ASSUME TerminalInv, Progresses
  PROVE  TerminalInv'
<1>t. /\ TermTyped /\ FieldsTyped /\ CallsTyped /\ FlowTyped
      /\ Owing /\ SessionLife /\ RawPaste /\ Protocols /\ Progress /\ Handled /\ Past /\ OtherSessions /\ LineNow
  BY DEF TerminalInv, TerminalTyped
<1>1. TermTyped'
  BY <1>t DEF Progresses, SetProgress, At, Spend, Goes, TermTyped, drainVars
<1>2. FieldsTyped'
  BY <1>t DEF Progresses, SetProgress, At, Spend, Goes, FieldsTyped, drainVars
<1>3. CallsTyped'
  BY <1>t DEF Progresses, SetProgress, At, Spend, Goes, CallsTyped, Allowed, LifePlaces, drainVars
<1>4. FlowTyped'
  BY <1>t DEF Progresses, SetProgress, At, Spend, Goes, FlowTyped, flowVars, drainVars
<1>5. Owing'
  BY <1>t DEF Progresses, SetProgress, At, Spend, Goes, Owing, TermTyped, drainVars
<1>6. SessionLife'
  BY <1>t, TerminalAssumption DEF Progresses, SetProgress, At, Spend, Goes, SessionLife, CallsTyped, Allowed, LifePlaces, FieldsTyped, drainVars
<1>7. RawPaste'
  BY <1>t DEF Progresses, SetProgress, At, Spend, Goes, RawPaste, SessionLife, CallsTyped, LifePlaces, TermTyped, FieldsTyped, drainVars
<1>8. Protocols'
  <2>1. /\ pt' = pt /\ outrun' = outrun /\ life.at = "idle" /\ life'.at \in {"idle", "clearing"}
        /\ term'.supports = term.supports /\ term'.kitty = term.kitty /\ term'.other = term.other
    BY <1>t DEF Progresses, SetProgress, At, Goes, CallsTyped, TermTyped, drainVars
  <2>2. QED BY <1>t, <2>1 DEF Protocols
<1>9. Progress'
  BY <1>t DEF Progresses, SetProgress, At, Spend, Goes, Progress, SessionLife, CallsTyped, LifePlaces, TermTyped, FieldsTyped, drainVars
<1>10. Handled'
  BY <1>t DEF Progresses, SetProgress, At, Spend, Goes, Handled, FieldsTyped, SessionLife, drainVars
<1>11. KeysAlone
  BY <1>t DEF Progresses, SetProgress, At, Spend, Goes, KeysAlone, TermTyped, FieldsTyped, flowVars, drainVars
<1>12. Past' /\ OtherSessions' /\ LineNow'
  BY <1>t, <1>11, KeysStand DEF TerminalTyped
<1>13. QED
  BY <1>1, <1>2, <1>3, <1>4, <1>5, <1>6, <1>7, <1>8, <1>9, <1>10, <1>12 DEF TerminalInv, TerminalTyped

LEMMA ClearProgressQuiet ==
  ASSUME TerminalInv, ClearProgress
  PROVE  TerminalInv'
<1>t. /\ TermTyped /\ FieldsTyped /\ CallsTyped /\ FlowTyped
      /\ Owing /\ SessionLife /\ RawPaste /\ Protocols /\ Progress /\ Handled /\ Past /\ OtherSessions /\ LineNow
  BY DEF TerminalInv, TerminalTyped
<1>1. TermTyped'
  BY <1>t DEF ClearProgress, At, Quiet, TermTyped, drainVars
<1>2. FieldsTyped'
  BY <1>t DEF ClearProgress, At, Quiet, FieldsTyped, drainVars
<1>3. CallsTyped'
  BY <1>t DEF ClearProgress, At, Quiet, CallsTyped, Allowed, LifePlaces, drainVars
<1>4. FlowTyped'
  BY <1>t DEF ClearProgress, At, Quiet, FlowTyped, flowVars, drainVars
<1>5. Owing'
  BY <1>t DEF ClearProgress, At, Quiet, Owing, TermTyped, drainVars
<1>6. SessionLife'
  BY <1>t, TerminalAssumption DEF ClearProgress, At, Quiet, SessionLife, CallsTyped, Allowed, LifePlaces, FieldsTyped, drainVars
<1>7. RawPaste'
  BY <1>t DEF ClearProgress, At, Quiet, RawPaste, SessionLife, CallsTyped, LifePlaces, TermTyped, FieldsTyped, drainVars
<1>8. Protocols'
  BY <1>t DEF ClearProgress, At, Quiet, Protocols, SessionLife, CallsTyped, LifePlaces, drainVars, TermTyped, FieldsTyped
<1>9. Progress'
  BY <1>t DEF ClearProgress, At, Quiet, Progress, SessionLife, CallsTyped, LifePlaces, TermTyped, FieldsTyped, drainVars
<1>10. Handled'
  BY <1>t DEF ClearProgress, At, Quiet, Handled, FieldsTyped, SessionLife, drainVars
<1>11. KeysAlone
  BY <1>t DEF ClearProgress, At, Quiet, KeysAlone, TermTyped, FieldsTyped, flowVars, drainVars
<1>12. Past' /\ OtherSessions' /\ LineNow'
  BY <1>t, <1>11, KeysStand DEF TerminalTyped
<1>13. QED
  BY <1>1, <1>2, <1>3, <1>4, <1>5, <1>6, <1>7, <1>8, <1>9, <1>10, <1>12 DEF TerminalInv, TerminalTyped

LEMMA KeepaliveQuiet ==
  ASSUME TerminalInv, Keepalive
  PROVE  TerminalInv'
<1>t. /\ TermTyped /\ FieldsTyped /\ CallsTyped /\ FlowTyped
      /\ Owing /\ SessionLife /\ RawPaste /\ Protocols /\ Progress /\ Handled /\ Past /\ OtherSessions /\ LineNow
  BY DEF TerminalInv, TerminalTyped
<1>1. TermTyped'
  BY <1>t DEF Keepalive, TermTyped, drainVars
<1>2. FieldsTyped'
  BY <1>t DEF Keepalive, FieldsTyped, drainVars
<1>3. CallsTyped'
  BY <1>t DEF Keepalive, CallsTyped, Allowed, LifePlaces, drainVars
<1>4. FlowTyped'
  BY <1>t DEF Keepalive, FlowTyped, flowVars, drainVars
<1>5. Owing'
  BY <1>t DEF Keepalive, Owing, TermTyped, drainVars
<1>6. SessionLife'
  BY <1>t, TerminalAssumption DEF Keepalive, SessionLife, CallsTyped, Allowed, LifePlaces, FieldsTyped, drainVars
<1>7. RawPaste'
  BY <1>t DEF Keepalive, RawPaste, SessionLife, At, CallsTyped, LifePlaces, TermTyped, FieldsTyped, drainVars
<1>8. Protocols'
  BY <1>t DEF Keepalive, Protocols, SessionLife, CallsTyped, LifePlaces, drainVars, TermTyped, FieldsTyped
<1>9. Progress'
  BY <1>t DEF Keepalive, Progress, SessionLife, At, CallsTyped, LifePlaces, TermTyped, FieldsTyped, drainVars
<1>10. Handled'
  BY <1>t DEF Keepalive, Handled, FieldsTyped, SessionLife, drainVars
<1>11. KeysAlone
  BY <1>t DEF Keepalive, KeysAlone, TermTyped, FieldsTyped, flowVars, drainVars
<1>12. Past' /\ OtherSessions' /\ LineNow'
  BY <1>t, <1>11, KeysStand DEF TerminalTyped
<1>13. QED
  BY <1>1, <1>2, <1>3, <1>4, <1>5, <1>6, <1>7, <1>8, <1>9, <1>10, <1>12 DEF TerminalInv, TerminalTyped

KeysRead == \E kind \in {"key", "paste", "prefix"} : KeyTyped(kind)

LEMMA StartKeeps ==
  ASSUME TerminalInv, Start
  PROVE  TerminalInv'
<1>t. /\ TermTyped /\ FieldsTyped /\ CallsTyped /\ FlowTyped
      /\ Owing /\ SessionLife /\ RawPaste /\ Protocols /\ Progress /\ Handled /\ Past /\ OtherSessions /\ LineNow
  BY DEF TerminalInv, TerminalTyped
<1>1. TermTyped'
  BY <1>t DEF Start, At, Spend, Goes, TermTyped, drainVars
<1>2. FieldsTyped'
  <2>1. pt' = [pt EXCEPT !.starts = pt.starts + 1, !.session = pt.starts + 1, !.handler = pt.starts + 1, !.saved = TRUE, !.draining = FALSE]
    BY <1>t DEF Start, FieldsTyped
  <2>2. pt.starts + 1 \in Nat BY <1>t DEF FieldsTyped
  <2>3. QED BY <1>t, <2>1, <2>2 DEF FieldsTyped
<1>3. CallsTyped'
  BY <1>t DEF Start, At, Spend, Goes, CallsTyped, Allowed, LifePlaces, drainVars
<1>4. FlowTyped'
  BY <1>t DEF Start, At, Spend, Goes, FlowTyped, flowVars, drainVars
<1>5. Owing'
  BY <1>t DEF Start, At, Spend, Goes, Owing, TermTyped, drainVars
<1>6. SessionLife'
  BY <1>t, TerminalAssumption DEF Start, At, Spend, Goes, SessionLife, CallsTyped, Allowed, LifePlaces, FieldsTyped, drainVars
<1>7. RawPaste'
  BY <1>t DEF Start, At, Spend, Goes, RawPaste, SessionLife, CallsTyped, LifePlaces, TermTyped, FieldsTyped, drainVars
<1>8. Protocols'
  BY <1>t DEF Start, At, Spend, Goes, Protocols, SessionLife, CallsTyped, LifePlaces, drainVars, TermTyped, FieldsTyped
<1>9. Progress'
  BY <1>t DEF Start, At, Spend, Goes, Progress, SessionLife, CallsTyped, LifePlaces, TermTyped, FieldsTyped, drainVars
<1>10. Handled'
  <2>f. /\ pt'.starts = pt.starts + 1 /\ pt'.session = pt.starts + 1 /\ pt'.handler = pt.starts + 1 /\ pt'.draining = FALSE
        /\ pt'.held = pt.held /\ pt'.drains = pt.drains /\ pt.starts \in Nat /\ pt.session = 0 /\ pt.held = None
        /\ pt.starts + 1 \in Sessions /\ drain' = drain
    BY <1>t, TerminalAssumption DEF Start, Spend, FieldsTyped, CallsTyped, Allowed, SessionLife, Sessions
  <2>u. inputData' = inputData /\ taken' = taken /\ hearing' = hearing /\ read' = read /\ forwarded' = forwarded /\ lost' = lost /\ purged' = purged
    BY DEF Start, flowVars, drainVars
  <2>1. drain.session \in Nat /\ drain.handler \in Nat BY <1>t DEF CallsTyped
  <2>2. QED BY <1>t, <2>f, <2>1 DEF Handled
<1>11. Past'
  BY <1>t DEF Start, At, Spend, Goes, Past, FlowTyped, FieldsTyped, flowVars, drainVars
<1>12. OtherSessions'
  <2>f. /\ pt'.starts = pt.starts + 1 /\ pt'.session = pt.starts + 1 /\ pt'.handler = pt.starts + 1 /\ pt'.draining = FALSE
        /\ pt'.held = pt.held /\ pt'.drains = pt.drains /\ pt.starts \in Nat /\ pt.session = 0 /\ pt.held = None
        /\ pt.starts + 1 \in Sessions /\ drain' = drain
    BY <1>t, TerminalAssumption DEF Start, Spend, FieldsTyped, CallsTyped, Allowed, SessionLife, Sessions
  <2>u. inputData' = inputData /\ taken' = taken /\ hearing' = hearing /\ read' = read /\ forwarded' = forwarded /\ lost' = lost /\ purged' = purged
    BY DEF Start, flowVars, drainVars
  <2>1. QED BY <1>t, <2>f, <2>u DEF OtherSessions, Sessions
<1>13. LineNow'
  <2>f. /\ pt'.starts = pt.starts + 1 /\ pt'.session = pt.starts + 1 /\ pt'.handler = pt.starts + 1 /\ pt'.draining = FALSE
        /\ pt'.held = pt.held /\ pt'.drains = pt.drains /\ pt.starts \in Nat /\ pt.session = 0 /\ pt.held = None
        /\ pt.starts + 1 \in Sessions /\ drain' = drain
    BY <1>t, TerminalAssumption DEF Start, Spend, FieldsTyped, CallsTyped, Allowed, SessionLife, Sessions
  <2>u. inputData' = inputData /\ taken' = taken /\ hearing' = hearing /\ read' = read /\ forwarded' = forwarded /\ lost' = lost /\ purged' = purged
    BY DEF Start, flowVars, drainVars
  <2> PICK s \in Sessions : s = pt.starts + 1 BY <2>f
  <2>1. taken[s] = None /\ hearing[s] = NobodyHears /\ inputData[s] = <<>>
    BY <1>t, <2>f DEF OtherSessions, Sessions
  <2>2. hearing[s].what = None /\ hearing[s].next = None BY <2>1 DEF NobodyHears
  <2>3. Placed(None)' BY <1>t, <2>f, <2>u DEF Placed, Own, Past, None, Answers, FlowTyped
  <2>4. \A n \in DOMAIN read : read[n] # s BY <1>t, <2>f DEF Past, Sessions
  <2>5. LineOwn(None, None, None, None, <<>>)' BY <2>3 DEF LineOwn, None, Answers
  <2>6. LineWhole(forwarded, None, None, None, None, <<>>, lost)' BY <2>4, <2>f, <2>u DEF LineWhole
  <2>7. LineLost(None, None, None, None, <<>>, lost)' BY <2>f DEF LineLost
  <2>8. LineGood(forwarded, None, None, None, None, <<>>, lost)' BY <2>5, <2>6, <2>7, OrderEmpty DEF LineGood
  <2>9. Hands(s)' BY <2>1, <2>2, <2>f, <2>u DEF Hands
  <2>10. QED BY <2>1, <2>2, <2>8, <2>9, <2>f, <2>u DEF LineNow
<1>14. QED
  BY <1>1, <1>2, <1>3, <1>4, <1>5, <1>6, <1>7, <1>8, <1>9, <1>10, <1>11, <1>12, <1>13 DEF TerminalInv, TerminalTyped

LEMMA AskKeyboardKeeps ==
  ASSUME TerminalInv, AskKeyboard
  PROVE  TerminalInv'
<1>t. /\ TermTyped /\ FieldsTyped /\ CallsTyped /\ FlowTyped
      /\ Owing /\ SessionLife /\ RawPaste /\ Protocols /\ Progress /\ Handled /\ Past /\ OtherSessions /\ LineNow
  BY DEF TerminalInv, TerminalTyped
<1>1. TermTyped'
  <2> DEFINE more == IF term.supports = "kitty" THEN term.kitty + 1 ELSE term.kitty
             first == CASE term.supports = "kitty" -> <<"kitty">> [] term.supports = "zero" -> <<"zero">> [] OTHER -> <<>>
  <2>1. first \in Seq(Answers \cup {"rest"}) /\ more \in Nat
    <3>1. first = <<"kitty">> \/ first = <<"zero">> \/ first = <<>> OBVIOUS
    <3>2. <<"kitty">> \in Seq(Answers \cup {"rest"}) /\ <<"zero">> \in Seq(Answers \cup {"rest"}) /\ <<>> \in Seq(Answers \cup {"rest"})
      BY DEF Answers
    <3>3. more \in Nat BY <1>t DEF TermTyped
    <3>4. QED BY <3>1, <3>2, <3>3
  <2>2. <<"attributes">> \in Seq(Answers \cup {"rest"}) BY DEF Answers
  <2>3. term' = [term EXCEPT !.kitty = more, !.owes = (term.owes \o first) \o <<"attributes">>]
    BY <1>t DEF AskKeyboard, Queried, TermTyped
  <2>4. (term.owes \o first) \o <<"attributes">> \in Seq(Answers \cup {"rest"})
    <3> HIDE DEF first
    <3>1. QED BY <1>t, <2>1, <2>2 DEF TermTyped
  <2> HIDE DEF more, first
  <2>5. QED BY <1>t, <2>1, <2>3, <2>4 DEF TermTyped
<1>2. FieldsTyped'
  <2>1. pt' = [pt EXCEPT !.pushed = TRUE, !.held = None] /\ None \in Token BY TokensTyped DEF AskKeyboard
  <2>2. QED BY <1>t, <2>1 DEF FieldsTyped
<1>3. CallsTyped'
  BY <1>t DEF AskKeyboard, At, Quiet, Queried, CallsTyped, Allowed, LifePlaces, drainVars
<1>4. FlowTyped'
  BY <1>t DEF AskKeyboard, At, Quiet, Queried, FlowTyped, flowVars, drainVars
<1>5. Owing'
  BY <1>t DEF AskKeyboard, At, Quiet, Queried, Owing, TermTyped, drainVars
<1>6. SessionLife'
  BY <1>t, TerminalAssumption DEF AskKeyboard, At, Quiet, Queried, SessionLife, CallsTyped, Allowed, LifePlaces, FieldsTyped, drainVars
<1>7. RawPaste'
  BY <1>t DEF AskKeyboard, At, Quiet, Queried, RawPaste, SessionLife, CallsTyped, LifePlaces, TermTyped, FieldsTyped, drainVars
<1>8. Protocols'
  BY <1>t DEF AskKeyboard, At, Quiet, Queried, Protocols, SessionLife, CallsTyped, LifePlaces, drainVars, TermTyped, FieldsTyped
<1>9. Progress'
  BY <1>t DEF AskKeyboard, At, Quiet, Queried, Progress, SessionLife, CallsTyped, LifePlaces, TermTyped, FieldsTyped, drainVars
<1>10. Handled'
  BY <1>t DEF AskKeyboard, At, Quiet, Queried, Handled, FieldsTyped, SessionLife, drainVars
<1>11. Past'
  BY <1>t DEF AskKeyboard, At, Quiet, Queried, Past, FlowTyped, FieldsTyped, flowVars, drainVars
<1>12. OtherSessions'
  BY <1>t DEF AskKeyboard, At, Quiet, Queried, OtherSessions, SessionLife, FlowTyped, FieldsTyped, flowVars, drainVars
<1>13. LineNow'
  <2>f. /\ pt'.session = pt.session /\ pt'.held = None /\ pt'.drains = pt.drains /\ pt'.draining = pt.draining /\ pt'.starts = pt.starts
        /\ term'.supports = term.supports /\ lost' = lost \cup {pt.held.n} /\ purged' = purged
    BY <1>t DEF AskKeyboard, FieldsTyped, TermTyped, Queried
  <2>u. inputData' = inputData /\ taken' = taken /\ hearing' = hearing /\ read' = read /\ forwarded' = forwarded
    BY DEF AskKeyboard, flowVars
  <2>1. \A t : Own(t)' <=> Own(t) BY <2>f, <2>u DEF Own
  <2>2. \A t : Placed(t)' <=> Placed(t) BY <2>1, <2>f DEF Placed
  <2>3. Placed(None) BY <1>t, NoneOwn DEF TerminalTyped
  <2>4. SUFFICES ASSUME pt.session # 0 PROVE LineNow' BY <2>f DEF LineNow
  <2> DEFINE s == pt.session
  <2>5. LineGood(forwarded, hearing[s].what, hearing[s].next, pt.held, taken[s], inputData[s], lost) /\ Hands(s)
    BY <1>t, <2>4 DEF LineNow
  <2>6. LineOwn(hearing[s].what, hearing[s].next, None, taken[s], inputData[s])'
    BY <2>5, <2>f, <2>u, <2>1, <2>2, <2>3 DEF LineGood, LineOwn, None
  <2>7. LineOrder(forwarded, hearing[s].what, hearing[s].next, None, taken[s], inputData[s])'
    BY <2>5, <2>f, <2>u, OrderHeldGone DEF LineGood
  <2>8. LineWhole(forwarded, hearing[s].what, hearing[s].next, None, taken[s], inputData[s], lost)'
    BY <2>5, <2>f, <2>u DEF LineGood, LineWhole
  <2>9. LineLost(hearing[s].what, hearing[s].next, None, taken[s], inputData[s], lost)'
    BY <2>5, <2>f, <2>u DEF LineGood, LineLost, Gone, None
  <2>10. Hands(s)' BY <2>5, <2>f, <2>u DEF Hands, Gone
  <2>11. QED BY <2>6, <2>7, <2>8, <2>9, <2>10, <2>f, <2>u DEF LineNow, LineGood
<1>14. QED
  BY <1>1, <1>2, <1>3, <1>4, <1>5, <1>6, <1>7, <1>8, <1>9, <1>10, <1>11, <1>12, <1>13 DEF TerminalInv, TerminalTyped

LEMMA StopKeeps ==
  ASSUME TerminalInv, Stop
  PROVE  TerminalInv'
<1>t. /\ TermTyped /\ FieldsTyped /\ CallsTyped /\ FlowTyped
      /\ Owing /\ SessionLife /\ RawPaste /\ Protocols /\ Progress /\ Handled /\ Past /\ OtherSessions /\ LineNow
  BY DEF TerminalInv, TerminalTyped
<1>1. TermTyped'
  BY <1>t DEF Stop, At, Undone, TermTyped, drainVars
<1>2. FieldsTyped'
  <2>1. pt' = [pt EXCEPT !.session = 0, !.handler = 0, !.reading = FALSE, !.draining = FALSE, !.drains = pt.drains + 1,
                         !.pushed = FALSE, !.kitty = FALSE, !.other = FALSE, !.held = None] /\ None \in Token
    BY <1>t, TokensTyped DEF Stop, FieldsTyped
  <2>2. pt.drains + 1 \in Nat BY <1>t DEF FieldsTyped
  <2>3. QED BY <1>t, <2>1, <2>2 DEF FieldsTyped
<1>3. CallsTyped'
  <2>1. Undone \in [pop : BOOLEAN, other : BOOLEAN] BY <1>t DEF Undone, FieldsTyped
  <2>2. progress' \in {"off", "on", "ending", "ended"} BY <1>t DEF Stop, CallsTyped
  <2>3. life' = [at |-> "stopping", undo |-> Undone] /\ drain' = drain /\ outrun' = outrun /\ allowed' = allowed BY DEF Stop, drainVars
  <2>4. QED BY <1>t, <2>1, <2>2, <2>3 DEF CallsTyped, LifePlaces
<1>4. FlowTyped'
  <2>1. inputData' = [inputData EXCEPT ![pt.session] = <<>>] /\ taken' = taken /\ hearing' = hearing /\ read' = read /\ forwarded' = forwarded
    BY DEF Stop
  <2>2. <<>> \in Seq(Chunk) OBVIOUS
  <2>3. QED BY <1>t, <2>1, <2>2 DEF FlowTyped
<1>5. Owing'
  BY <1>t DEF Stop, At, Undone, Owing, TermTyped, drainVars
<1>6. SessionLife'
  BY <1>t, TerminalAssumption DEF Stop, At, Undone, SessionLife, CallsTyped, Allowed, LifePlaces, FieldsTyped, drainVars
<1>7. RawPaste'
  BY <1>t DEF Stop, At, Undone, RawPaste, SessionLife, CallsTyped, LifePlaces, TermTyped, FieldsTyped, drainVars
<1>8. Protocols'
  BY <1>t DEF Stop, At, Undone, Protocols, SessionLife, CallsTyped, LifePlaces, drainVars, TermTyped, FieldsTyped
<1>9. Progress'
  BY <1>t DEF Stop, At, Undone, Progress, SessionLife, CallsTyped, LifePlaces, TermTyped, FieldsTyped, drainVars
<1>10. Handled'
  BY <1>t DEF Stop, At, Undone, Handled, FieldsTyped, SessionLife, drainVars
<1>11. Past'
  BY <1>t DEF Stop, At, Undone, Past, FlowTyped, FieldsTyped, flowVars, drainVars
<1>12. OtherSessions'
  BY <1>t DEF Stop, At, Undone, OtherSessions, SessionLife, FlowTyped, FieldsTyped, flowVars, drainVars
<1>13. LineNow'
  BY <1>t DEF Stop, At, Undone, LineNow, drainVars, flowVars
<1>14. QED
  BY <1>1, <1>2, <1>3, <1>4, <1>5, <1>6, <1>7, <1>8, <1>9, <1>10, <1>11, <1>12, <1>13 DEF TerminalInv, TerminalTyped

LEMMA DrainBeginsKeeps ==
  ASSUME TerminalInv, DrainBegins
  PROVE  TerminalInv'
<1>t. /\ TermTyped /\ FieldsTyped /\ CallsTyped /\ FlowTyped
      /\ Owing /\ SessionLife /\ RawPaste /\ Protocols /\ Progress /\ Handled /\ Past /\ OtherSessions /\ LineNow
  BY DEF TerminalInv, TerminalTyped
<1>1. TermTyped'
  <2>1. DEFINE fewer == IF (pt.pushed \/ pt.kitty) /\ term.kitty > 0 THEN term.kitty - 1 ELSE term.kitty
  <2>2. fewer \in Nat BY <1>t DEF TermTyped
  <2>3. term' = [supports |-> term.supports, raw |-> term.raw, paste |-> term.paste, kitty |-> fewer,
                 other |-> term.other /\ ~pt.other, progress |-> term.progress, owes |-> term.owes]
    BY <1>t DEF DrainBegins, Popped, Undone, TermTyped
  <2>4. QED BY <1>t, <2>2, <2>3 DEF TermTyped
<1>2. FieldsTyped'
  <2>1. pt' = [pt EXCEPT !.draining = TRUE, !.drains = pt.drains + 1, !.held = None, !.pushed = FALSE, !.kitty = FALSE, !.other = FALSE, !.handler = 0]
        /\ None \in Token
    BY <1>t, TokensTyped DEF DrainBegins, FieldsTyped
  <2>2. pt.drains + 1 \in Nat BY <1>t DEF FieldsTyped
  <2>3. QED BY <1>t, <2>1, <2>2 DEF FieldsTyped
<1>3. CallsTyped'
  <2>1. drain' = [at |-> "waiting", session |-> pt.session, handler |-> pt.handler] /\ life' = life /\ progress' = progress /\ outrun' = outrun
    BY DEF DrainBegins
  <2>2. pt.session \in Nat /\ pt.handler \in Nat BY <1>t DEF FieldsTyped
  <2>3. allowed' \in [Allowed -> Nat] BY <1>t DEF DrainBegins, Spend, CallsTyped, Allowed
  <2>4. QED BY <1>t, <2>1, <2>2, <2>3 DEF CallsTyped
<1>4. FlowTyped'
  BY <1>t DEF DrainBegins, Spend, Popped, Undone, FlowTyped, flowVars, drainVars
<1>5. Owing'
  BY <1>t DEF DrainBegins, Spend, Popped, Undone, Owing, TermTyped, drainVars
<1>6. SessionLife'
  BY <1>t, TerminalAssumption DEF DrainBegins, Spend, Popped, Undone, SessionLife, CallsTyped, Allowed, LifePlaces, FieldsTyped, drainVars
<1>7. RawPaste'
  BY <1>t DEF DrainBegins, Spend, Popped, Undone, RawPaste, SessionLife, At, CallsTyped, LifePlaces, TermTyped, FieldsTyped, drainVars
<1>8. Protocols'
  BY <1>t DEF DrainBegins, Spend, Popped, Undone, Protocols, SessionLife, CallsTyped, LifePlaces, drainVars, TermTyped, FieldsTyped
<1>9. Progress'
  BY <1>t DEF DrainBegins, Spend, Popped, Undone, Progress, SessionLife, At, CallsTyped, LifePlaces, TermTyped, FieldsTyped, drainVars
<1>10. Handled'
  BY <1>t DEF DrainBegins, Spend, Popped, Undone, Handled, FieldsTyped, SessionLife, drainVars
<1>11. Past'
  <2>1. pt'.starts = pt.starts /\ read' = read /\ forwarded' = forwarded BY <1>t DEF DrainBegins, FieldsTyped, flowVars
  <2>2. purged' \subseteq purged \cup UnderWay BY DEF DrainBegins
  <2>3. \A n \in UnderWay : n \in DOMAIN read /\ \A i \in DOMAIN forwarded : forwarded[i].n # n BY DEF UnderWay
  <2>4. QED BY <1>t, <2>1, <2>2, <2>3 DEF Past
<1>12. OtherSessions'
  BY <1>t DEF DrainBegins, Spend, Popped, Undone, OtherSessions, SessionLife, FlowTyped, FieldsTyped, flowVars, drainVars
<1>13. LineNow'
  <2>f. /\ pt'.session = pt.session /\ pt'.held = None /\ pt'.drains = pt.drains + 1 /\ pt'.draining = TRUE /\ pt'.starts = pt.starts
        /\ term'.supports = term.supports /\ lost' = lost \cup UnderWay /\ purged' = purged \cup {n \in UnderWay : InQueue(n) \/ pt.held.n = n}
    BY <1>t DEF DrainBegins, FieldsTyped, TermTyped, Popped
  <2>u. inputData' = inputData /\ taken' = taken /\ hearing' = hearing /\ read' = read /\ forwarded' = forwarded
    BY DEF DrainBegins, flowVars
  <2>1. \A t : Own(t)' <=> Own(t) BY <2>f, <2>u DEF Own
  <2>2. Past' BY <1>11
  <2>3. SUFFICES ASSUME pt.session # 0 PROVE LineNow' BY <2>f DEF LineNow
  <2> DEFINE s == pt.session  w == hearing[s].what  x == hearing[s].next  h == pt.held  t == taken[s]  q == inputData[s]
  <2>4. LineGood(forwarded, w, x, h, t, q, lost) /\ Hands(s) BY <1>t, <2>3 DEF LineNow
  <2>o. /\ Before(w, h) /\ Before(h, t)
        /\ \A j \in DOMAIN q : Before(w, q[j].token) /\ Before(x, q[j].token) /\ Before(h, q[j].token) /\ Before(t, q[j].token)
    BY <2>4 DEF LineGood, LineOrder
  <2>5. s \in Sessions BY <1>t, <2>3, TerminalAssumption DEF SessionLife, Sessions, CallsTyped, FieldsTyped, Allowed
  <2>6. w \in Token /\ x \in Token /\ h \in Token /\ t \in Token /\ q \in Seq(Chunk) /\ forwarded \in Seq(Forwarded) /\ read \in Seq(Nat) /\ pt.drains \in Nat
    BY <1>t, <2>5 DEF FlowTyped, FieldsTyped, Hearing
  <2>7. \A j \in DOMAIN q : q[j].token \in Token /\ q[j].drain \in Nat BY <2>6, ChunksTyped
  <2>8. \A i \in DOMAIN forwarded : forwarded[i].n = forwarded[i].token.n /\ forwarded[i].n \in Nat /\ forwarded[i].token \in Token
    BY <1>t, <2>6, ForwardedTyped DEF Past
  <2>9. \A n : InQueue(n) => \E j \in DOMAIN q : q[j].token.n = n
    BY <1>t DEF InQueue, OtherSessions
  <2>10. ASSUME NEW u, Own(u), u.n # 0, \A i \in DOMAIN forwarded : forwarded[i].n # u.n
         PROVE  u.n \in UnderWay
    BY <2>10, <2>6 DEF Own, UnderWay
  <2>11. \A u \in Token : Own(u) /\ (\A i \in DOMAIN forwarded : Before(forwarded[i].token, u)) => Gone(u, lost')
    <3>1. TAKE u \in Token
    <3>2. HAVE Own(u) /\ (\A i \in DOMAIN forwarded : Before(forwarded[i].token, u))
    <3>3. CASE u.n = 0 BY <3>3 DEF Gone
    <3>4. CASE u.n # 0
      <4>1. \A i \in DOMAIN forwarded : forwarded[i].n # u.n BY <3>2, <3>4, <2>8, TokensTyped DEF Before
      <4>2. u.n \in UnderWay BY <3>2, <3>4, <4>1, <2>10
      <4>3. QED BY <4>2, <2>f DEF Gone
    <3>5. QED BY <3>3, <3>4
  <2>12. Own(w) /\ Own(x) /\ Own(h) /\ Own(t) /\ \A j \in DOMAIN q : Own(q[j].token)
    BY <2>4 DEF LineGood, LineOwn, Placed
  <2>13. Gone(w, lost') /\ Gone(x, lost') /\ Gone(t, lost') /\ \A j \in DOMAIN q : Gone(q[j].token, lost')
    BY <2>4, <2>6, <2>7, <2>11, <2>12 DEF LineGood, LineOrder
  <2>14. Placed(w)' /\ Placed(x)' /\ Placed(t)' /\ Placed(None)'
    <3>1. ASSUME NEW u \in Token, Placed(u), u.n # 0 => u.n # h.n /\ \A j \in DOMAIN q : q[j].token.n # u.n
          PROVE  Placed(u)'
      BY <3>1, <2>1, <2>f, <2>9, <1>t, <2>2 DEF Placed, UnderWay, Past
    <3>2. w.n # 0 => w.n # h.n /\ \A j \in DOMAIN q : q[j].token.n # w.n
      BY <2>o, <2>6, <2>7, BeforeDiffers
    <3>h. t.n # 0 => t.n # h.n BY <2>o, <2>6, TokensTyped DEF Before
    <3>3. t.n # 0 => t.n # h.n /\ \A j \in DOMAIN q : q[j].token.n # t.n
      BY <2>o, <2>6, <2>7, BeforeDiffers, <3>h
    <3>4. x.n # 0 => x.n # h.n /\ \A j \in DOMAIN q : q[j].token.n # x.n
      <4>1. x = None \/ h = None BY <2>4 DEF Hands
      <4>2. x.n # 0 => x.n # h.n BY <4>1 DEF None
      <4>3. QED BY <2>o, <2>6, <2>7, <4>2, BeforeDiffers
    <3>5. Placed(None)'
      <4>1. Placed(None) /\ None \in Token BY <1>t, NoneOwn, TokensTyped DEF TerminalTyped
      <4>2. None.n = 0 BY DEF None
      <4>3. QED BY <4>1, <4>2, <3>1
    <3>6. Placed(w) /\ Placed(x) /\ Placed(t) BY <2>4 DEF LineGood, LineOwn
    <3>7. QED BY <2>f, <2>u, <2>6, <3>1, <3>2, <3>3, <3>4, <3>5, <3>6
  <2>15. \A j \in DOMAIN q : q[j].drain < pt.drains + 1 BY <2>4, <2>6, <2>7 DEF LineGood, LineOwn
  <2>16. LineOwn(w, x, None, t, q)'
    BY <2>4, <2>f, <2>u, <2>1, <2>14, <2>15, <2>6, <2>7 DEF LineGood, LineOwn, None
  <2>17. LineOrder(forwarded, w, x, None, t, q)'
    BY <2>4, <2>f, <2>u, OrderHeldGone DEF LineGood
  <2>18. LineWhole(forwarded, w, x, None, t, q, lost)'
    <3>1. \A n \in DOMAIN read : (\A i \in DOMAIN forwarded : forwarded[i].n # n) => n \in lost' BY <2>f DEF UnderWay
    <3>2. QED BY <3>1, <2>u DEF LineWhole
  <2>19. LineLost(w, x, None, t, q, lost)'
    BY <2>4, <2>f, <2>u, <2>13, <2>15, <2>6, <2>7 DEF LineGood, LineLost, Gone, None
  <2>20. Hands(s)' BY <2>4, <2>f, <2>u, <2>13 DEF Hands
  <2>21. QED BY <2>16, <2>17, <2>18, <2>19, <2>20, <2>f, <2>u DEF LineNow, LineGood
<1>14. QED
  BY <1>1, <1>2, <1>3, <1>4, <1>5, <1>6, <1>7, <1>8, <1>9, <1>10, <1>11, <1>12, <1>13 DEF TerminalInv, TerminalTyped

LEMMA DrainEndsKeeps ==
  ASSUME TerminalInv, DrainEnds
  PROVE  TerminalInv'
<1>t. /\ TermTyped /\ FieldsTyped /\ CallsTyped /\ FlowTyped
      /\ Owing /\ SessionLife /\ RawPaste /\ Protocols /\ Progress /\ Handled /\ Past /\ OtherSessions /\ LineNow
  BY DEF TerminalInv, TerminalTyped
<1>1. TermTyped'
  BY <1>t DEF DrainEnds, TermTyped, drainVars
<1>2. FieldsTyped'
  <2>1. (IF pt.handler = 0 THEN drain.handler ELSE pt.handler) \in Nat BY <1>t DEF FieldsTyped, CallsTyped
  <2>2. pt' = pt \/ pt' = [pt EXCEPT !.draining = FALSE, !.handler = IF pt.handler = 0 THEN drain.handler ELSE pt.handler]
    BY <1>t DEF DrainEnds, FieldsTyped
  <2>3. QED BY <1>t, <2>1, <2>2 DEF FieldsTyped
<1>3. CallsTyped'
  BY <1>t DEF DrainEnds, CallsTyped, Allowed, LifePlaces, drainVars
<1>4. FlowTyped'
  BY <1>t DEF DrainEnds, FlowTyped, flowVars, drainVars
<1>5. Owing'
  BY <1>t DEF DrainEnds, Owing, TermTyped, drainVars
<1>6. SessionLife'
  BY <1>t, TerminalAssumption DEF DrainEnds, SessionLife, CallsTyped, Allowed, LifePlaces, FieldsTyped, drainVars
<1>7. RawPaste'
  BY <1>t DEF DrainEnds, RawPaste, SessionLife, At, CallsTyped, LifePlaces, TermTyped, FieldsTyped, drainVars
<1>8. Protocols'
  BY <1>t DEF DrainEnds, Protocols, SessionLife, CallsTyped, LifePlaces, drainVars, TermTyped, FieldsTyped
<1>9. Progress'
  BY <1>t DEF DrainEnds, Progress, SessionLife, At, CallsTyped, LifePlaces, TermTyped, FieldsTyped, drainVars
<1>10. Handled'
  BY <1>t DEF DrainEnds, Handled, FieldsTyped, SessionLife, drainVars
<1>11. Past'
  BY <1>t DEF DrainEnds, Past, FlowTyped, FieldsTyped, flowVars, drainVars
<1>12. OtherSessions'
  BY <1>t DEF DrainEnds, OtherSessions, SessionLife, FlowTyped, FieldsTyped, flowVars, drainVars
<1>13. LineNow'
  <2>f. /\ pt'.session = pt.session /\ pt'.held = pt.held /\ pt'.drains = pt.drains /\ (pt'.draining => pt.draining)
        /\ term' = term /\ lost' = lost /\ purged' = purged
    BY <1>t DEF DrainEnds, FieldsTyped, drainVars
  <2>u. inputData' = inputData /\ taken' = taken /\ hearing' = hearing /\ read' = read /\ forwarded' = forwarded
    BY DEF DrainEnds, flowVars
  <2>1. \A t : Own(t)' <=> Own(t) BY <2>f, <2>u DEF Own
  <2>2. \A t : Placed(t)' <=> Placed(t) BY <2>1, <2>f DEF Placed
  <2>3. QED BY <1>t, <2>f, <2>u, <2>1, <2>2 DEF LineNow, LineGood, LineOwn, LineOrder, LineWhole, LineLost, Hands
<1>14. QED
  BY <1>1, <1>2, <1>3, <1>4, <1>5, <1>6, <1>7, <1>8, <1>9, <1>10, <1>11, <1>12, <1>13 DEF TerminalInv, TerminalTyped

LEMMA KeysReadKeeps ==
  ASSUME TerminalInv, KeysRead
  PROVE  TerminalInv'
<1>t. /\ TermTyped /\ FieldsTyped /\ CallsTyped /\ FlowTyped
      /\ Owing /\ SessionLife /\ RawPaste /\ Protocols /\ Progress /\ Handled /\ Past /\ OtherSessions /\ LineNow
  BY DEF TerminalInv, TerminalTyped
<1>1. TermTyped'
  BY <1>t DEF KeysRead, KeyTyped, Reads, Spend, TermTyped, drainVars
<1>2. FieldsTyped'
  BY <1>t DEF KeysRead, KeyTyped, Reads, Spend, FieldsTyped, drainVars
<1>3. CallsTyped'
  BY <1>t DEF KeysRead, KeyTyped, Reads, Spend, CallsTyped, Allowed, LifePlaces, drainVars
<1>4. FlowTyped'
  <2>1. PICK kind \in {"key", "paste", "prefix"} : KeyTyped(kind) BY DEF KeysRead
  <2>n. PICK n, token : n = Len(read) + 1 /\ token = Key(kind, n) OBVIOUS
  <2>2. token \in Token /\ n \in Nat /\ token.n = n /\ token.kind = kind BY <1>t, <2>n, TokensTyped DEF FlowTyped, Key
  <2>3. Reads(token) /\ read' = Append(read, pt.session) BY <2>1, <2>n DEF KeyTyped
  <2>4. inputData' \in [Sessions -> Seq(Chunk)] BY <1>t, <2>2, <2>3, ReadsTyped
  <2>5. read' \in Seq(Nat) BY <1>t, <2>3 DEF FlowTyped, FieldsTyped
  <2>6. QED BY <1>t, <2>3, <2>4, <2>5 DEF FlowTyped, Reads
<1>5. Owing'
  BY <1>t DEF KeysRead, KeyTyped, Reads, Spend, Owing, TermTyped, drainVars
<1>6. SessionLife'
  BY <1>t, TerminalAssumption DEF KeysRead, KeyTyped, Reads, Spend, SessionLife, CallsTyped, Allowed, LifePlaces, FieldsTyped, drainVars
<1>7. RawPaste'
  BY <1>t DEF KeysRead, KeyTyped, Reads, Spend, RawPaste, SessionLife, At, CallsTyped, LifePlaces, TermTyped, FieldsTyped, drainVars
<1>8. Protocols'
  BY <1>t DEF KeysRead, KeyTyped, Reads, Spend, Protocols, SessionLife, CallsTyped, LifePlaces, drainVars, TermTyped, FieldsTyped
<1>9. Progress'
  BY <1>t DEF KeysRead, KeyTyped, Reads, Spend, Progress, SessionLife, At, CallsTyped, LifePlaces, TermTyped, FieldsTyped, drainVars
<1>10. Handled'
  BY <1>t DEF KeysRead, KeyTyped, Reads, Spend, Handled, FieldsTyped, SessionLife, drainVars
<1>11. Past' /\ OtherSessions' /\ LineNow'
  <2>1. PICK kind \in {"key", "paste", "prefix"} : KeyTyped(kind) BY DEF KeysRead
  <2>n. PICK n, token : n = Len(read) + 1 /\ token = Key(kind, n) OBVIOUS
  <2>2. token \in Token /\ n \in Nat /\ token.n = n /\ token.kind = kind BY <1>t, <2>n, TokensTyped DEF FlowTyped, Key
  <2>3. Reads(token) /\ read' = Append(read, pt.session) BY <2>1, <2>n DEF KeyTyped
  <2>4. /\ read' \in Seq(Nat) /\ Len(read') = n /\ DOMAIN read' = 1 .. n /\ DOMAIN read = 1 .. Len(read) /\ read'[n] = pt.session
        /\ \A m \in DOMAIN read : read'[m] = read[m]
    BY <1>t, <2>n, <2>3 DEF FlowTyped, FieldsTyped
  <2>5. lost' = lost \cup (IF pt.draining THEN {n} ELSE {}) /\ purged' = purged \cup (IF pt.draining THEN {n} ELSE {}) /\ term' = term
    BY <2>1, <2>n DEF KeyTyped
  <2>6. pt' = pt BY <1>t, <2>2, <2>3, ReadsTyped
  <2>7. Own(token)' BY <2>2, <2>4, <2>6, <2>1 DEF Own, Answers
  <2>8. \A m \in DOMAIN read' : m \notin DOMAIN read => m = n BY <2>4, <2>2, <2>n
  <2>9. n \notin DOMAIN read /\ n \in DOMAIN read' BY <2>4, <2>2, <2>n
  <2>10. QED BY <1>t, <2>n, <2>2, <2>3, <2>4, <2>5, <2>7, <2>8, <2>9, ReadsKeep
<1>12. OtherSessions'
  BY <1>11
<1>13. LineNow'
  BY <1>11
<1>14. QED
  BY <1>1, <1>2, <1>3, <1>4, <1>5, <1>6, <1>7, <1>8, <1>9, <1>10, <1>11, <1>12, <1>13 DEF TerminalInv, TerminalTyped

LEMMA TerminalAnswersKeeps ==
  ASSUME TerminalInv, TerminalAnswers
  PROVE  TerminalInv'
<1>t. /\ TermTyped /\ FieldsTyped /\ CallsTyped /\ FlowTyped
      /\ Owing /\ SessionLife /\ RawPaste /\ Protocols /\ Progress /\ Handled /\ Past /\ OtherSessions /\ LineNow
  BY DEF TerminalInv, TerminalTyped
<1>1. TermTyped'
  <2>0. term.owes \in Seq(Answers \cup {"rest"}) /\ term.owes # <<>> /\ Len(term.owes) \in Nat \ {0} /\ DOMAIN term.owes = 1 .. Len(term.owes)
        /\ Head(term.owes) = term.owes[1] /\ \A i \in DOMAIN term.owes : term.owes[i] \in Answers \cup {"rest"}
    BY <1>t DEF TerminalAnswers, TermTyped
  <2>1. PICK owed : /\ term' = [term EXCEPT !.owes = owed]
                    /\ \/ Head(term.owes) # "rest" /\ owed = Tail(term.owes)
                       \/ Head(term.owes) # "rest" /\ owed = <<"rest", term.owes[1]>> \o Tail(term.owes)
                       \/ Head(term.owes) = "rest" /\ owed = Tail(Tail(term.owes))
    BY <1>t DEF TerminalAnswers, TermTyped
  <2>2. Head(term.owes) = "rest" => Len(term.owes) >= 2 BY <1>t, <2>0 DEF Owing
  <2>3. owed \in Seq(Answers \cup {"rest"})
    <3>1. Tail(term.owes) \in Seq(Answers \cup {"rest"}) BY <2>0
    <3>2. <<"rest", term.owes[1]>> \in Seq(Answers \cup {"rest"}) BY <2>0
    <3>3. <<"rest", term.owes[1]>> \o Tail(term.owes) \in Seq(Answers \cup {"rest"}) BY <3>1, <3>2
    <3>4. Head(term.owes) = "rest" => Tail(Tail(term.owes)) \in Seq(Answers \cup {"rest"})
      <4> DEFINE u == Tail(term.owes)
      <4>1. Len(u) = Len(term.owes) - 1 /\ u \in Seq(Answers \cup {"rest"}) BY <2>0
      <4> HIDE DEF u
      <4>2. HAVE Head(term.owes) = "rest"
      <4>3. u # <<>> BY <4>1, <4>2, <2>0, <2>2
      <4>4. Tail(u) \in Seq(Answers \cup {"rest"}) BY <4>1, <4>3
      <4>5. QED BY <4>4 DEF u
    <3>5. QED BY <2>1, <3>1, <3>3, <3>4
  <2>4. QED BY <1>t, <2>1, <2>3 DEF TermTyped
<1>2. FieldsTyped'
  BY <1>t DEF TerminalAnswers, Reads, Spend, FieldsTyped, drainVars
<1>3. CallsTyped'
  BY <1>t DEF TerminalAnswers, Reads, Spend, CallsTyped, Allowed, LifePlaces, drainVars
<1>4. FlowTyped'
  <2>0. Len(term.owes) \in Nat \ {0} /\ DOMAIN term.owes = 1 .. Len(term.owes) /\ Head(term.owes) = term.owes[1]
        /\ \A i \in DOMAIN term.owes : term.owes[i] \in Answers \cup {"rest"}
    BY <1>t DEF TerminalAnswers, TermTyped
  <2>1. term.owes[1] = "rest" => term.owes[2] \in Answers /\ 2 \in DOMAIN term.owes
    BY <1>t, <2>0 DEF Owing
  <2>2. PICK token : /\ Reads(token)
                     /\ \/ Head(term.owes) # "rest" /\ token = Key(Head(term.owes), 0)
                        \/ Head(term.owes) # "rest" /\ token = Key("prefix", 0)
                        \/ Head(term.owes) = "rest" /\ token = [kind |-> "rest", n |-> 0, of |-> term.owes[2]]
    BY DEF TerminalAnswers
  <2>3. token \in Token /\ token.n = 0
    <3>1. term.owes[1] # "rest" => term.owes[1] \in Answers BY <2>0
    <3>2. token \in Token BY <2>0, <2>1, <2>2, <3>1, TokensTyped DEF Answers
    <3>3. token.n = 0 BY <2>2 DEF Key
    <3>4. QED BY <3>2, <3>3
  <2>4. inputData' \in [Sessions -> Seq(Chunk)] BY <1>t, <2>2, <2>3, ReadsTyped
  <2>5. QED BY <1>t, <2>2, <2>4 DEF FlowTyped, Reads, TerminalAnswers
<1>5. Owing'
  <2>0. term.owes \in Seq(Answers \cup {"rest"}) /\ term.owes # <<>> /\ Len(term.owes) \in Nat \ {0} /\ DOMAIN term.owes = 1 .. Len(term.owes)
        /\ Head(term.owes) = term.owes[1] /\ \A i \in DOMAIN term.owes : term.owes[i] \in Answers \cup {"rest"}
    BY <1>t DEF TerminalAnswers, TermTyped
  <2>1. PICK owed : /\ term' = [term EXCEPT !.owes = owed]
                    /\ \/ Head(term.owes) # "rest" /\ owed = Tail(term.owes)
                       \/ Head(term.owes) # "rest" /\ owed = <<"rest", term.owes[1]>> \o Tail(term.owes)
                       \/ Head(term.owes) = "rest" /\ owed = Tail(Tail(term.owes))
    BY <1>t DEF TerminalAnswers, TermTyped
  <2>2. Head(term.owes) = "rest" => Len(term.owes) >= 2 BY <1>t, <2>0 DEF Owing
  <2>3. term'.owes = owed /\ term'.supports = term.supports BY <1>t, <2>1 DEF TermTyped
  <2>4. \A i \in DOMAIN term.owes : (term.owes[i] = "rest" => i = 1) /\ (term.owes[i] = "kitty" => term.supports = "kitty")
    BY <1>t DEF Owing
  <2>5. CASE Head(term.owes) # "rest" /\ owed = Tail(term.owes)
    <3>1. DOMAIN owed = 1 .. Len(term.owes) - 1 /\ \A i \in DOMAIN owed : owed[i] = term.owes[i + 1] BY <2>5, <2>0
    <3>2. \A i \in DOMAIN owed : i + 1 \in DOMAIN term.owes /\ i + 1 # 1 BY <3>1, <2>0
    <3>3. QED BY <3>1, <3>2, <2>3, <2>4 DEF Owing
  <2>6. CASE Head(term.owes) # "rest" /\ owed = <<"rest", term.owes[1]>> \o Tail(term.owes)
    <3>1. /\ Len(owed) = Len(term.owes) + 1 /\ DOMAIN owed = 1 .. Len(term.owes) + 1 /\ owed[1] = "rest"
          /\ \A i \in DOMAIN owed : i # 1 => owed[i] = term.owes[i - 1]
      <4>1. Tail(term.owes) \in Seq(Answers \cup {"rest"}) /\ Len(Tail(term.owes)) = Len(term.owes) - 1
            /\ \A i \in 1 .. Len(term.owes) - 1 : Tail(term.owes)[i] = term.owes[i + 1]
        BY <2>0
      <4>2. <<"rest", term.owes[1]>> \in Seq(Answers \cup {"rest"}) /\ Len(<<"rest", term.owes[1]>>) = 2
        BY <2>0
      <4> DEFINE a == <<"rest", term.owes[1]>>  b == Tail(term.owes)
      <4>3. a[1] = "rest" /\ a[2] = term.owes[1] OBVIOUS
      <4>4. a \in Seq(Answers \cup {"rest"}) /\ b \in Seq(Answers \cup {"rest"}) /\ Len(a) = 2 /\ Len(b) = Len(term.owes) - 1
            /\ owed = a \o b /\ \A i \in 1 .. Len(term.owes) - 1 : b[i] = term.owes[i + 1]
        BY <4>1, <4>2, <2>6
      <4> HIDE DEF a, b
      <4>5. /\ owed \in Seq(Answers \cup {"rest"}) /\ Len(owed) = Len(a) + Len(b)
            /\ \A i \in 1 .. Len(a) + Len(b) : owed[i] = IF i <= Len(a) THEN a[i] ELSE b[i - Len(a)]
        <5>1. /\ a \o b \in Seq(Answers \cup {"rest"}) /\ Len(a \o b) = Len(a) + Len(b)
              /\ \A i \in 1 .. Len(a) + Len(b) : (a \o b)[i] = IF i <= Len(a) THEN a[i] ELSE b[i - Len(a)]
          <6>1. a \in Seq(Answers \cup {"rest"}) /\ b \in Seq(Answers \cup {"rest"}) BY <4>4
          <6>2. QED BY <6>1, ConcatProperties
        <5>2. owed = a \o b BY <4>4, Zenon
        <5>3. QED BY <5>1, <5>2, Zenon
      <4>6. Len(owed) = Len(term.owes) + 1 /\ DOMAIN owed = 1 .. Len(term.owes) + 1 BY <4>4, <4>5, <2>0
      <4>7. owed[1] = "rest" /\ owed[2] = term.owes[1] BY <4>3, <4>4, <4>5, <4>6, <2>0
      <4>8. \A i \in DOMAIN owed : i > 2 => owed[i] = b[i - 2] BY <4>4, <4>5, <4>6, <2>0
      <4>9. \A i \in DOMAIN owed : i > 2 => owed[i] = term.owes[i - 1]
        <5>1. TAKE i \in DOMAIN owed
        <5>2. HAVE i > 2
        <5>3. i - 2 \in 1 .. Len(term.owes) - 1 /\ (i - 2) + 1 = i - 1 BY <5>2, <4>6, <2>0
        <5>4. QED BY <5>2, <5>3, <4>4, <4>8
      <4>10. \A i \in DOMAIN owed : i = 1 \/ i = 2 \/ i > 2 BY <4>6, <2>0
      <4>11. QED BY <4>6, <4>7, <4>9, <4>10
    <3>2. \A i \in DOMAIN owed : i # 1 => i - 1 \in DOMAIN term.owes BY <3>1, <2>0
    <3>3. \A i \in DOMAIN owed : i # 1 => owed[i] # "rest"
      BY <3>1, <3>2, <2>4, <2>6, <2>0
    <3>4. Len(owed) >= 2 BY <3>1, <2>0
    <3>5. QED BY <3>1, <3>2, <3>3, <3>4, <2>3, <2>4 DEF Owing
  <2>7. CASE Head(term.owes) = "rest" /\ owed = Tail(Tail(term.owes))
    <3> DEFINE u == Tail(term.owes)
    <3>1. u \in Seq(Answers \cup {"rest"}) /\ Len(u) = Len(term.owes) - 1 /\ \A i \in 1 .. Len(u) : u[i] = term.owes[i + 1]
      BY <2>0
    <3>2. u # <<>> BY <3>1, <2>2, <2>7, <2>0
    <3> HIDE DEF u
    <3>3. owed = Tail(u) BY <2>7 DEF u
    <3>4. DOMAIN owed = 1 .. Len(u) - 1 /\ \A i \in DOMAIN owed : owed[i] = u[i + 1] /\ i + 1 \in 1 .. Len(u)
      BY <3>1, <3>2, <3>3
    <3>5. \A i \in DOMAIN owed : owed[i] = term.owes[i + 2] /\ i + 2 \in DOMAIN term.owes /\ i + 2 # 1
      <4>1. TAKE i \in DOMAIN owed
      <4>2. i \in Nat /\ (i + 1) + 1 = i + 2 /\ i + 2 # 1 /\ i + 1 \in 1 .. Len(u) BY <3>4
      <4>3. QED BY <4>2, <3>1, <3>4, <2>0
    <3>6. QED BY <3>5, <2>3, <2>4 DEF Owing
  <2>8. QED BY <2>1, <2>5, <2>6, <2>7
<1>6. SessionLife'
  BY <1>t, TerminalAssumption DEF TerminalAnswers, Reads, Spend, SessionLife, CallsTyped, Allowed, LifePlaces, FieldsTyped, drainVars
<1>7. RawPaste'
  BY <1>t DEF TerminalAnswers, Reads, Spend, RawPaste, SessionLife, At, CallsTyped, LifePlaces, TermTyped, FieldsTyped, drainVars
<1>8. Protocols'
  BY <1>t DEF TerminalAnswers, Reads, Spend, Protocols, SessionLife, CallsTyped, LifePlaces, drainVars, TermTyped, FieldsTyped
<1>9. Progress'
  BY <1>t DEF TerminalAnswers, Reads, Spend, Progress, SessionLife, At, CallsTyped, LifePlaces, TermTyped, FieldsTyped, drainVars
<1>10. Handled'
  BY <1>t DEF TerminalAnswers, Reads, Spend, Handled, FieldsTyped, SessionLife, drainVars
<1>11. Past' /\ OtherSessions' /\ LineNow'
  <2>0. Len(term.owes) \in Nat \ {0} /\ DOMAIN term.owes = 1 .. Len(term.owes) /\ Head(term.owes) = term.owes[1]
        /\ \A i \in DOMAIN term.owes : term.owes[i] \in Answers \cup {"rest"}
    BY <1>t DEF TerminalAnswers, TermTyped
  <2>1. term.owes[1] = "rest" => term.owes[2] \in Answers /\ 2 \in DOMAIN term.owes
    BY <1>t, <2>0 DEF Owing
  <2>2. PICK token : /\ Reads(token)
                     /\ \/ Head(term.owes) # "rest" /\ token = Key(Head(term.owes), 0)
                        \/ Head(term.owes) # "rest" /\ token = Key("prefix", 0)
                        \/ Head(term.owes) = "rest" /\ token = [kind |-> "rest", n |-> 0, of |-> term.owes[2]]
    BY DEF TerminalAnswers
  <2>3. token \in Token /\ token.n = 0
    <3>1. term.owes[1] # "rest" => term.owes[1] \in Answers BY <2>0
    <3>2. token \in Token BY <2>0, <2>1, <2>2, <3>1, TokensTyped DEF Answers
    <3>3. token.n = 0 BY <2>2 DEF Key
    <3>4. QED BY <3>2, <3>3
  <2>4. /\ term'.supports = term.supports /\ read' = read /\ lost' = lost /\ purged' = purged
    BY <1>t DEF TerminalAnswers, TermTyped
  <2>5. read \in Seq(Nat) /\ Len(read) \in Nat BY <1>t DEF FlowTyped
  <2>6. pt' = pt BY <1>t, <2>2, <2>3, ReadsTyped
  <2>7. token.kind = "kitty" \/ (token.kind = "rest" /\ token.of = "kitty") => term.supports = "kitty"
    BY <1>t, <2>0, <2>1, <2>2 DEF Owing, Key
  <2>8. Own(token)' BY <2>3, <2>4, <2>5, <2>6, <2>7 DEF Own
  <2>9. QED BY <1>t, <2>2, <2>3, <2>4, <2>5, <2>8, ReadsKeep
<1>12. OtherSessions'
  BY <1>11
<1>13. LineNow'
  BY <1>11
<1>14. QED
  BY <1>1, <1>2, <1>3, <1>4, <1>5, <1>6, <1>7, <1>8, <1>9, <1>10, <1>11, <1>12, <1>13 DEF TerminalInv, TerminalTyped

LEMMA TakeKeeps ==
  ASSUME TerminalInv, NEW s \in Sessions, Take(s)
  PROVE  TerminalInv'
<1>t. /\ TermTyped /\ FieldsTyped /\ CallsTyped /\ FlowTyped
      /\ Owing /\ SessionLife /\ RawPaste /\ Protocols /\ Progress /\ Handled /\ Past /\ OtherSessions /\ LineNow
  BY DEF TerminalInv, TerminalTyped
<1>u. UNCHANGED <<term, pt, life, drain, hearing, progress, read, forwarded, lost, purged, outrun, allowed>> BY DEF Take, drainVars
<1>1. s = pt.session /\ s # 0 BY <1>t DEF Take, OtherSessions, Sessions
<1>2. PICK f, h, q, p, t, l :
        f = forwarded /\ h = pt.held /\ q = inputData[s] /\ p = inputData'[s] /\ t = taken'[s] /\ l = lost OBVIOUS
<1>3. q \in Seq(Chunk) /\ q # <<>> /\ f \in Seq(Forwarded) /\ h \in Token /\ pt.drains \in Nat
  BY <1>t, <1>2 DEF FlowTyped, FieldsTyped, Take
<1>4. p = Tail(q) /\ t = (IF q[1].drain = pt.drains /\ ~pt.draining THEN q[1].token ELSE None)
  BY <1>t, <1>1, <1>2, <1>3 DEF Take, FlowTyped
<1>5. /\ 1 \in DOMAIN q /\ \A j \in DOMAIN p : j + 1 \in DOMAIN q /\ p[j] = q[j + 1]
      /\ \A j \in DOMAIN q : j = 1 \/ (j - 1 \in DOMAIN p /\ p[j - 1] = q[j])
  <2>1. Len(q) \in Nat \ {0} /\ DOMAIN q = 1 .. Len(q) /\ DOMAIN p = 1 .. Len(q) - 1 /\ \A j \in 1 .. Len(q) - 1 : p[j] = q[j + 1]
    BY <1>3, <1>4
  <2>2. \A j \in DOMAIN q : j = 1 \/ (j - 1 \in 1 .. Len(q) - 1 /\ (j - 1) + 1 = j) BY <2>1
  <2>3. QED BY <2>1, <2>2
<1>6. q[1].token \in Token /\ None \in Token /\ p \in Seq(Chunk) /\ Head(q) = q[1] BY <1>3, <1>4, <1>5, ChunksTyped, TokensTyped
<1>7. FlowTyped'
  <2>1. inputData' = [inputData EXCEPT ![s] = p] /\ taken' = [taken EXCEPT ![s] = t] BY <1>t, <1>2, <1>4, <1>6 DEF Take, FlowTyped
  <2>2. QED BY <1>t, <1>u, <1>4, <1>6, <2>1 DEF FlowTyped
<1>8. Past' BY <1>t, <1>u DEF Past
<1>9. OtherSessions'
  <2>1. s <= pt.starts BY <1>t, <1>1 DEF SessionLife, FieldsTyped
  <2>2. inputData' = [inputData EXCEPT ![s] = p] /\ \A r \in Sessions : r # s => taken'[r] = taken[r]
    BY <1>t, <1>2, <1>4 DEF Take, FlowTyped
  <2>3. QED BY <1>t, <1>u, <1>1, <2>1, <2>2 DEF OtherSessions, Sessions, FieldsTyped, FlowTyped
<1>10. LineNow'
  <2>1. hearing[s].what = None /\ hearing[s].next = None /\ taken[s] = None BY DEF Take, NobodyHears
  <2>2. LineGood(f, None, None, h, None, q, l) BY <1>t, <1>1, <1>2, <2>1 DEF LineNow
  <2>3. LineOrder(f, None, None, h, t, p)
    BY <1>3, <1>4, <1>6, <2>2, OrderTaken DEF LineGood
  <2>4. /\ Placed(None) /\ Placed(h) /\ h.kind \in {"none", "prefix"} /\ None.kind \notin Answers
        /\ \A j \in DOMAIN q : Own(q[j].token) /\ q[j].drain <= pt.drains /\ (q[j].drain = pt.drains => q[j].token.n \notin purged)
    BY <2>2 DEF LineGood, LineOwn
  <2>5. LineOwn(None, None, h, t, p) BY <1>4, <1>5, <2>4 DEF LineOwn, Placed
  <2>6. None.n = 0 BY DEF None
  <2>7. \/ t = q[1].token /\ ~pt.draining
        \/ t = None /\ Gone(q[1].token, l)
    BY <1>4, <1>5, <2>2 DEF LineGood, LineLost
  <2>8. LineWhole(f, None, None, h, t, p, l)
    <3>1. SUFFICES ASSUME NEW n \in DOMAIN read, read[n] = pt.session, n \notin l, \A i \in DOMAIN f : f[i].n # n
                   PROVE  n \in {0, h.n, t.n} \/ \E j \in DOMAIN p : p[j].token.n = n
      BY <2>6 DEF LineWhole
    <3>2. n \in {0, h.n} \/ \E j \in DOMAIN q : q[j].token.n = n BY <3>1, <2>2, <2>6 DEF LineGood, LineWhole
    <3>3. CASE \E j \in DOMAIN q : q[j].token.n = n
      <4>1. PICK j \in DOMAIN q : q[j].token.n = n BY <3>3
      <4>2. CASE j = 1 BY <4>1, <4>2, <2>7, <3>1 DEF Gone
      <4>3. CASE j # 1 BY <4>1, <4>3, <1>5
      <4>4. QED BY <4>2, <4>3
    <3>4. QED BY <3>2, <3>3
  <2>9. LineLost(None, None, h, t, p, l) BY <1>5, <2>2, <2>7 DEF LineGood, LineLost
  <2>10. LineGood(f, None, None, h, t, p, l) BY <2>3, <2>5, <2>8, <2>9 DEF LineGood
  <2>11. LineGood(f, None, None, h, t, p, l)'
    <3>1. \A v : Placed(v)' <=> Placed(v) BY <1>u DEF Placed, Own
    <3>2. \A v : Own(v)' <=> Own(v) BY <1>u DEF Own
    <3>3. QED BY <1>u, <2>10, <3>1, <3>2 DEF LineGood, LineOwn, LineWhole, LineLost
  <2>12. hearing'[s].what = None /\ hearing'[s].next = None /\ hearing'[s] = NobodyHears BY <1>u, <2>1 DEF Take
  <2>13. Hands(s)' BY <2>12 DEF Hands
  <2>14. QED BY <1>u, <1>1, <1>2, <2>11, <2>12, <2>13 DEF LineNow
<1>11. TermTyped' /\ FieldsTyped' /\ CallsTyped' BY <1>t, <1>u DEF TermTyped, FieldsTyped, CallsTyped
<1>12. Owing' /\ SessionLife' /\ RawPaste' /\ Protocols' /\ Progress' /\ Handled'
  BY <1>t, <1>u DEF Owing, SessionLife, RawPaste, Protocols, Progress, Handled, At
<1>13. QED BY <1>7, <1>8, <1>9, <1>10, <1>11, <1>12 DEF TerminalInv, TerminalTyped

LEMMA FlushKeeps ==
  ASSUME TerminalInv, NEW s \in Sessions, FlushHeld(s)
  PROVE  TerminalInv'
<1>t. /\ TermTyped /\ FieldsTyped /\ CallsTyped /\ FlowTyped
      /\ Owing /\ SessionLife /\ RawPaste /\ Protocols /\ Progress /\ Handled /\ Past /\ OtherSessions /\ LineNow
  BY DEF TerminalInv, TerminalTyped
<1>u. UNCHANGED <<term, life, drain, inputData, taken, progress, read, forwarded, lost, purged, outrun, allowed>> BY DEF FlushHeld, drainVars
<1>1. s = pt.session /\ s # 0 /\ pt.held # None BY DEF FlushHeld, Sessions
<1>2. PICK f, h, t, q, l : f = forwarded /\ h = pt.held /\ t = taken[s] /\ q = inputData[s] /\ l = lost' OBVIOUS
<1>3. h \in Token /\ t \in Token /\ None \in Token /\ pt.handler \in Nat BY <1>t, <1>2, TokensTyped DEF FieldsTyped, FlowTyped
<1>4. hearing[s].what = None /\ hearing[s].next = None BY DEF FlushHeld, NobodyHears
<1>5. pt' = [pt EXCEPT !.held = None] /\ hearing' = [hearing EXCEPT ![s] = [what |-> h, to |-> pt.handler, next |-> None]]
  BY <1>2 DEF FlushHeld, Hears
<1>6. FieldsTyped' BY <1>t, <1>3, <1>5 DEF FieldsTyped
<1>7. FlowTyped'
  <2>1. [what |-> h, to |-> pt.handler, next |-> None] \in Hearing BY <1>3 DEF Hearing
  <2>2. QED BY <1>t, <1>u, <1>5, <2>1 DEF FlowTyped
<1>8. /\ pt'.session = pt.session /\ pt'.starts = pt.starts /\ pt'.handler = pt.handler /\ pt'.draining = pt.draining
      /\ pt'.drains = pt.drains /\ pt'.saved = pt.saved /\ pt'.pushed = pt.pushed /\ pt'.kitty = pt.kitty /\ pt'.other = pt.other
      /\ pt'.held = None
  BY <1>t, <1>5 DEF FieldsTyped
<1>9. TermTyped' /\ CallsTyped' /\ Owing' /\ SessionLife' /\ RawPaste' /\ Protocols' /\ Progress' /\ Handled'
  BY <1>t, <1>u, <1>8 DEF TermTyped, CallsTyped, Owing, SessionLife, RawPaste, Protocols, Progress, Handled, At
<1>10. Past' BY <1>t, <1>u, <1>8 DEF Past
<1>11. OtherSessions'
  <2>1. s <= pt.starts BY <1>t, <1>1 DEF SessionLife, FieldsTyped
  <2>2. \A r \in Sessions : r # s => hearing'[r] = hearing[r] BY <1>t, <1>5 DEF FlowTyped
  <2>3. QED BY <1>t, <1>u, <1>8, <2>1, <2>2 DEF OtherSessions, Sessions, FieldsTyped
<1>12. LineNow'
  <2>1. LineGood(f, None, None, h, t, q, lost) BY <1>t, <1>1, <1>2, <1>4 DEF LineNow
  <2>2. LineOrder(f, h, None, None, t, q) /\ h.kind \in {"none", "prefix"} /\ LineLost(None, None, h, t, q, lost)
    BY <2>1, OrderMoved DEF LineGood, LineOwn
  <2>3. None.kind = "none" /\ h.kind \notin Answers BY <2>2 DEF None, Answers
  <2>4. LineGood(f, h, None, None, t, q, l)'
    BY <1>t, <1>u, <1>2, <1>3, <1>8, <2>1, <2>2, <2>3, LineMoved
  <2>5. hearing'[s] = [what |-> h, to |-> pt.handler, next |-> None] BY <1>t, <1>5 DEF FlowTyped
  <2>6. hearing'[s].what = h /\ hearing'[s].to = pt.handler /\ hearing'[s].next = None BY <2>5
  <2>7. pt.handler \in {0, s} /\ (pt.handler = 0 => pt.draining) BY <1>t, <1>1 DEF Handled
  <2>8. pt.draining => Gone(h, l) BY <1>u, <1>2, <2>2 DEF LineLost
  <2>9. Hands(s)' BY <1>1, <1>2, <2>6, <2>7, <2>8 DEF Hands, Gone
  <2>10. QED BY <1>u, <1>1, <1>2, <1>8, <2>4, <2>6, <2>9 DEF LineNow, LineGood, LineWhole, LineLost, Gone
<1>13. QED BY <1>6, <1>7, <1>9, <1>10, <1>11, <1>12 DEF TerminalInv, TerminalTyped

\* The worker of a session that is over disturbs no other.
LEMMA OtherWorker ==
  ASSUME TerminalInv, NEW s \in Sessions, s # pt.session, s <= pt.starts, pt' = pt, term' = term,
         inputData' = inputData, read' = read, forwarded' = forwarded, lost' = lost, purged' = purged,
         \A r \in Sessions : r # s => taken'[r] = taken[r] /\ hearing'[r] = hearing[r]
  PROVE  Past' /\ OtherSessions' /\ LineNow'
<1>t. FieldsTyped /\ CallsTyped /\ SessionLife /\ Past /\ OtherSessions /\ LineNow BY DEF TerminalInv, TerminalTyped
<1>1. Past' BY <1>t DEF Past
<1>2. OtherSessions' BY <1>t DEF OtherSessions, Sessions, FieldsTyped
<1>3. SUFFICES ASSUME pt.session # 0 PROVE LineNow' BY <1>1, <1>2 DEF LineNow
<1>4. PICK z, w, x, h, t, q, f, l :
        /\ z = pt.session /\ w = hearing[z].what /\ x = hearing[z].next /\ h = pt.held /\ t = taken[z] /\ q = inputData[z]
        /\ f = forwarded /\ l = lost
  OBVIOUS
<1>5. z \in Sessions BY <1>t, <1>3, <1>4, TerminalAssumption DEF SessionLife, Sessions, CallsTyped, FieldsTyped, Allowed
<1>6. hearing'[z] = hearing[z] /\ taken'[z] = taken[z] BY <1>4, <1>5
<1>7. LineGood(f, w, x, h, t, q, l) /\ Hands(z) BY <1>t, <1>3, <1>4 DEF LineNow
<1>8. (\A v : Placed(v)' <=> Placed(v)) /\ (\A v : Own(v)' <=> Own(v)) BY DEF Placed, Own
<1>9. LineGood(f, w, x, h, t, q, l)' BY <1>7, <1>8 DEF LineGood, LineOwn, LineWhole, LineLost
<1>10. Hands(z)' BY <1>6, <1>7 DEF Hands, Gone
<1>11. QED BY <1>4, <1>6, <1>9, <1>10 DEF LineNow

LEMMA WorkerKeeps ==
  ASSUME TerminalInv, NEW s \in Sessions, WorkerHears(s)
  PROVE  TerminalInv'
<1>t. /\ TermTyped /\ FieldsTyped /\ CallsTyped /\ FlowTyped
      /\ Owing /\ SessionLife /\ RawPaste /\ Protocols /\ Progress /\ Handled /\ Past /\ OtherSessions /\ LineNow
  BY DEF TerminalInv, TerminalTyped
<1>u. UNCHANGED <<life, drain, inputData, progress, read, forwarded, purged, allowed>> BY DEF WorkerHears
<1>1. PICK f, t, q : f = forwarded /\ t = taken[s] /\ q = inputData[s] OBVIOUS
<1>2. t \in Token /\ t # None /\ hearing[s] = NobodyHears /\ taken' = [taken EXCEPT ![s] = None] /\ Hear(s, t)
  BY <1>t, <1>1 DEF WorkerHears, FlowTyped
<1>3. hearing[s].what = None /\ hearing[s].next = None BY <1>2 DEF NobodyHears
<1>4. pt.session = s => LineGood(f, None, None, pt.held, t, q, lost)
  BY <1>t, <1>1, <1>3 DEF LineNow, Sessions
<1>5. pt.session = s => Own(t) BY <1>4 DEF LineGood, LineOwn, Placed
<1>6. TermTyped' /\ FieldsTyped' /\ CallsTyped' /\ Owing' /\ SessionLife' /\ RawPaste' /\ Protocols' /\ Progress' /\ Handled'
  BY <1>u, <1>2, <1>5, HearModes
<1>7. hearing' \in [Sessions -> Hearing] /\ pt'.session = pt.session /\ pt'.starts = pt.starts
      /\ \A r \in Sessions : r # s => hearing'[r] = hearing[r]
  BY <1>t, <1>2, HearTyped DEF CallsTyped, FlowTyped
<1>8. taken' \in [Sessions -> Token] /\ taken'[s] = None /\ \A r \in Sessions : r # s => taken'[r] = taken[r]
  BY <1>t, <1>2, TokensTyped DEF FlowTyped
<1>9. FlowTyped' BY <1>t, <1>u, <1>7, <1>8 DEF FlowTyped
<1>10. s <= pt.starts BY <1>t, <1>1, <1>2 DEF OtherSessions, FieldsTyped, Sessions
<1>11. CASE pt.session # s
  <2>1. pt' = pt /\ term' = term /\ lost' = lost BY <1>2, <1>11 DEF Hear
  <2>2. Past' /\ OtherSessions' /\ LineNow' BY <1>u, <1>7, <1>8, <1>10, <1>11, <2>1, OtherWorker
  <2>3. QED BY <1>6, <1>9, <2>2 DEF TerminalInv, TerminalTyped
<1>12. CASE pt.session = s
  <2>1. Past' BY <1>t, <1>u, <1>7 DEF Past
  <2>2. OtherSessions' BY <1>t, <1>u, <1>7, <1>8, <1>10, <1>12 DEF OtherSessions, Sessions, FieldsTyped
  <2>3. LineGood(f, hearing[s].what, hearing[s].next, pt.held, None, q, lost)' /\ Hands(s)'
    BY <1>t, <1>u, <1>2, <1>4, <1>8, <1>12, HearLine
  <2>4. LineNow' BY <1>u, <1>1, <1>7, <1>8, <1>12, <2>3 DEF LineNow
  <2>5. QED BY <1>6, <1>9, <2>1, <2>2, <2>4 DEF TerminalInv, TerminalTyped
<1>13. QED BY <1>11, <1>12

\* What is forwarded, and the line without it.
LEMMA ForwardLine ==
  ASSUME TerminalInv, NEW s \in Sessions, s = pt.session, NEW w \in Token, w = hearing[s].what, w # None,
         NEW x, NEW t, NEW q, x = hearing[s].next, t = taken[s], q = inputData[s], NEW f,
         hearing[s].to = 0 => f = forwarded,
         hearing[s].to # 0 => f = Append(forwarded, [token |-> w, n |-> w.n, to |-> hearing[s].to])
  PROVE  /\ f \in Seq(Forwarded)
         /\ \A i \in DOMAIN f : /\ f[i].n = f[i].token.n /\ f[i].n <= Len(read)
                                /\ f[i].n # 0 => read[f[i].n] = f[i].to /\ f[i].n \notin purged
                                /\ f[i].token.kind \notin Answers
         /\ \A i, j \in DOMAIN f : i < j => Before(f[i].token, f[j].token)
         /\ LineGood(f, None, x, pt.held, t, q, lost)
<1>t. FieldsTyped /\ FlowTyped /\ Past /\ LineNow BY DEF TerminalInv, TerminalTyped
<1>1. PICK h : h = pt.held OBVIOUS
<1>2. LineGood(forwarded, w, x, h, t, q, lost) /\ Hands(s) BY <1>t, <1>1 DEF LineNow, Sessions
<1>3. forwarded \in Seq(Forwarded) /\ read \in Seq(Nat) /\ Len(read) \in Nat BY <1>t DEF FlowTyped
<1>4. hearing[s].to \in {0, s} /\ (hearing[s].to = 0 => Gone(w, lost)) BY <1>2 DEF Hands
<1>5. Placed(w) /\ w.kind \notin Answers BY <1>2 DEF LineGood, LineOwn
<1>6. \A i \in DOMAIN forwarded : Before(forwarded[i].token, w) BY <1>2 DEF LineGood, LineOrder
<1>7. LineOrder(forwarded, w, x, h, t, q) BY <1>2 DEF LineGood
<1>8. Placed(None) BY <1>2, NoneOwn DEF TerminalInv
<1>9. None.n = 0 /\ None.kind = "none" BY DEF None
<1>10. LineOwn(None, x, h, t, q) BY <1>2, <1>8, <1>9 DEF LineGood, LineOwn, Answers
<1>11. LineLost(None, x, h, t, q, lost) BY <1>2, <1>9 DEF LineGood, LineLost, Gone
<1>12. ASSUME f = forwarded, Gone(w, lost) PROVE LineWhole(f, None, x, h, t, q, lost)
  <2>1. SUFFICES ASSUME NEW n \in DOMAIN read, read[n] = pt.session, n \notin lost, \A i \in DOMAIN f : f[i].n # n
                 PROVE  n \in {0, x.n, h.n, t.n} \/ \E j \in DOMAIN q : q[j].token.n = n
    BY <1>9 DEF LineWhole
  <2>2. n \in {w.n, x.n, h.n, t.n} \/ \E j \in DOMAIN q : q[j].token.n = n
    BY <1>2, <1>12, <2>1 DEF LineGood, LineWhole
  <2>3. QED BY <1>12, <2>1, <2>2 DEF Gone
<1>13. CASE hearing[s].to = 0
  <2>1. f = forwarded /\ Gone(w, lost) BY <1>4, <1>13
  <2>2. LineOrder(f, None, x, h, t, q) BY <1>3, <1>7, <2>1, OrderForwarded
  <2>3. LineGood(f, None, x, h, t, q, lost) BY <1>10, <1>11, <1>12, <2>1, <2>2 DEF LineGood
  <2>4. QED BY <1>t, <1>1, <1>3, <2>1, <2>3 DEF Past
<1>14. CASE hearing[s].to # 0
  <2>1. PICK c : c = [token |-> w, n |-> w.n, to |-> s] OBVIOUS
  <2>2. c.token = w /\ c.n = w.n /\ c.to = s /\ c \in Forwarded BY <2>1, TokensTyped DEF Forwarded, Sessions
  <2>3. f = Append(forwarded, c) BY <1>4, <1>14, <2>1
  <2>4. /\ f \in Seq(Forwarded) /\ Len(forwarded) + 1 \in DOMAIN f /\ f[Len(forwarded) + 1] = c
        /\ \A i \in DOMAIN forwarded : i \in DOMAIN f /\ f[i] = forwarded[i]
        /\ \A i \in DOMAIN f : (i \in DOMAIN forwarded /\ f[i] = forwarded[i]) \/ (i = Len(forwarded) + 1 /\ f[i] = c)
        /\ \A i, j \in DOMAIN f : i < j => i \in DOMAIN forwarded
    BY <1>3, <2>2, <2>3
  <2>5. w.n <= Len(read) /\ (w.n # 0 => read[w.n] = s /\ w.n \notin purged) BY <1>3, <1>5 DEF Placed, Own
  <2>6. \A i \in DOMAIN f : /\ f[i].n = f[i].token.n /\ f[i].n <= Len(read)
                            /\ f[i].n # 0 => read[f[i].n] = f[i].to /\ f[i].n \notin purged
                            /\ f[i].token.kind \notin Answers
    <3>1. TAKE i \in DOMAIN f
    <3>2. CASE i \in DOMAIN forwarded /\ f[i] = forwarded[i] BY <1>t, <3>2 DEF Past
    <3>3. CASE f[i] = c BY <1>5, <2>2, <2>5, <3>3
    <3>4. QED BY <2>4, <3>2, <3>3
  <2>7. \A i, j \in DOMAIN f : i < j => Before(f[i].token, f[j].token)
    <3>1. TAKE i, j \in DOMAIN f
    <3>2. HAVE i < j
    <3>3. i \in DOMAIN forwarded /\ f[i] = forwarded[i] BY <2>4, <3>2
    <3>4. CASE j \in DOMAIN forwarded /\ f[j] = forwarded[j] BY <1>t, <3>2, <3>3, <3>4 DEF Past
    <3>5. CASE f[j] = c BY <1>6, <2>2, <3>3, <3>5
    <3>6. QED BY <2>4, <3>4, <3>5
  <2>8. LineOrder(f, None, x, h, t, q) BY <1>3, <1>7, <2>1, <2>3, OrderForwarded
  <2>9. LineWhole(f, None, x, h, t, q, lost)
    <3>1. SUFFICES ASSUME NEW n \in DOMAIN read, read[n] = pt.session, n \notin lost, \A i \in DOMAIN f : f[i].n # n
                   PROVE  n \in {0, x.n, h.n, t.n} \/ \E j \in DOMAIN q : q[j].token.n = n
      BY <1>9 DEF LineWhole
    <3>2. (\A i \in DOMAIN forwarded : forwarded[i].n # n) /\ w.n # n BY <2>2, <2>4, <3>1
    <3>3. n \in {w.n, x.n, h.n, t.n} \/ \E j \in DOMAIN q : q[j].token.n = n
      BY <1>2, <3>1, <3>2 DEF LineGood, LineWhole
    <3>4. QED BY <3>2, <3>3
  <2>10. LineGood(f, None, x, h, t, q, lost) BY <1>10, <1>11, <2>8, <2>9 DEF LineGood
  <2>11. QED BY <1>1, <2>4, <2>6, <2>7, <2>10
<1>15. QED BY <1>13, <1>14

LEMMA ForwardKeeps ==
  ASSUME TerminalInv, NEW s \in Sessions, Forward(s)
  PROVE  TerminalInv'
<1>t. /\ TermTyped /\ FieldsTyped /\ CallsTyped /\ FlowTyped
      /\ Owing /\ SessionLife /\ RawPaste /\ Protocols /\ Progress /\ Handled /\ Past /\ OtherSessions /\ LineNow
  BY DEF TerminalInv, TerminalTyped
<1>u. UNCHANGED <<life, drain, inputData, taken, progress, read, purged, allowed>> BY DEF Forward
<1>1. PICK w, x, t, q, f : w = hearing[s].what /\ x = hearing[s].next /\ t = taken[s] /\ q = inputData[s] /\ f = forwarded' OBVIOUS
<1>2. w \in Token /\ x \in Token /\ w # None BY <1>t, <1>1 DEF Forward, FlowTyped, Hearing
<1>3. s <= pt.starts
  <2>1. hearing[s] # NobodyHears BY <1>1, <1>2 DEF NobodyHears
  <2>2. QED BY <1>t, <2>1 DEF OtherSessions, FieldsTyped, Sessions
<1>4. NobodyHears \in Hearing BY TokensTyped DEF NobodyHears, Hearing
<1>5. CASE pt.session # s
  <2>1. forwarded' = forwarded BY <1>5 DEF Forward
  <2>2. UNCHANGED <<term, pt, outrun, lost>> /\ Rests(s) BY <1>5 DEF Forward, Hear
  <2>3. hearing' \in [Sessions -> Hearing] /\ \A r \in Sessions : r # s => hearing'[r] = hearing[r]
    BY <1>t, <1>4, <2>2 DEF FlowTyped, Rests
  <2>4. FlowTyped' BY <1>t, <1>u, <2>1, <2>3 DEF FlowTyped
  <2>5. Past' /\ OtherSessions' /\ LineNow' BY <1>u, <1>3, <1>5, <2>1, <2>2, <2>3, OtherWorker
  <2>6. TermTyped' /\ FieldsTyped' /\ CallsTyped' /\ Owing' /\ SessionLife' /\ RawPaste' /\ Protocols' /\ Progress' /\ Handled'
    BY <1>t, <1>u, <2>2 DEF TermTyped, FieldsTyped, CallsTyped, Owing, SessionLife, RawPaste, Protocols, Progress, Handled, At
  <2>7. QED BY <2>4, <2>5, <2>6 DEF TerminalInv, TerminalTyped
<1>6. CASE pt.session = s
  <2>1. /\ hearing[s].to = 0 => f = forwarded
        /\ hearing[s].to # 0 => f = Append(forwarded, [token |-> w, n |-> w.n, to |-> hearing[s].to])
    BY <1>1, <1>6 DEF Forward
  <2>2. /\ f \in Seq(Forwarded)
        /\ \A i \in DOMAIN f : /\ f[i].n = f[i].token.n /\ f[i].n <= Len(read)
                               /\ f[i].n # 0 => read[f[i].n] = f[i].to /\ f[i].n \notin purged
                               /\ f[i].token.kind \notin Answers
        /\ \A i, j \in DOMAIN f : i < j => Before(f[i].token, f[j].token)
        /\ LineGood(f, None, x, pt.held, t, q, lost)
    BY <1>1, <1>2, <1>6, <2>1, ForwardLine
  <2>3. ASSUME pt'.starts = pt.starts, pt'.session = pt.session, hearing' \in [Sessions -> Hearing],
               \A r \in Sessions : r # s => hearing'[r] = hearing[r]
        PROVE  FlowTyped' /\ Past' /\ OtherSessions'
    <3>1. FlowTyped' BY <1>t, <1>u, <1>1, <2>2, <2>3 DEF FlowTyped
    <3>2. Past' BY <1>t, <1>u, <1>1, <2>2, <2>3 DEF Past
    <3>3. OtherSessions' BY <1>t, <1>u, <1>3, <2>3 DEF OtherSessions, Sessions, FieldsTyped
    <3>4. QED BY <3>1, <3>2, <3>3
  <2>4. CASE x = None
    <3>1. UNCHANGED <<term, pt, outrun, lost>> /\ Rests(s) BY <1>1, <2>4 DEF Forward
    <3>2. hearing' \in [Sessions -> Hearing] /\ hearing'[s] = NobodyHears /\ \A r \in Sessions : r # s => hearing'[r] = hearing[r]
      BY <1>t, <1>4, <3>1 DEF FlowTyped, Rests
    <3>3. FlowTyped' /\ Past' /\ OtherSessions' BY <2>3, <3>1, <3>2
    <3>4. TermTyped' /\ FieldsTyped' /\ CallsTyped' /\ Owing' /\ SessionLife' /\ RawPaste' /\ Protocols' /\ Progress' /\ Handled'
      BY <1>t, <1>u, <3>1 DEF TermTyped, FieldsTyped, CallsTyped, Owing, SessionLife, RawPaste, Protocols, Progress, Handled, At
    <3>5. hearing'[s].what = None /\ hearing'[s].next = None BY <3>2 DEF NobodyHears
    <3>6. LineNow'
      <4>1. PICK h, l : h = pt.held /\ l = lost OBVIOUS
      <4>2. LineGood(f, None, None, h, t, q, l) BY <2>2, <2>4, <4>1
      <4>3. (\A v : Placed(v)' <=> Placed(v)) /\ (\A v : Own(v)' <=> Own(v)) BY <1>u, <3>1 DEF Placed, Own
      <4>4. LineGood(f, None, None, h, t, q, l)' BY <1>u, <3>1, <4>2, <4>3 DEF LineGood, LineOwn, LineWhole, LineLost
      <4>5. Hands(s)' BY <3>2, <3>5 DEF Hands
      <4>6. QED BY <1>u, <1>1, <1>6, <3>1, <3>5, <4>1, <4>4, <4>5 DEF LineNow
    <3>7. QED BY <3>3, <3>4, <3>6 DEF TerminalInv, TerminalTyped
  <2>5. CASE x # None
    <3>1. Hear(s, x) BY <1>1, <2>5 DEF Forward
    <3>2. Hands(s) BY <1>t, <1>6 DEF LineNow, Sessions
    <3>3. t = None /\ pt.held = None /\ taken'[s] = None BY <1>u, <1>1, <2>5, <3>2 DEF Hands
    <3>4. LineGood(f, None, x, None, None, q, lost) BY <2>2, <3>3
    <3>5. LineGood(f, None, None, None, x, q, lost)
      <4>1. LineOrder(f, None, None, None, x, q) BY <3>4, OrderNextHeard DEF LineGood
      <4>2. LineOwn(None, None, None, x, q) /\ LineLost(None, None, None, x, q, lost) /\ LineWhole(f, None, None, None, x, q, lost)
        BY <3>4 DEF LineGood, LineOwn, LineLost, LineWhole
      <4>3. QED BY <4>1, <4>2 DEF LineGood
    <3>6. Own(x) BY <3>5 DEF LineGood, LineOwn, Placed
    <3>7. TermTyped' /\ FieldsTyped' /\ CallsTyped' /\ Owing' /\ SessionLife' /\ RawPaste' /\ Protocols' /\ Progress' /\ Handled'
      BY <1>u, <1>2, <3>1, <3>6, HearModes
    <3>8. hearing' \in [Sessions -> Hearing] /\ pt'.session = pt.session /\ pt'.starts = pt.starts
          /\ \A r \in Sessions : r # s => hearing'[r] = hearing[r]
      BY <1>t, <1>2, <3>1, HearTyped DEF CallsTyped, FlowTyped
    <3>9. FlowTyped' /\ Past' /\ OtherSessions' BY <2>3, <3>8
    <3>10. LineGood(f, None, None, pt.held, x, q, lost) BY <3>3, <3>5
    <3>11. LineGood(f, hearing[s].what, hearing[s].next, pt.held, None, q, lost)' /\ Hands(s)'
      BY <1>t, <1>u, <1>2, <1>6, <2>5, <3>1, <3>3, <3>10, HearLine
    <3>12. LineNow' BY <1>u, <1>1, <1>6, <3>3, <3>8, <3>11 DEF LineNow
    <3>13. QED BY <3>7, <3>9, <3>12 DEF TerminalInv, TerminalTyped
  <2>6. QED BY <2>4, <2>5
<1>7. QED BY <1>5, <1>6

LEMMA TerminalInvAtFirst == ASSUME TerminalInit PROVE TerminalInv
<1>1. TermTyped
  <2>1. PICK supports \in {"kitty", "zero", "none"} :
          term = [supports |-> supports, raw |-> FALSE, paste |-> FALSE, kitty |-> 0, other |-> FALSE, progress |-> FALSE, owes |-> <<>>]
    BY DEF TerminalInit
  <2>2. QED BY <2>1 DEF TermTyped
<1>2. FieldsTyped BY TokensTyped DEF TerminalInit, FieldsTyped
<1>3. CallsTyped BY TerminalAssumption DEF TerminalInit, CallsTyped, Quiet, LifePlaces
<1>4. FlowTyped
  <2>1. NobodyHears \in Hearing BY TokensTyped DEF NobodyHears, Hearing
  <2>2. QED BY <2>1, TokensTyped DEF TerminalInit, FlowTyped
<1>5. term.owes = <<>> /\ term.raw = FALSE /\ term.paste = FALSE /\ term.kitty = 0 /\ term.other = FALSE /\ term.progress = FALSE
  BY DEF TerminalInit
<1>6. Owing BY <1>5 DEF Owing
<1>7. allowed["starts"] \in Nat /\ allowed["starts"] <= MaxSessions BY TerminalAssumption DEF TerminalInit, Allowed
<1>8. SessionLife BY <1>7 DEF TerminalInit, SessionLife, Quiet
<1>9. RawPaste /\ Protocols /\ Progress /\ Handled BY <1>5 DEF TerminalInit, RawPaste, Protocols, Progress, Handled, At, Quiet
<1>10. Past /\ OtherSessions /\ LineNow BY DEF TerminalInit, Past, OtherSessions, LineNow
<1>11. QED BY <1>1, <1>2, <1>3, <1>4, <1>6, <1>8, <1>9, <1>10 DEF TerminalInv, TerminalTyped

LEMMA TerminalStep == ASSUME TerminalInv, [TerminalNext]_terminalVars PROVE TerminalInv'
<1>t. /\ TermTyped /\ FieldsTyped /\ CallsTyped /\ FlowTyped
      /\ Owing /\ SessionLife /\ RawPaste /\ Protocols /\ Progress /\ Handled /\ Past /\ OtherSessions /\ LineNow
  BY DEF TerminalInv, TerminalTyped
<1>1. CASE UNCHANGED terminalVars
  <2>1. UNCHANGED <<term, pt, life, drain, inputData, taken, hearing, progress, read, forwarded, lost, purged, outrun, allowed>>
    BY <1>1 DEF terminalVars
  <2>2. KeysAlone BY <2>1 DEF KeysAlone, flowVars
  <2>3. Past' /\ OtherSessions' /\ LineNow' BY <1>t, <2>2, KeysStand DEF TerminalTyped
  <2>4. TermTyped' /\ FieldsTyped' /\ CallsTyped' /\ FlowTyped'
    BY <1>t, <2>1 DEF TermTyped, FieldsTyped, CallsTyped, FlowTyped
  <2>5. Owing' /\ SessionLife' /\ RawPaste' /\ Protocols' /\ Progress' /\ Handled'
    BY <1>t, <2>1 DEF Owing, SessionLife, RawPaste, Protocols, Progress, Handled, At
  <2>6. QED BY <2>3, <2>4, <2>5 DEF TerminalInv, TerminalTyped
<1>2. CASE TerminalNext
  <2>1. CASE Start BY <2>1, StartKeeps
  <2>2. CASE StartFails BY <2>2, StartFailsQuiet
  <2>3. CASE OpenReader BY <2>3, OpenReaderQuiet
  <2>4. CASE AskKeyboard BY <2>4, AskKeyboardKeeps
  <2>5. CASE Stop BY <2>5, StopKeeps
  <2>6. CASE RestoreRaw BY <2>6, RestoreRawQuiet
  <2>7. CASE WriteModes BY <2>7, WriteModesQuiet
  <2>8. CASE Progresses BY <2>8, ProgressesQuiet
  <2>9. CASE ClearProgress BY <2>9, ClearProgressQuiet
  <2>10. CASE Keepalive BY <2>10, KeepaliveQuiet
  <2>11. CASE DrainBegins BY <2>11, DrainBeginsKeeps
  <2>12. CASE DrainEnds BY <2>12, DrainEndsKeeps
  <2>13. CASE KeysRead BY <2>13, KeysReadKeeps
  <2>14. CASE TerminalAnswers BY <2>14, TerminalAnswersKeeps
  <2>15. CASE \E s \in Sessions : Take(s) \/ WorkerHears(s) \/ FlushHeld(s) \/ Forward(s)
    BY <2>15, TakeKeeps, WorkerKeeps, FlushKeeps, ForwardKeeps
  <2>16. QED BY <1>2, <2>1, <2>2, <2>3, <2>4, <2>5, <2>6, <2>7, <2>8, <2>9, <2>10, <2>11, <2>12, <2>13, <2>14, <2>15
       DEF TerminalNext, Progresses, KeysRead
<1>3. QED BY <1>1, <1>2

LEMMA TerminalInvKept == ASSUME TerminalInv PROVE TerminalKept
<1>t. /\ TermTyped /\ FieldsTyped /\ CallsTyped /\ FlowTyped
      /\ SessionLife /\ RawPaste /\ Protocols /\ Progress /\ Past /\ LineNow
  BY DEF TerminalInv, TerminalTyped
<1>1. ModesKept
  <2>1. At("idle") /\ pt.session = 0 => term.raw = pt.saved /\ ~term.paste /\ ~term.other /\ ~term.progress /\ term.kitty = 0
    <3>1. HAVE At("idle") /\ pt.session = 0
    <3>2. life.at = "idle" /\ ~pt.pushed /\ ~pt.other BY <1>t, <3>1 DEF At, SessionLife
    <3>3. progress = "off" BY <1>t, <3>1, <3>2 DEF Progress, CallsTyped
    <3>4. term.raw = pt.saved /\ ~term.paste BY <1>t, <3>1 DEF RawPaste
    <3>5. ~term.other /\ term.kitty = 0 BY <1>t, <3>2 DEF Protocols
    <3>6. ~term.progress BY <1>t, <3>3 DEF Progress
    <3>7. QED BY <3>4, <3>5, <3>6
  <2>2. At("idle") /\ pt.session # 0 => term.raw /\ term.paste /\ (progress = "off" => ~term.progress)
    BY <1>t DEF At, RawPaste, Progress
  <2>3. (term.other => pt.other \/ At("stopping") \/ At("writing")) /\ (pt.other => term.other /\ ~pt.kitty)
        /\ (pt.kitty /\ ~outrun => term.kitty = 1)
    BY <1>t DEF At, Protocols
  <2>4. QED BY <2>1, <2>2, <2>3 DEF ModesKept
<1>2. KeysDelivered
  <2>1. forwarded \in Seq(Forwarded) /\ read \in Seq(Nat) BY <1>t DEF FlowTyped
  <2>2. \A i, j \in DOMAIN forwarded : i < j /\ forwarded[i].n # 0 /\ forwarded[j].n # 0 /\ forwarded[i].n >= forwarded[j].n =>
          forwarded[i].token.kind = "paste" /\ forwarded[j].token.kind = "prefix" /\ forwarded[i].n > forwarded[j].n
    <3>1. TAKE i, j \in DOMAIN forwarded
    <3>2. HAVE i < j /\ forwarded[i].n # 0 /\ forwarded[j].n # 0 /\ forwarded[i].n >= forwarded[j].n
    <3>3. Before(forwarded[i].token, forwarded[j].token) /\ forwarded[i].n = forwarded[i].token.n /\ forwarded[j].n = forwarded[j].token.n
      BY <1>t, <3>2 DEF Past
    <3>4. forwarded[i].n \in Nat /\ forwarded[j].n \in Nat BY <2>1, ForwardedTyped
    <3>5. QED BY <3>2, <3>3, <3>4 DEF Before
  <2>3. \A i \in DOMAIN forwarded : /\ forwarded[i].n # 0 => read[forwarded[i].n] = forwarded[i].to /\ forwarded[i].n \notin purged
                                    /\ forwarded[i].token.kind \notin {"kitty", "zero", "attributes"}
    BY <1>t DEF Past, Answers
  <2>4. \A n \in UnderWay : read[n] = pt.session /\ n \notin lost =>
          InQueue(n) \/ taken[pt.session].n = n \/ hearing[pt.session].what.n = n \/ hearing[pt.session].next.n = n \/ pt.held.n = n
    <3>1. TAKE n \in UnderWay
    <3>2. HAVE read[n] = pt.session /\ n \notin lost
    <3>3. n \in DOMAIN read /\ \A i \in DOMAIN forwarded : forwarded[i].n # n BY DEF UnderWay
    <3>4. pt.session # 0 BY <1>t, <3>2, <3>3 DEF Past, FieldsTyped
    <3>5. pt.session \in Sessions BY <1>t, <3>4, TerminalAssumption DEF SessionLife, Sessions, CallsTyped, FieldsTyped, Allowed
    <3>6. PICK w, x, h, t, q :
            w = hearing[pt.session].what /\ x = hearing[pt.session].next /\ h = pt.held /\ t = taken[pt.session] /\ q = inputData[pt.session]
      OBVIOUS
    <3>7. LineWhole(forwarded, w, x, h, t, q, lost) BY <1>t, <3>4, <3>6 DEF LineNow, LineGood
    <3>8. n \in {w.n, x.n, h.n, t.n} \/ \E j \in DOMAIN q : q[j].token.n = n BY <3>2, <3>3, <3>7 DEF LineWhole
    <3>9. QED BY <3>5, <3>6, <3>8 DEF InQueue
  <2>5. QED BY <2>2, <2>3, <2>4 DEF KeysDelivered
<1>3. QED BY <1>1, <1>2 DEF TerminalKept

\* The terminal (process_terminal.go) is left as it was found, whatever it was
\* asked, answered and drained of in between, and what is typed comes once and
\* in order to the handler of the session it was read in; only a stop or a
\* drain loses a key: in any number of sessions and for any channel.
THEOREM TerminalStays == TerminalSpec => []TerminalKept
<1>1. TerminalInit => TerminalInv BY TerminalInvAtFirst
<1>2. TerminalInv /\ [TerminalNext]_terminalVars => TerminalInv' BY TerminalStep
<1>3. TerminalInv => TerminalKept BY TerminalInvKept
<1>4. QED BY <1>1, <1>2, <1>3, PTL DEF TerminalSpec
=============================================================================
