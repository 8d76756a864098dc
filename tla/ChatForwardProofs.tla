-------------------------- MODULE ChatForwardProofs --------------------------
(***************************************************************************)
(* Proofs about ChatForward for any number of models, answers and steered  *)
(* messages.  They speak of the stream: what was pushed to the consumer,   *)
(* what is held back and what the loop pushed, in that order.  A push      *)
(* makes it longer, forward moves the two borders in it or drops the       *)
(* opening of a later attempt, and a failover cuts it off at the first.    *)
(***************************************************************************)
EXTENDS ChatForward, SequenceTheorems, TLAPS

Roles  == {"none", "user", "assistant", "tool"}
Msgs   == [role : Roles, of : Nat, n : Nat]
Told   == {"message_start", "message_end"}
Kinds  == {"agent_start", "turn_start", "message_update", "turn_end", "tool_start", "tool_end"} \cup Told
Ends   == [type : {"agent_end"}, message : Seq(Msgs), detail : BOOLEAN]
Events == [type : Kinds, message : Msgs, detail : BOOLEAN] \cup Ends
Points == {"asking", "speaking", "spoken", "calling", "continue", "boundary", "over"}

Shows  == out \o buffered
Stream == Shows \o feed

Typed ==
    /\ aborted \in BOOLEAN /\ meaningful \in BOOLEAN
    /\ attempt \in Nat \ {0} /\ steers \in Nat
    /\ loop \in [at : Points, turn : Nat \ {0}, said : Seq(Msgs)]
    /\ out \in Seq(Events) /\ buffered \in Seq(Events) /\ feed \in Seq(Events)

\* Only a loop that is over pushed its end, as its last event, with all it said.
EndIsLast ==
    \A p \in DOMAIN Stream : Stream[p].type = "agent_end" =>
        p = Len(Stream) /\ p > Len(Shows) /\ loop.at = "over" /\ Stream[p].message = loop.said

\* What the attempt said: the prompt first, and no message twice, as answers and
\* results are numbered by the turn and steered messages in their order.
Allowed(m, at, turn, heard) ==
    \/ m.role = "user" /\ m.of = 0 /\ m.n <= heard
    \/ /\ m.role = "assistant" /\ m.of = attempt
       /\ m.n < turn \/ (m.n = turn /\ at \notin {"asking", "speaking", "spoken"})
    \/ /\ m.role = "tool" /\ m.of = attempt
       /\ m.n < turn \/ (m.n = turn /\ at \notin {"asking", "speaking", "spoken", "calling"})
Answering == loop.at \in {"asking", "speaking", "spoken"}
Saying ==
    /\ loop.said # <<>> /\ loop.said[1] = Asked
    /\ \A i \in DOMAIN loop.said : Allowed(loop.said[i], loop.at, loop.turn, steers)
    /\ \A i, j \in DOMAIN loop.said : loop.said[i] = loop.said[j] => i = j

\* An answer or a tool's result is of the attempt, wherever it is.
OwnAttempt ==
    \A p \in DOMAIN Stream : Stream[p].type # "agent_end" /\ Stream[p].message.role \in {"assistant", "tool"}
                               => Stream[p].message.of = attempt

\* Until something meaningful, the stream is the opening and then at most the
\* three events of a failed answer, in this order.
Rank(e) ==
    IF e.type = "agent_end" THEN 4
    ELSE IF ~OfAssistant(e) THEN 0
    ELSE IF e.type = "message_start" THEN 1
    ELSE IF e.type = "message_end" THEN 2 ELSE 3
Plain(e) == \/ e.type = "agent_end" \/ isFailureCandidate(e)
            \/ isAttemptPrefix(e) /\ e.message \in {NoMsg, Asked}
Before(d, e) == Rank(d) < Rank(e) \/ (Rank(d) = 0 /\ Rank(e) = 0)
QuietTo(p) == \A k \in 1..p : ~meaningfulEvent(Stream[k])
Stage(at) == CASE at = "asking" -> 0 [] at = "speaking" -> 1 [] at = "over" -> 4 [] OTHER -> -1
Quiet ==
    /\ \A p \in DOMAIN Stream : QuietTo(p) =>
         Plain(Stream[p]) /\ \A q \in 1..(p - 1) : Before(Stream[q], Stream[p])
    /\ QuietTo(Len(Stream)) => \A p \in DOMAIN Stream : Rank(Stream[p]) <= Stage(loop.at)
    /\ loop.at \notin {"asking", "speaking", "over"} => ~QuietTo(Len(Stream))

\* forward shows nothing of an answer before it is meaningful.
HeldBack ==
    /\ meaningful <=> \E p \in DOMAIN out : meaningfulEvent(out[p])
    /\ meaningful => buffered = <<>>
    /\ ~meaningful => \A p \in DOMAIN out : Rank(out[p]) = 0
    /\ \A p \in DOMAIN buffered : isFailureCandidate(buffered[p]) /\ ~meaningfulEvent(buffered[p])

\* What the consumer has seen or will see of the stream, unless forward starts
\* over: the opening is in it once.
Live(p) == p <= Len(out) \/ attempt = 1 \/ ~isAttemptPrefix(Stream[p])
OneOpening ==
    \A p, q \in DOMAIN Stream : Live(p) /\ Live(q) /\ p # q /\ Opening(Stream[p]) => Stream[q] # Stream[p]

\* Its messages are those of the loop, in the order in which they were said; an
\* answer begins before it is complete.
Begun == IF loop.at \in {"speaking", "spoken"} THEN Append(loop.said, AnswerOf(loop.turn)) ELSE loop.said
SaidAt(type) == IF type = "message_start" THEN Begun ELSE loop.said
Tells(p, type) == Stream[p].type = type /\ Live(p)
Listed(type) ==
    \A p \in DOMAIN Stream : Tells(p, type) =>
        \E i \in DOMAIN SaidAt(type) : Stream[p].message = SaidAt(type)[i] /\ Visible(SaidAt(type)[i])
Ordered(type) ==
    \A p, q \in DOMAIN Stream, i, j \in DOMAIN SaidAt(type) :
        /\ p < q /\ Tells(p, type) /\ Tells(q, type)
        /\ Stream[p].message = SaidAt(type)[i] /\ Stream[q].message = SaidAt(type)[j]
        => i < j
Complete(type) ==
    \A i \in DOMAIN SaidAt(type) : Visible(SaidAt(type)[i]) =>
        \E p \in DOMAIN Stream : Tells(p, type) /\ Stream[p].message = SaidAt(type)[i]
InOrder == \A type \in Told : Listed(type) /\ Ordered(type) /\ Complete(type)

Going == EndIsLast /\ Saying /\ OwnAttempt /\ Quiet /\ HeldBack /\ OneOpening /\ InOrder
IInv ==
    /\ Typed
    /\ ~Ended => Going
    /\ Ended => FailedAttemptsHidden /\ ShownIsKept

------------------------------------------------------------------------------
(* The stream.                                                             *)

LEMMA Joined ==
  ASSUME NEW S, NEW s \in Seq(S), NEW t \in Seq(S)
  PROVE  /\ s \o t \in Seq(S) /\ Len(s) \in Nat /\ Len(t) \in Nat /\ Len(s \o t) = Len(s) + Len(t)
         /\ DOMAIN s = 1..Len(s) /\ DOMAIN t = 1..Len(t) /\ DOMAIN (s \o t) = 1..(Len(s) + Len(t))
         /\ \A p \in 1..Len(s) : (s \o t)[p] = s[p]
         /\ \A p \in 1..Len(t) : (s \o t)[Len(s) + p] = t[p]
  <1>1. /\ s \o t \in Seq(S) /\ Len(s \o t) = Len(s) + Len(t)
        /\ \A i \in 1..Len(s) + Len(t) : (s \o t)[i] = IF i <= Len(s) THEN s[i] ELSE t[i - Len(s)]
    BY ConcatProperties
  <1>2. /\ DOMAIN s = 1..Len(s) /\ DOMAIN t = 1..Len(t) /\ DOMAIN (s \o t) = 1..Len(s \o t)
        /\ Len(s) \in Nat /\ Len(t) \in Nat
    BY <1>1, LenProperties
  <1> QED BY <1>1, <1>2

\* Short sequences put together.
LEMMA Glued ==
  ASSUME NEW S, NEW s \in Seq(S), NEW t \in Seq(S), NEW u \in Seq(S), Len(u) = Len(s) + Len(t),
         \A i \in 1..Len(s) : u[i] = s[i], \A i \in 1..Len(t) : u[Len(s) + i] = t[i]
  PROVE  s \o t = u
  <1>1. /\ s \o t \in Seq(S) /\ Len(s \o t) = Len(s) + Len(t) /\ Len(s) \in Nat /\ Len(t) \in Nat
        /\ \A i \in 1 .. Len(s) + Len(t) : (s \o t)[i] = IF i <= Len(s) THEN s[i] ELSE t[i - Len(s)]
    BY ConcatProperties, LenProperties
  <1>2. ASSUME NEW i \in 1..Len(s) + Len(t) PROVE (s \o t)[i] = u[i]
    <2>1. CASE i <= Len(s)
      BY <1>1, <2>1
    <2>2. CASE i > Len(s)
      <3>1. i - Len(s) \in 1..Len(t) /\ Len(s) + (i - Len(s)) = i
        BY <1>1, <2>2
      <3>2. u[i] = t[i - Len(s)]
        BY <3>1
      <3> QED BY <1>1, <2>2, <3>2
    <2> QED BY <1>1, <2>1, <2>2
  <1> QED BY <1>1, <1>2, SeqEqual

LEMMA GluedOneOne == ASSUME NEW a, NEW b PROVE <<a>> \o <<b>> = <<a,b>>
  <1> DEFINE S == {a, b}
  <1>1. <<a>> \in Seq(S) /\ <<b>> \in Seq(S) /\ <<a, b>> \in Seq(S)
    OBVIOUS
  <1>2. Len(<<a, b>>) = Len(<<a>>) + Len(<<b>>)
    OBVIOUS
  <1>3. \A i \in 1..Len(<<a>>) : <<a, b>>[i] = <<a>>[i]
    OBVIOUS
  <1>4. \A i \in 1..Len(<<b>>) : <<a, b>>[Len(<<a>>) + i] = <<b>>[i]
    OBVIOUS
  <1> HIDE DEF S
  <1> QED BY <1>1, <1>2, <1>3, <1>4, Glued

LEMMA GluedTwoTwo == ASSUME NEW a, NEW b, NEW c, NEW d PROVE <<a,b>> \o <<c,d>> = <<a,b,c,d>>
  <1> DEFINE S == {a, b, c, d}
  <1>1. <<a,b>> \in Seq(S) /\ <<c, d>> \in Seq(S) /\ <<a, b, c, d>> \in Seq(S)
    OBVIOUS
  <1>2. Len(<<a, b, c, d>>) = Len(<<a, b>>) + Len(<<c, d>>)
    OBVIOUS
  <1>3. \A i \in 1..Len(<<a, b>>) : <<a, b, c, d>>[i] = <<a, b>>[i]
    OBVIOUS
  <1>4. \A i \in 1..Len(<<c, d>>) : <<a, b, c, d>>[Len(<<a, b>>) + i] = <<c, d>>[i]
    OBVIOUS
  <1> HIDE DEF S
  <1> QED BY <1>1, <1>2, <1>3, <1>4, Glued

LEMMA GluedOneTwoOne == ASSUME NEW a, NEW b, NEW c, NEW d PROVE <<a>> \o <<b, c>> \o <<d>> = <<a,b,c,d>>
  <1> DEFINE S == {a, b, c, d}
             l == <<a, b, c>>
  <1>1. <<a>> \in Seq(S) /\ <<b, c>> \in Seq(S) /\ l \in Seq(S) /\ <<d>> \in Seq(S) /\ <<a, b, c, d>> \in Seq(S)
    OBVIOUS
  <1>2. <<a>> \o <<b, c>> = l
    <2>1. Len(l) = Len(<<a>>) + Len(<<b, c>>) /\ \A i \in 1..Len(<<a>>) : l[i] = <<a>>[i]
      OBVIOUS
    <2>2. \A i \in 1..Len(<<b, c>>) : l[Len(<<a>>) + i] = <<b, c>>[i]
      OBVIOUS
    <2> HIDE DEF S, l
    <2> QED BY <1>1, <2>1, <2>2, Glued
  <1>3. Len(<<a, b, c, d>>) = Len(l) + Len(<<d>>) /\ \A i \in 1..Len(l) : <<a, b, c, d>>[i] = l[i]
    OBVIOUS
  <1>4. \A i \in 1..Len(<<d>>) : <<a, b, c, d>>[Len(l) + i] = <<d>>[i]
    OBVIOUS
  <1>5. l \o <<d>> = <<a, b, c, d>>
    <2> HIDE DEF S, l
    <2> QED BY <1>1, <1>3, <1>4, Glued
  <1> QED BY <1>2, <1>5

\* Where the three parts are.
LEMMA Places ==
  ASSUME Typed
  PROVE  /\ Shows \in Seq(Events) /\ Stream \in Seq(Events)
         /\ Len(out) \in Nat /\ Len(buffered) \in Nat /\ Len(feed) \in Nat
         /\ Len(Shows) = Len(out) + Len(buffered) /\ Len(Stream) = Len(Shows) + Len(feed)
         /\ DOMAIN Stream = 1..Len(Stream)
         /\ \A p \in DOMAIN out : p \in 1..Len(out) /\ p \in DOMAIN Stream /\ Stream[p] = out[p]
         /\ \A p \in 1..Len(out) : p \in DOMAIN out
         /\ \A p \in DOMAIN buffered : Len(out) + p \in DOMAIN Stream /\ Stream[Len(out) + p] = buffered[p]
         /\ DOMAIN buffered = 1..Len(buffered)
         /\ \A p \in DOMAIN feed : Len(Shows) + p \in DOMAIN Stream /\ Stream[Len(Shows) + p] = feed[p]
         /\ DOMAIN feed = 1..Len(feed)
  <1>1. out \in Seq(Events) /\ buffered \in Seq(Events) /\ feed \in Seq(Events)
    BY DEF Typed
  <1>2. /\ Shows \in Seq(Events) /\ Len(out) \in Nat /\ Len(buffered) \in Nat /\ Len(Shows) = Len(out) + Len(buffered)
        /\ DOMAIN out = 1..Len(out) /\ DOMAIN buffered = 1..Len(buffered)
        /\ \A p \in 1..Len(out) : Shows[p] = out[p]
        /\ \A p \in 1..Len(buffered) : Shows[Len(out) + p] = buffered[p]
    BY <1>1, Joined DEF Shows
  <1>3. /\ Stream \in Seq(Events) /\ Len(feed) \in Nat /\ Len(Stream) = Len(Shows) + Len(feed)
        /\ DOMAIN feed = 1..Len(feed) /\ DOMAIN Stream = 1..Len(Stream)
        /\ \A p \in 1..Len(Shows) : Stream[p] = Shows[p]
        /\ \A p \in 1..Len(feed) : Stream[Len(Shows) + p] = feed[p]
    <2>1. Shows \in Seq(Events) /\ feed \in Seq(Events)
      BY <1>1, <1>2
    <2> QED BY <2>1, Joined DEF Stream
  <1> QED BY <1>2, <1>3, SMTT(40)

LEMMA EventFacts ==
  ASSUME NEW e \in Events
  PROVE  /\ e.type # "agent_end" => e.type \in Kinds /\ e.message \in Msgs
         /\ e.type = "agent_end" => e.message \in Seq(Msgs)
         /\ e.detail \in BOOLEAN
         /\ "agent_end" \notin Kinds
  <1>1. "agent_end" \notin Kinds
    BY DEF Kinds, Told
  <1>2. CASE e \in Ends
    BY <1>1, <1>2 DEF Ends
  <1>3. CASE e \in [type : Kinds, message : Msgs, detail : BOOLEAN]
    BY <1>1, <1>3
  <1> QED BY <1>2, <1>3 DEF Events

LEMMA StreamEvents ==
  ASSUME Typed, NEW p \in DOMAIN Stream
  PROVE  Stream[p] \in Events /\ p \in Nat /\ p >= 1 /\ p <= Len(Stream)
  BY Places, ElementOfSeq

------------------------------------------------------------------------------
(* A push.                                                                 *)

\* Events come to the end of the stream.
Grows(events) ==
    /\ Len(Stream) \in Nat /\ Len(events) \in Nat /\ Len(Shows) \in Nat /\ Len(Shows) <= Len(Stream)
    /\ DOMAIN Stream = 1..Len(Stream) /\ DOMAIN events = 1..Len(events)
    /\ DOMAIN Stream' = 1..(Len(Stream) + Len(events)) /\ Len(Stream') = Len(Stream) + Len(events)
    /\ \A p \in 1..Len(Stream) : Stream'[p] = Stream[p]
    /\ \A c \in 1..Len(events) : Stream'[Len(Stream) + c] = events[c]
    /\ UNCHANGED <<Shows, out, attempt>> /\ Len(out) \in Nat /\ Len(out) <= Len(Stream)

LEMMA PushGrows ==
  ASSUME Typed, NEW events \in Seq(Events), feed' = feed \o events, UNCHANGED <<out, buffered, attempt>>
  PROVE  Grows(events)
  <1>1. Stream' = Stream \o events
    <2>1. Shows' = Shows
      BY DEF Shows
    <2>2. Shows \in Seq(Events) /\ feed \in Seq(Events)
      BY Places DEF Typed
    <2>3. (Shows \o feed) \o events = Shows \o (feed \o events)
      BY <2>2, ConcatAssociative
    <2>4. Stream' = Shows \o (feed \o events)
      BY <2>1 DEF Stream
    <2> QED BY <2>3, <2>4 DEF Stream
  <1>2. Stream \in Seq(Events)
    BY Places
  <1>3. /\ Len(Stream') = Len(Stream) + Len(events) /\ Len(events) \in Nat /\ DOMAIN events = 1..Len(events)
        /\ DOMAIN Stream' = 1..(Len(Stream) + Len(events))
        /\ \A p \in 1..Len(Stream) : Stream'[p] = Stream[p]
        /\ \A c \in 1..Len(events) : Stream'[Len(Stream) + c] = events[c]
    BY <1>1, <1>2, Joined
  <1>4. Shows' = Shows
    BY DEF Shows
  <1> QED BY <1>3, <1>4, Places DEF Grows

\* A position in the longer stream is an old one or one of the new events.
LEMMA Position ==
  ASSUME NEW events, Grows(events), NEW p \in DOMAIN Stream'
  PROVE  \/ p \in DOMAIN Stream /\ Stream'[p] = Stream[p] /\ p <= Len(Stream)
         \/ /\ p - Len(Stream) \in DOMAIN events /\ Stream'[p] = events[p - Len(Stream)]
            /\ p > Len(Stream) /\ p \notin DOMAIN Stream
  BY DEF Grows

LEMMA PushEnds ==
  ASSUME EndIsLast, NEW events, Grows(events), loop.at # "over",
         \A c \in DOMAIN events : events[c].type = "agent_end" =>
            c = Len(events) /\ loop'.at = "over" /\ events[c].message = loop'.said
  PROVE  EndIsLast'
  <1> SUFFICES ASSUME NEW p \in DOMAIN Stream', Stream'[p].type = "agent_end"
               PROVE  p = Len(Stream') /\ p > Len(Shows') /\ loop'.at = "over" /\ Stream'[p].message = loop'.said
    BY DEF EndIsLast
  <1>1. p \notin DOMAIN Stream
    BY Position DEF EndIsLast
  <1>2. p - Len(Stream) \in DOMAIN events /\ Stream'[p] = events[p - Len(Stream)]
    BY <1>1, Position
  <1>3. p - Len(Stream) = Len(events) /\ loop'.at = "over" /\ Stream'[p].message = loop'.said
    BY <1>2
  <1> QED BY <1>1, <1>2, <1>3 DEF Grows

LEMMA PushOwn ==
  ASSUME OwnAttempt, NEW events, Grows(events),
         \A c \in DOMAIN events : events[c].type # "agent_end" /\ events[c].message.role \in {"assistant", "tool"}
                                   => events[c].message.of = attempt
  PROVE  OwnAttempt'
  <1> SUFFICES ASSUME NEW p \in DOMAIN Stream', Stream'[p].type # "agent_end",
                      Stream'[p].message.role \in {"assistant", "tool"}
               PROVE  Stream'[p].message.of = attempt'
    BY DEF OwnAttempt
  <1>1. attempt' = attempt
    BY DEF Grows
  <1> QED BY <1>1, Position DEF OwnAttempt

QuietIn(events, n) == \A k \in 1..n : ~meaningfulEvent(events[k])
Slow == {"asking", "speaking"}
Soft(events, at) ==
    /\ \A c \in DOMAIN events : QuietIn(events, c) =>
         /\ Plain(events[c]) /\ Rank(events[c]) > Stage(loop.at)
         /\ \A b \in 1..(c - 1) : Rank(events[b]) < Rank(events[c])
    /\ QuietIn(events, Len(events)) => /\ at \in Slow \cup {"over"} /\ Stage(loop.at) <= Stage(at)
                                      /\ \A c \in DOMAIN events : Rank(events[c]) <= Stage(at)

LEMMA Ranks ==
  /\ \A e : Rank(e) \in Nat
  /\ \A at : at \in Slow \cup {"over"} => Stage(at) \in Nat
  BY DEF Rank, Stage, Slow

LEMMA PushQuiet ==
  ASSUME Quiet, NEW events, Grows(events), loop.at # "over", loop.at \in Slow => Soft(events, loop'.at)
  PROVE  Quiet'
  <1>1. ASSUME NEW p \in DOMAIN Stream PROVE QuietTo(p)' <=> QuietTo(p)
    BY <1>1 DEF QuietTo, Grows, meaningfulEvent, OfAssistant
  <1>2. ASSUME NEW p \in DOMAIN Stream', p > Len(Stream), QuietTo(p)'
        PROVE  /\ QuietTo(Len(Stream)) /\ loop.at \in Slow /\ Soft(events, loop'.at)
               /\ QuietIn(events, p - Len(Stream))
    <2>1. \A k \in 1..Len(Stream) : k \in 1..p /\ Stream'[k] = Stream[k]
      BY <1>2 DEF Grows
    <2>2. QuietTo(Len(Stream))
      BY <1>2, <2>1 DEF QuietTo, meaningfulEvent, OfAssistant
    <2>3. loop.at \in Slow
      BY <2>2 DEF Quiet, Slow
    <2>4. \A k \in 1..(p - Len(Stream)) : Len(Stream) + k \in 1..p /\ Stream'[Len(Stream) + k] = events[k]
      BY <1>2 DEF Grows
    <2>5. QuietIn(events, p - Len(Stream))
      BY <1>2, <2>4 DEF QuietTo, QuietIn, meaningfulEvent, OfAssistant
    <2> QED BY <2>2, <2>3, <2>5
  <1>3. ASSUME NEW p \in DOMAIN Stream', QuietTo(p)'
        PROVE  Plain(Stream'[p]) /\ \A q \in 1..(p - 1) : Before(Stream'[q], Stream'[p])
    <2>1. CASE p \in DOMAIN Stream
      <3>1. QuietTo(p) /\ Stream'[p] = Stream[p] /\ \A q \in 1..(p - 1) : Stream'[q] = Stream[q]
        BY <1>1, <1>3, <2>1 DEF Grows
      <3> QED BY <2>1, <3>1 DEF Quiet
    <2>2. CASE p \notin DOMAIN Stream
      <3> DEFINE c == p - Len(Stream)
      <3>1. p > Len(Stream) /\ c \in DOMAIN events /\ Stream'[p] = events[c]
        BY <2>2, Position
      <3>2. /\ QuietTo(Len(Stream)) /\ loop.at \in Slow /\ Soft(events, loop'.at) /\ QuietIn(events, c)
        BY <1>2, <1>3, <3>1
      <3>3. /\ Plain(events[c]) /\ Rank(events[c]) > Stage(loop.at)
            /\ \A b \in 1..(c - 1) : Rank(events[b]) < Rank(events[c])
        BY <3>1, <3>2 DEF Soft
      <3>4. ASSUME NEW q \in 1..(p - 1) PROVE Rank(Stream'[q]) < Rank(Stream'[p])
        <4>1. CASE q <= Len(Stream)
          <5>1. q \in DOMAIN Stream /\ Stream'[q] = Stream[q]
            BY <4>1 DEF Grows
          <5>2. Rank(Stream[q]) <= Stage(loop.at)
            BY <3>2, <5>1 DEF Quiet
          <5> QED BY <3>1, <3>2, <3>3, <5>1, <5>2, Ranks
        <4>2. CASE q > Len(Stream)
          <5>1. q - Len(Stream) \in 1..(c - 1) /\ q \in DOMAIN Stream' /\ q \notin DOMAIN Stream
            BY <3>1, <4>2 DEF Grows
          <5>2. Stream'[q] = events[q - Len(Stream)]
            BY <5>1, Position
          <5> QED BY <3>1, <3>3, <5>1, <5>2
        <4> QED BY <4>1, <4>2 DEF Grows
      <3> QED BY <3>1, <3>3, <3>4 DEF Before
    <2> QED BY <2>1, <2>2
  <1>4. ASSUME NEW n \in Nat, n = Len(Stream'), QuietTo(n)'
        PROVE  /\ loop'.at \in Slow \cup {"over"}
               /\ \A p \in DOMAIN Stream' : Rank(Stream'[p]) <= Stage(loop'.at)
    <2>1. CASE Len(events) = 0
      <3>1. n = Len(Stream) /\ DOMAIN Stream' = DOMAIN Stream /\ DOMAIN events = {} /\ \A k \in 1..n : Stream'[k] = Stream[k]
        BY <1>4, <2>1 DEF Grows
      <3>5. QuietTo(Len(Stream))
        BY <1>4, <3>1 DEF QuietTo, meaningfulEvent, OfAssistant
      <3>2. loop.at \in Slow /\ Soft(events, loop'.at) /\ QuietIn(events, Len(events))
        BY <2>1, <3>5 DEF Quiet, Slow, QuietIn
      <3>3. loop'.at \in Slow \cup {"over"} /\ Stage(loop.at) <= Stage(loop'.at)
        BY <3>2 DEF Soft
      <3>4. ASSUME NEW p \in DOMAIN Stream' PROVE Rank(Stream'[p]) <= Stage(loop'.at)
        <4>1. Stream'[p] = Stream[p] /\ Rank(Stream[p]) <= Stage(loop.at)
          BY <3>1, <3>5 DEF Quiet, Grows
        <4> QED BY <3>2, <3>3, <4>1, Ranks
      <3> QED BY <3>3, <3>4
    <2>2. CASE Len(events) > 0
      <3>1. n \in DOMAIN Stream' /\ n > Len(Stream) /\ n - Len(Stream) = Len(events)
        BY <1>4, <2>2 DEF Grows
      <3>2. QuietTo(Len(Stream)) /\ loop.at \in Slow /\ Soft(events, loop'.at) /\ QuietIn(events, Len(events))
        BY <1>2, <1>4, <3>1
      <3>3. /\ loop'.at \in Slow \cup {"over"} /\ Stage(loop.at) <= Stage(loop'.at)
            /\ \A c \in DOMAIN events : Rank(events[c]) <= Stage(loop'.at)
        BY <3>2 DEF Soft
      <3>4. ASSUME NEW p \in DOMAIN Stream' PROVE Rank(Stream'[p]) <= Stage(loop'.at)
        <4>1. CASE p \in DOMAIN Stream
          <5>1. Stream'[p] = Stream[p] /\ Rank(Stream[p]) <= Stage(loop.at)
            BY <3>2, <4>1, Position DEF Quiet
          <5> QED BY <3>2, <3>3, <5>1, Ranks
        <4>2. CASE p \notin DOMAIN Stream
          BY <3>3, <4>2, Position
        <4> QED BY <4>1, <4>2
      <3> QED BY <3>3, <3>4
    <2> QED BY <2>1, <2>2 DEF Grows
  <1>5. Len(Stream') \in Nat /\ (QuietTo(Len(Stream))' => \A n \in Nat : n = Len(Stream') => QuietTo(n)')
    BY DEF Grows, QuietTo
  <1>6. QuietTo(Len(Stream))' => /\ loop'.at \in Slow \cup {"over"}
                                /\ \A p \in DOMAIN Stream' : Rank(Stream'[p]) <= Stage(loop'.at)
    BY <1>4, <1>5
  <1> QED BY <1>3, <1>6 DEF Quiet, Slow, Rank, Stage, Before, Plain, isFailureCandidate, isAttemptPrefix, OfAssistant, NoMsg, Asked, Msg

LEMMA PushLive ==
  ASSUME NEW events, Grows(events), NEW p \in DOMAIN Stream
  PROVE  Live(p)' <=> Live(p)
  BY DEF Grows, Live, isAttemptPrefix

LEMMA PushOpening ==
  ASSUME OneOpening, NEW events, Grows(events), \A c \in DOMAIN events : ~Opening(events[c])
  PROVE  OneOpening'
  <1> SUFFICES ASSUME NEW p \in DOMAIN Stream', NEW q \in DOMAIN Stream', Live(p)', Live(q)', p # q, Opening(Stream'[p]),
                      Stream'[q] = Stream'[p]
               PROVE  FALSE
    BY DEF OneOpening, Opening
  <1>1. \A k \in DOMAIN Stream' : Opening(Stream'[k]) => k \in DOMAIN Stream /\ Stream'[k] = Stream[k]
    BY Position
  <1>2. p \in DOMAIN Stream /\ q \in DOMAIN Stream /\ Stream'[p] = Stream[p] /\ Stream'[q] = Stream[q]
    BY <1>1
  <1> QED BY <1>2, PushLive DEF OneOpening

\* The events tell no message of the kind, or the one that is new.
SaysNew(events, type, m) ==
    /\ SaidAt(type)' = Append(SaidAt(type), m) /\ m \in Msgs
    /\ \A i \in DOMAIN SaidAt(type) : SaidAt(type)[i] # m
    /\ \E k \in DOMAIN events : events[k].message = m /\ \A c \in DOMAIN events : events[c].type = type <=> c = k
SaysNothing(events, type) ==
    SaidAt(type)' = SaidAt(type) /\ \A c \in DOMAIN events : events[c].type # type
Says(events, type) == SaysNothing(events, type) \/ \E m \in Msgs : SaysNew(events, type, m)

InOrderFor(type) == Listed(type) /\ Ordered(type) /\ Complete(type)

LEMMA PushTells ==
  ASSUME NEW events, Grows(events), NEW type, NEW p \in DOMAIN Stream
  PROVE  Stream'[p] = Stream[p] /\ (Tells(p, type)' <=> Tells(p, type))
  BY PushLive DEF Grows, Tells

LEMMA PushNothing ==
  ASSUME NEW events, Grows(events), NEW type \in Told, InOrderFor(type), SaysNothing(events, type)
  PROVE  InOrderFor(type)'
  <1>1. \A p \in DOMAIN Stream' : Tells(p, type)' => p \in DOMAIN Stream
    BY Position DEF Tells, SaysNothing
  <1>2. \A p \in DOMAIN Stream : p \in DOMAIN Stream' /\ Stream'[p] = Stream[p] /\ (Tells(p, type)' <=> Tells(p, type))
    BY PushTells DEF Grows
  <1>3. SaidAt(type)' = SaidAt(type) /\ attempt' = attempt
    BY DEF SaysNothing, Grows
  <1>4. Listed(type)'
    BY <1>1, <1>2, <1>3 DEF InOrderFor, Listed, Visible
  <1>5. Ordered(type)'
    BY <1>1, <1>2, <1>3 DEF InOrderFor, Ordered
  <1>6. Complete(type)'
    BY <1>1, <1>2, <1>3 DEF InOrderFor, Complete, Visible
  <1> QED BY <1>4, <1>5, <1>6 DEF InOrderFor

LEMMA PushNew ==
  ASSUME NEW events, Grows(events), NEW type \in Told, InOrderFor(type), NEW m \in Msgs, SaysNew(events, type, m),
         SaidAt(type) \in Seq(Msgs), \E i \in DOMAIN SaidAt(type) : SaidAt(type)[i] = Asked
  PROVE  InOrderFor(type)'
  <1> DEFINE old == SaidAt(type)
             new == Append(old, m)
             last == Len(old) + 1
  <1>1. /\ SaidAt(type)' = new /\ attempt' = attempt /\ m # Asked
        /\ \A i \in DOMAIN old : old[i] # m
    BY DEF SaysNew, Grows
  <1>2. /\ Len(old) \in Nat /\ DOMAIN old = 1..Len(old) /\ DOMAIN new = 1..last /\ new[last] = m
        /\ \A i \in DOMAIN old : new[i] = old[i]
    <2> HIDE DEF old
    <2>1. old \in Seq(Msgs)
      BY DEF old
    <2> QED BY <2>1
  <1> HIDE DEF new, old
  <1>3. PICK k \in DOMAIN events : events[k].message = m /\ \A c \in DOMAIN events : events[c].type = type <=> c = k
    BY DEF SaysNew
  <1>4a. PICK at \in Nat : at = Len(Stream) + k
    BY DEF Grows
  <1>4. /\ at \in DOMAIN Stream' /\ Stream'[at] = events[k] /\ at > Len(Stream) /\ at \in Nat
    BY <1>4a DEF Grows
  <1>5. ASSUME NEW p \in DOMAIN Stream', Tells(p, type)', p \notin DOMAIN Stream PROVE p = at
    <2>1. p - Len(Stream) \in DOMAIN events /\ Stream'[p] = events[p - Len(Stream)]
      BY <1>5, Position
    <2>2. p - Len(Stream) = k
      BY <1>3, <1>5, <2>1 DEF Tells
    <2> QED BY <1>4a, <2>2 DEF Grows
  <1>6. \A p \in DOMAIN Stream : /\ p \in DOMAIN Stream' /\ Stream'[p] = Stream[p] /\ (Tells(p, type)' <=> Tells(p, type))
                                /\ p < at
    BY <1>4, PushTells, SMTT(40) DEF Grows
  <1>7. Stream'[at].message = m /\ new[last] = m /\ last \in DOMAIN new /\ \A i \in DOMAIN old : i \in DOMAIN new
    BY <1>2, <1>3, <1>4
  <1>8. Listed(type)'
    <2> SUFFICES ASSUME NEW p \in DOMAIN Stream', Tells(p, type)'
                 PROVE  \E i \in DOMAIN new : Stream'[p].message = new[i] /\ Visible(new[i])
      BY <1>1 DEF Listed, Visible
    <2>1. CASE p = at
      <3>1. attempt = 1 \/ ~isAttemptPrefix(Stream'[at]) \/ at <= Len(out')
        BY <1>1, <2>1 DEF Tells, Live
      <3>2. Stream'[at].type \in Told /\ ~(at <= Len(out'))
        BY <1>3, <1>4 DEF Grows
      <3>3. attempt = 1 \/ m.role # "user"
        BY <1>7, <3>1, <3>2 DEF isAttemptPrefix, Told
      <3> QED BY <1>7, <2>1, <3>3 DEF Visible
    <2>2. CASE p \in DOMAIN Stream
      <3>1. PICK i \in DOMAIN old : Stream[p].message = old[i] /\ Visible(old[i])
        BY <1>6, <2>2 DEF InOrderFor, Listed, old
      <3> QED BY <1>2, <1>6, <1>7, <2>2, <3>1
    <2> QED BY <1>5, <2>1, <2>2
  <1>9. Ordered(type)'
    <2> SUFFICES ASSUME NEW p \in DOMAIN Stream', NEW q \in DOMAIN Stream', NEW i \in DOMAIN new, NEW j \in DOMAIN new,
                        p < q, Tells(p, type)', Tells(q, type)', Stream'[p].message = new[i], Stream'[q].message = new[j]
                 PROVE  i < j
      BY <1>1 DEF Ordered
    <2>1. p \in DOMAIN Stream
      BY <1>4, <1>5, <1>6 DEF Grows
    <2>2. PICK h \in DOMAIN old : Stream[p].message = old[h]
      BY <1>6, <2>1 DEF InOrderFor, Listed, old
    <2>3. i # last /\ i \in DOMAIN old /\ Stream[p].message = old[i]
      BY <1>1, <1>2, <1>6, <2>1, <2>2
    <2>4. CASE q = at
      BY <1>1, <1>2, <1>7, <2>3, <2>4
    <2>5. CASE q \in DOMAIN Stream
      <3>1. PICK g \in DOMAIN old : Stream[q].message = old[g]
        BY <1>6, <2>5 DEF InOrderFor, Listed, old
      <3>2. j # last /\ j \in DOMAIN old /\ Stream[q].message = old[j]
        BY <1>1, <1>2, <1>6, <2>5, <3>1
      <3> QED BY <1>6, <2>1, <2>3, <2>5, <3>2 DEF InOrderFor, Ordered, old
    <2> QED BY <1>5, <2>4, <2>5
  <1>10. Complete(type)'
    <2> SUFFICES ASSUME NEW i \in DOMAIN new, Visible(new[i])
                 PROVE  \E p \in DOMAIN Stream' : Tells(p, type)' /\ Stream'[p].message = new[i]
      BY <1>1 DEF Complete, Visible
    <2>1. CASE i \in DOMAIN old
      <3>1. PICK p \in DOMAIN Stream : Tells(p, type) /\ Stream[p].message = old[i]
        BY <1>2, <2>1 DEF InOrderFor, Complete, old
      <3> QED BY <1>2, <1>6, <2>1, <3>1
    <2>2. CASE i = last
      <3>1. attempt = 1 \/ m.role # "user"
        BY <1>1, <1>7, <2>2 DEF Visible
      <3>2. Stream'[at].type = type /\ (attempt' = 1 \/ ~isAttemptPrefix(Stream'[at]))
        BY <1>1, <1>3, <1>4, <1>7, <3>1 DEF isAttemptPrefix, Told
      <3>3. Tells(at, type)'
        BY <3>2 DEF Tells, Live
      <3> QED BY <1>4, <1>7, <2>2, <3>3
    <2> QED BY <1>2, <2>1, <2>2
  <1> QED BY <1>8, <1>9, <1>10 DEF InOrderFor

Fits(events) ==
    /\ events \in Seq(Events)
    /\ \A c \in DOMAIN events :
         /\ events[c].type = "agent_end" => c = Len(events) /\ loop'.at = "over" /\ events[c].message = loop'.said
         /\ ~Opening(events[c])
         /\ events[c].type # "agent_end" /\ events[c].message.role \in {"assistant", "tool"}
              => events[c].message.of = attempt
    /\ loop.at \in Slow => Soft(events, loop'.at)
    /\ \A type \in Told : Says(events, type)

LEMMA SaidFacts ==
  ASSUME Typed, Saying
  PROVE  /\ loop.said \in Seq(Msgs) /\ Len(loop.said) \in Nat \ {0} /\ DOMAIN loop.said = 1..Len(loop.said)
         /\ 1 \in DOMAIN loop.said /\ loop.said[1] = Asked /\ AnswerOf(loop.turn) \in Msgs
         /\ \A type \in Told : /\ SaidAt(type) \in Seq(Msgs) /\ 1 \in DOMAIN SaidAt(type)
                              /\ SaidAt(type)[1] = Asked
  <1>1. /\ loop.said \in Seq(Msgs) /\ Len(loop.said) \in Nat \ {0} /\ DOMAIN loop.said = 1..Len(loop.said)
        /\ 1 \in DOMAIN loop.said /\ loop.said[1] = Asked
    BY EmptySeq, LenProperties DEF Typed, Saying
  <1>2. AnswerOf(loop.turn) \in Msgs
    BY DEF Typed, AnswerOf, Msg, Msgs, Roles
  <1>3. \A m \in Msgs : Append(loop.said, m) \in Seq(Msgs) /\ 1 \in DOMAIN Append(loop.said, m) /\ Append(loop.said, m)[1] = Asked
    BY <1>1, AppendProperties, LenProperties
  <1>4. Begun \in Seq(Msgs) /\ 1 \in DOMAIN Begun /\ Begun[1] = Asked
    BY <1>1, <1>2, <1>3 DEF Begun
  <1> QED BY <1>1, <1>2, <1>4 DEF SaidAt

LEMMA PushInv ==
  ASSUME IInv, ~Ended, loop.at # "over", NEW events, Fits(events), feed' = feed \o events,
         loop' \in [at : Points, turn : Nat \ {0}, said : Seq(Msgs)], steers' \in Nat, UNCHANGED <<aborted, forwardVars>>, Saying'
  PROVE  IInv'
  <1>1. Typed /\ Going
    BY DEF IInv
  <1>2. UNCHANGED <<aborted, attempt, buffered, meaningful, out, kept>>
    BY DEF forwardVars
  <1>3. Typed'
    BY <1>1, <1>2, ConcatProperties DEF Typed, Fits
  <1>4. Grows(events)
    BY <1>1, <1>2, PushGrows DEF Fits
  <1>5. EndIsLast'
    BY <1>1, <1>4, PushEnds DEF Going, Fits
  <1>6. OwnAttempt'
    BY <1>1, <1>4, PushOwn DEF Going, Fits
  <1>7. Quiet'
    BY <1>1, <1>4, PushQuiet DEF Going, Fits
  <1>8. HeldBack'
    BY <1>1, <1>2 DEF Going, HeldBack, meaningfulEvent, Rank, isFailureCandidate, OfAssistant
  <1>9. OneOpening'
    BY <1>1, <1>4, PushOpening DEF Going, Fits
  <1>10. InOrder'
    <2> SUFFICES ASSUME NEW type \in Told PROVE InOrderFor(type)'
      BY DEF InOrder, InOrderFor
    <2>1. InOrderFor(type)
      BY <1>1 DEF Going, InOrder, InOrderFor
    <2>2. CASE SaysNothing(events, type)
      BY <1>4, <2>1, <2>2, PushNothing
    <2>3. ASSUME NEW m \in Msgs, SaysNew(events, type, m) PROVE InOrderFor(type)'
      <3>1. SaidAt(type) \in Seq(Msgs) /\ \E i \in DOMAIN SaidAt(type) : SaidAt(type)[i] = Asked
        BY <1>1, SaidFacts DEF Going
      <3> QED BY <1>4, <2>1, <2>3, <3>1, PushNew
    <2> QED BY <2>2, <2>3 DEF Fits, Says
  <1>11. ~Ended'
    BY <1>2 DEF Ended
  <1> QED BY <1>3, <1>5, <1>6, <1>7, <1>8, <1>9, <1>10, <1>11 DEF IInv, Going

\* What an attempt may say stays so while it goes on; what it says is new.
LEMMA SaysMore ==
  ASSUME Typed, Saying, NEW m \in Msgs, loop'.said = Append(loop.said, m), UNCHANGED attempt,
         \A i \in DOMAIN loop.said : loop.said[i] # m, Allowed(m, loop'.at, loop'.turn, steers'),
         \A i \in DOMAIN loop.said : Allowed(loop.said[i], loop'.at, loop'.turn, steers')
  PROVE  Saying'
  <1> DEFINE old == loop.said
             new == Append(old, m)
  <1>1. old \in Seq(Msgs) /\ Len(old) \in Nat \ {0} /\ DOMAIN old = 1..Len(old) /\ old[1] = Asked
    BY SaidFacts
  <1> HIDE DEF old
  <1>2. /\ DOMAIN new = 1..(Len(old) + 1) /\ new[Len(old) + 1] = m
        /\ \A i \in 1..Len(old) : new[i] = old[i]
    BY <1>1
  <1>3. new # <<>> /\ new[1] = Asked
    BY <1>1, <1>2
  <1>4. \A i \in DOMAIN new : Allowed(new[i], loop'.at, loop'.turn, steers')
    BY <1>1, <1>2 DEF old
  <1>5. \A i \in 1..Len(old) : old[i] # m /\ \A j \in 1..Len(old) : old[i] = old[j] => i = j
    BY <1>1 DEF Saying, old
  <1>6. \A i, j \in DOMAIN new : new[i] = new[j] => i = j
    BY <1>1, <1>2, <1>5
  <1>7. loop'.said = new
    BY DEF old
  <1> QED BY <1>3, <1>4, <1>6, <1>7 DEF Saying, Allowed, Asked, Msg

LEMMA SaysSame ==
  ASSUME Typed, Saying, loop'.said = loop.said, UNCHANGED attempt,
         \A i \in DOMAIN loop.said : Allowed(loop.said[i], loop'.at, loop'.turn, steers')
  PROVE  Saying'
  BY DEF Saying, Allowed, Asked, Msg

------------------------------------------------------------------------------
(* The loop's pushes.                                                      *)

\* The events of the attempt's own answer, in the turn it is in.
LEMMA AnswerEvents ==
  ASSUME Typed, NEW type \in {"message_start", "message_update", "message_end", "turn_end"}, NEW detail \in BOOLEAN
  PROVE  LET e == RunEvent(type, AnswerOf(loop.turn), detail) IN
         /\ e \in Events /\ e.type = type /\ e.message = AnswerOf(loop.turn) /\ ~Opening(e)
         /\ e.message.of = attempt /\ type # "agent_end"
         /\ meaningfulEvent(e) <=> (\/ (type = "message_start" /\ detail)
                                   \/ type = "message_update"
                                   \/ (type = "message_end" /\ ~detail))
         /\ type # "message_update" => Plain(e)
         /\ type = "message_start" => Rank(e) = 1
         /\ type = "message_end" => Rank(e) = 2
         /\ type = "turn_end" => Rank(e) = 3
  <1> DEFINE e == RunEvent(type, AnswerOf(loop.turn), detail)
  <1>1. e.type = type /\ e.message = AnswerOf(loop.turn) /\ e.detail = detail
    BY DEF RunEvent
  <1>2. AnswerOf(loop.turn) \in Msgs /\ AnswerOf(loop.turn).role = "assistant" /\ AnswerOf(loop.turn).of = attempt
    BY DEF Typed, AnswerOf, Msg, Msgs, Roles
  <1>3. e \in Events
    BY <1>2 DEF RunEvent, Events, Kinds, Told
  <1>4. ~Opening(e)
    BY <1>1, <1>2 DEF Opening, Asked, Msg
  <1>5. OfAssistant(e)
    BY <1>1, <1>2 DEF OfAssistant
  <1> HIDE DEF e
  <1>6. meaningfulEvent(e) <=> (\/ (type = "message_start" /\ detail)
                               \/ type = "message_update"
                               \/ (type = "message_end" /\ ~detail))
    BY <1>1, <1>5 DEF meaningfulEvent
  <1>7. type # "message_update" => Plain(e)
    BY <1>1, <1>5 DEF Plain, isFailureCandidate
  <1>8. /\ type = "message_start" => Rank(e) = 1
        /\ type = "message_end" => Rank(e) = 2
        /\ type = "turn_end" => Rank(e) = 3
    BY <1>1, <1>5 DEF Rank
  <1> QED BY <1>1, <1>2, <1>3, <1>4, <1>6, <1>7, <1>8 DEF e

\* No answer of this turn was said before it is, no result before its call, no
\* steered message before it is heard.
LEMMA NewAnswer ==
  ASSUME Typed, Saying, Answering
  PROVE  /\ \A i \in DOMAIN loop.said : loop.said[i] # AnswerOf(loop.turn)
         /\ \A i \in DOMAIN loop.said, at \in Points : Allowed(loop.said[i], at, loop.turn, steers)
         /\ \A at \in Points : at \notin {"asking", "speaking", "spoken"} => Allowed(AnswerOf(loop.turn), at, loop.turn, steers)
  <1>1. /\ AnswerOf(loop.turn).role = "assistant" /\ AnswerOf(loop.turn).n = loop.turn /\ AnswerOf(loop.turn).of = attempt
        /\ loop.turn \in Nat
    BY DEF AnswerOf, Msg, Typed
  <1>2. \A i \in DOMAIN loop.said : Allowed(loop.said[i], loop.at, loop.turn, steers) /\ loop.said[i] \in Msgs
    BY SaidFacts DEF Saying
  <1> QED BY <1>1, <1>2 DEF Allowed, Answering, Msgs

LEMMA StartsInv == ASSUME IInv, LoopStarts PROVE IInv'
  <1>1. PICK content \in BOOLEAN : Push(Announce(content), [loop EXCEPT !.at = "speaking"])
    BY DEF LoopStarts
  <1> DEFINE e == RunEvent("message_start", AnswerOf(loop.turn), content)
             events == <<e>>
  <1>2. /\ loop.at = "asking" /\ ~Ended /\ feed' = feed \o events /\ UNCHANGED <<aborted, forwardVars, steers>>
        /\ loop' = [loop EXCEPT !.at = "speaking"] /\ Typed /\ Saying /\ Answering
    BY <1>1 DEF LoopStarts, Push, Announce, IInv, Going, Answering
  <1>3. /\ loop' \in [at : Points, turn : Nat \ {0}, said : Seq(Msgs)] /\ loop'.at = "speaking"
        /\ loop'.turn = loop.turn /\ loop'.said = loop.said
    BY <1>2 DEF Typed, Points
  <1>4. /\ e \in Events /\ e.type = "message_start" /\ e.message = AnswerOf(loop.turn) /\ ~Opening(e)
        /\ e.message.of = attempt /\ (meaningfulEvent(e) <=> content) /\ Plain(e) /\ Rank(e) = 1
    BY <1>2, AnswerEvents
  <1> HIDE DEF e
  <1>5. events \in Seq(Events) /\ DOMAIN events = {1} /\ Len(events) = 1 /\ events[1] = e
    BY <1>4
  <1> HIDE DEF events
  <1>6. Soft(events, "speaking")
    BY <1>2, <1>4, <1>5 DEF Soft, Stage, Slow, QuietIn
  <1>7. SaysNew(events, "message_start", AnswerOf(loop.turn)) /\ AnswerOf(loop.turn) \in Msgs
    <2>1. SaidAt("message_start")' = Append(loop.said, AnswerOf(loop.turn)) /\ SaidAt("message_start") = loop.said
      BY <1>2, <1>3 DEF SaidAt, Begun, forwardVars, AnswerOf
    <2> QED BY <1>2, <1>4, <1>5, <2>1, NewAnswer, SaidFacts DEF SaysNew
  <1>8. SaysNothing(events, "message_end")
    BY <1>3, <1>4, <1>5 DEF SaysNothing, SaidAt
  <1>9. Fits(events)
    BY <1>3, <1>4, <1>5, <1>6, <1>7, <1>8 DEF Fits, Says, Told
  <1>10. Saying'
    BY <1>2, <1>3, NewAnswer, SaysSame DEF forwardVars, Points
  <1> QED BY <1>2, <1>3, <1>9, <1>10, PushInv DEF Typed

LEMMA SpeaksInv == ASSUME IInv, LoopSpeaks PROVE IInv'
  <1> DEFINE e == RunEvent("message_update", AnswerOf(loop.turn), FALSE)
             events == <<e>>
  <1>2. /\ loop.at = "speaking" /\ ~Ended /\ feed' = feed \o events /\ UNCHANGED <<aborted, forwardVars, steers>>
        /\ loop' = [loop EXCEPT !.at = "spoken"] /\ Typed /\ Saying /\ Answering
    BY DEF LoopSpeaks, Push, IInv, Going, Answering
  <1>3. /\ loop' \in [at : Points, turn : Nat \ {0}, said : Seq(Msgs)] /\ loop'.at = "spoken"
        /\ loop'.turn = loop.turn /\ loop'.said = loop.said
    BY <1>2 DEF Typed, Points
  <1>4. /\ e \in Events /\ e.type = "message_update" /\ ~Opening(e)
        /\ e.message.of = attempt /\ meaningfulEvent(e)
    BY <1>2, AnswerEvents
  <1> HIDE DEF e
  <1>5. events \in Seq(Events) /\ DOMAIN events = {1} /\ Len(events) = 1 /\ events[1] = e
    BY <1>4
  <1> HIDE DEF events
  <1>6. Soft(events, "spoken")
    BY <1>4, <1>5 DEF Soft, QuietIn
  <1>7. SaysNothing(events, "message_start")
    <2>1. SaidAt("message_start")' = SaidAt("message_start")
      BY <1>2, <1>3 DEF SaidAt, Begun, forwardVars, AnswerOf
    <2> QED BY <1>4, <1>5, <2>1 DEF SaysNothing
  <1>8. SaysNothing(events, "message_end")
    BY <1>3, <1>4, <1>5 DEF SaysNothing, SaidAt
  <1>9. Fits(events)
    BY <1>3, <1>4, <1>5, <1>6, <1>7, <1>8 DEF Fits, Says, Told
  <1>10. Saying'
    BY <1>2, <1>3, NewAnswer, SaysSame DEF forwardVars, Points
  <1> QED BY <1>2, <1>3, <1>9, <1>10, PushInv DEF Typed

\* An answer that was not announced is announced with its end.
LEMMA AnswerPlaces ==
  ASSUME Typed, NEW content \in BOOLEAN, NEW base \in Seq(Events), Answering
  PROVE  LET events == Unannounced(content) \o base
             d == Len(Unannounced(content)) IN
         /\ events \in Seq(Events) /\ d \in {0, 1} /\ (d = 1 <=> loop.at = "asking")
         /\ Len(base) \in Nat /\ DOMAIN base = 1..Len(base)
         /\ Len(events) = d + Len(base) /\ DOMAIN events = 1..(d + Len(base))
         /\ \A c \in 1..Len(base) : events[d + c] = base[c]
         /\ d = 1 => events[1] = RunEvent("message_start", AnswerOf(loop.turn), content)
  <1> DEFINE pre == Unannounced(content)
             e == RunEvent("message_start", AnswerOf(loop.turn), content)
  <1>1. e \in Events
    BY AnswerEvents
  <1>2. pre = IF loop.at = "asking" THEN <<e>> ELSE <<>>
    BY DEF Unannounced, Announce
  <1> HIDE DEF pre, e
  <1>3. pre \in Seq(Events) /\ Len(pre) \in {0, 1} /\ (Len(pre) = 1 <=> loop.at = "asking") /\ (Len(pre) = 1 => pre[1] = e)
    BY <1>1, <1>2
  <1>4. /\ pre \o base \in Seq(Events) /\ Len(base) \in Nat /\ Len(pre \o base) = Len(pre) + Len(base)
        /\ DOMAIN base = 1..Len(base) /\ DOMAIN (pre \o base) = 1..(Len(pre) + Len(base))
        /\ \A k \in 1..Len(pre) : (pre \o base)[k] = pre[k]
        /\ \A k \in 1..Len(base) : (pre \o base)[Len(pre) + k] = base[k]
    BY <1>3, Joined
  <1> QED BY <1>3, <1>4 DEF pre, e

\* Its end tells the answer, which the loop's messages now have.
LEMMA AnswerSaid ==
  ASSUME Typed, Saying, Answering, UNCHANGED attempt, NEW content \in BOOLEAN, NEW base \in Seq(Events), Len(base) > 0,
         base[1].type = "message_end", base[1].message = AnswerOf(loop.turn),
         \A c \in DOMAIN base : c > 1 => base[c].type \notin Told,
         loop'.said = Append(loop.said, AnswerOf(loop.turn)), loop'.at \notin {"speaking", "spoken"}
  PROVE  \A type \in Told : Says(Unannounced(content) \o base, type)
  <1> DEFINE events == Unannounced(content) \o base
             d == Len(Unannounced(content))
             A == AnswerOf(loop.turn)
             s == RunEvent("message_start", A, content)
  <1>1. /\ d \in {0, 1} /\ (d = 1 <=> loop.at = "asking") /\ Len(base) \in Nat /\ DOMAIN base = 1..Len(base)
        /\ Len(events) = d + Len(base) /\ DOMAIN events = 1..(d + Len(base))
        /\ \A c \in 1..Len(base) : events[d + c] = base[c]
        /\ d = 1 => events[1] = s
    BY AnswerPlaces
  <1>2. A \in Msgs /\ \A i \in DOMAIN loop.said : loop.said[i] # A
    BY SaidFacts, NewAnswer
  <1>3. s.type = "message_start" /\ s.message = A
    BY DEF RunEvent
  <1>4. /\ SaidAt("message_end") = loop.said /\ SaidAt("message_end")' = Append(loop.said, A)
        /\ SaidAt("message_start")' = Append(loop.said, A)
        /\ SaidAt("message_start") = IF loop.at = "asking" THEN loop.said ELSE Append(loop.said, A)
    BY DEF SaidAt, Begun, Answering
  <1>4a. loop.at # "asking" => SaidAt("message_start")' = SaidAt("message_start")
    BY DEF SaidAt, Begun, Answering
  <1> HIDE DEF events, d, A, s
  <1>5. ASSUME NEW c \in DOMAIN events PROVE (d = 1 /\ c = 1 /\ events[c] = s) \/ (c - d \in DOMAIN base /\ events[c] = base[c - d])
    <2>1. CASE c <= d
      BY <1>1, <2>1
    <2>2. CASE c > d
      <3>1. c - d \in 1..Len(base) /\ d + (c - d) = c
        BY <1>1, <2>2
      <3> QED BY <1>1, <3>1
    <2> QED BY <1>1, <2>1, <2>2
  <1>6. Says(events, "message_end")
    <2>1. d + 1 \in DOMAIN events /\ events[d + 1].message = A
      BY <1>1 DEF A
    <2>2. ASSUME NEW c \in DOMAIN events PROVE events[c].type = "message_end" <=> c = d + 1
      <3>1. CASE d = 1 /\ c = 1 /\ events[c] = s
        BY <1>3, <3>1
      <3>2. CASE c - d \in DOMAIN base /\ events[c] = base[c - d]
        BY <1>1, <3>2 DEF Told
      <3> QED BY <1>5, <3>1, <3>2
    <2>3. SaysNew(events, "message_end", A)
      BY <1>2, <1>4, <2>1, <2>2 DEF SaysNew
    <2> QED BY <1>2, <2>3 DEF Says
  <1>7. Says(events, "message_start")
    <2>1. ASSUME NEW c \in DOMAIN events PROVE events[c].type = "message_start" <=> (d = 1 /\ c = 1)
      <3>1. CASE d = 1 /\ c = 1 /\ events[c] = s
        BY <1>3, <3>1
      <3>2. CASE c - d \in DOMAIN base /\ events[c] = base[c - d]
        BY <1>1, <3>2 DEF Told
      <3> QED BY <1>5, <3>1, <3>2
    <2>2. CASE d = 1
      <3>1. 1 \in DOMAIN events /\ events[1].message = A
        BY <1>1, <1>3, <2>2
      <3>2. SaysNew(events, "message_start", A)
        BY <1>1, <1>2, <1>4, <2>1, <2>2, <3>1 DEF SaysNew
      <3> QED BY <1>2, <3>2 DEF Says
    <2>3. CASE d = 0
      <3>1. \A c \in DOMAIN events : events[c].type # "message_start"
        BY <2>1, <2>3
      <3>2. SaidAt("message_start")' = SaidAt("message_start")
        BY <1>1, <1>4a, <2>3
      <3> QED BY <3>1, <3>2 DEF Says, SaysNothing
    <2> QED BY <1>1, <2>2, <2>3
  <1> QED BY <1>6, <1>7 DEF Told, events

\* The answer itself fits in what was said.
LEMMA AnswerAllowed ==
  ASSUME Typed, Saying, Answering, UNCHANGED <<attempt, steers>>, loop'.said = Append(loop.said, AnswerOf(loop.turn)),
         loop'.turn = loop.turn, loop'.at \in Points, loop'.at \notin {"asking", "speaking", "spoken"}
  PROVE  Saying'
  <1>1. /\ AnswerOf(loop.turn) \in Msgs /\ \A i \in DOMAIN loop.said : loop.said[i] # AnswerOf(loop.turn)
        /\ Allowed(AnswerOf(loop.turn), loop'.at, loop'.turn, steers')
        /\ \A i \in DOMAIN loop.said : Allowed(loop.said[i], loop'.at, loop'.turn, steers')
    BY SaidFacts, NewAnswer
  <1> QED BY <1>1, SaysMore

\* The end of the loop, with the messages it said.
LEMMA EndEvent ==
  ASSUME NEW said \in Seq(Msgs), NEW detail \in BOOLEAN
  PROVE  LET e == RunEvent("agent_end", said, detail) IN
         /\ e \in Events /\ e.type = "agent_end" /\ e.message = said /\ ~Opening(e)
         /\ ~meaningfulEvent(e) /\ Plain(e) /\ Rank(e) = 4
  BY DEF RunEvent, Events, Ends, Opening, meaningfulEvent, Plain, Rank

LEMMA FailsInv == ASSUME IInv, LoopFails PROVE IInv'
  <1> DEFINE A == AnswerOf(loop.turn)
             said == Append(loop.said, A)
             m == RunEvent("message_end", A, TRUE)
             t == RunEvent("turn_end", A, TRUE)
             e == RunEvent("agent_end", said, TRUE)
             base == <<m, t, e>>
  <1>1. PICK content \in BOOLEAN : Push(Unannounced(content) \o base, Loop("over", loop.turn, said))
    BY DEF LoopFails
  <1> DEFINE events == Unannounced(content) \o base
             d == Len(Unannounced(content))
             s == RunEvent("message_start", A, content)
  <1>2. /\ Answering /\ ~Ended /\ feed' = feed \o events /\ UNCHANGED <<aborted, forwardVars, steers, attempt>>
        /\ loop' = Loop("over", loop.turn, said) /\ Typed /\ Saying
    BY <1>1 DEF LoopFails, Push, IInv, Going, Answering, forwardVars
  <1>3. A \in Msgs /\ said \in Seq(Msgs)
    BY <1>2, SaidFacts, AppendProperties
  <1>4. /\ loop' \in [at : Points, turn : Nat \ {0}, said : Seq(Msgs)] /\ loop'.at = "over"
        /\ loop'.turn = loop.turn /\ loop'.said = said
    BY <1>2, <1>3 DEF Typed, Points, Loop
  <1>5. /\ m \in Events /\ m.type = "message_end" /\ m.message = A /\ ~Opening(m) /\ m.message.of = attempt
        /\ ~meaningfulEvent(m) /\ Plain(m) /\ Rank(m) = 2
    BY <1>2, AnswerEvents
  <1>6. /\ t \in Events /\ t.type = "turn_end" /\ ~Opening(t) /\ t.message.of = attempt
        /\ ~meaningfulEvent(t) /\ Plain(t) /\ Rank(t) = 3
    BY <1>2, AnswerEvents
  <1>7. /\ e \in Events /\ e.type = "agent_end" /\ e.message = said /\ ~Opening(e)
        /\ ~meaningfulEvent(e) /\ Plain(e) /\ Rank(e) = 4
    BY <1>3, EndEvent
  <1>8. /\ s.type = "message_start" /\ ~Opening(s) /\ s.message.of = attempt
        /\ (meaningfulEvent(s) <=> content) /\ Plain(s) /\ Rank(s) = 1
    BY <1>2, AnswerEvents
  <1>s. \A type \in Told : Says(events, type)
    <2> HIDE DEF m, t, e
    <2>1. base \in Seq(Events) /\ Len(base) > 0 /\ base[1] = m /\ \A c \in DOMAIN base : c > 1 => base[c] \in {t, e}
      BY <1>5, <1>6, <1>7
    <2> HIDE DEF base
    <2> QED BY <1>2, <1>4, <1>5, <1>6, <1>7, <2>1, AnswerSaid DEF Told
  <1> HIDE DEF m, t, e, s
  <1>9. base \in Seq(Events) /\ Len(base) = 3 /\ base[1] = m /\ base[2] = t /\ base[3] = e
    BY <1>5, <1>6, <1>7
  <1> HIDE DEF base
  <1>10. /\ events \in Seq(Events) /\ d \in {0, 1} /\ (d = 1 <=> loop.at = "asking")
         /\ Len(events) = d + 3 /\ DOMAIN events = 1..(d + 3)
         /\ events[d + 1] = m /\ events[d + 2] = t /\ events[d + 3] = e /\ (d = 1 => events[1] = s)
    <2>1. /\ events \in Seq(Events) /\ d \in {0, 1} /\ (d = 1 <=> loop.at = "asking")
          /\ Len(events) = d + Len(base) /\ DOMAIN events = 1..(d + Len(base))
          /\ \A c \in 1..Len(base) : events[d + c] = base[c]
          /\ d = 1 => events[1] = s
      BY <1>2, <1>9, AnswerPlaces DEF s
    <2> QED BY <1>9, <2>1
  <1> HIDE DEF events, d
  <1>11. \A c \in DOMAIN events : (c = 1 /\ d = 1 /\ events[c] = s) \/ (c = d + 1 /\ events[c] = m) \/ (c = d + 2 /\ events[c] = t)
                                \/ (c = d + 3 /\ events[c] = e)
    BY <1>10
  <1>12. loop.at \in Slow => Soft(events, "over")
    <2>1. CASE d = 1
      <3>1. DOMAIN events = 1..4 /\ events[1] = s /\ events[2] = m /\ events[3] = t /\ events[4] = e /\ loop.at = "asking"
        BY <1>10, <2>1
      <3>2. \A c \in 1..4 : Plain(events[c]) /\ Rank(events[c]) = c
        BY <3>1, <1>5, <1>6, <1>7, <1>8
      <3> QED BY <3>1, <3>2 DEF Soft, Stage
    <2>2. CASE d = 0
      <3>1. DOMAIN events = 1..3 /\ events[1] = m /\ events[2] = t /\ events[3] = e /\ loop.at # "asking"
        BY <1>10, <2>2
      <3>2. \A c \in 1..3 : Plain(events[c]) /\ Rank(events[c]) = c + 1
        BY <3>1, <1>5, <1>6, <1>7
      <3> QED BY <3>1, <3>2 DEF Soft, Stage, Slow
    <2> QED BY <1>10, <2>1, <2>2
  <1>13. \A c \in DOMAIN events :
            /\ events[c].type = "agent_end" => c = Len(events) /\ loop'.at = "over" /\ events[c].message = loop'.said
            /\ ~Opening(events[c])
            /\ events[c].type # "agent_end" /\ events[c].message.role \in {"assistant", "tool"}
                 => events[c].message.of = attempt
    BY <1>4, <1>5, <1>6, <1>7, <1>8, <1>10, <1>11
  <1>14. Fits(events)
    BY <1>s, <1>4, <1>10, <1>12, <1>13 DEF Fits
  <1>15. Saying'
    BY <1>2, <1>4, AnswerAllowed
  <1> QED BY <1>2, <1>4, <1>14, <1>15, PushInv DEF Answering, Typed

LEMMA AnswersInv == ASSUME IInv, LoopAnswers PROVE IInv'
  <1> DEFINE A == AnswerOf(loop.turn)
             said == Append(loop.said, A)
             m == RunEvent("message_end", A, FALSE)
             base == <<m>>
  <1>1. PICK at \in {"calling", "boundary"}, content \in BOOLEAN : Push(Unannounced(content) \o base, Loop(at, loop.turn, said))
    BY DEF LoopAnswers
  <1> DEFINE events == Unannounced(content) \o base
             d == Len(Unannounced(content))
             s == RunEvent("message_start", A, content)
  <1>2. /\ Answering /\ ~Ended /\ feed' = feed \o events /\ UNCHANGED <<aborted, forwardVars, steers, attempt>>
        /\ loop' = Loop(at, loop.turn, said) /\ Typed /\ Saying
    BY <1>1 DEF LoopAnswers, Push, IInv, Going, Answering, forwardVars
  <1>3. A \in Msgs /\ said \in Seq(Msgs)
    BY <1>2, SaidFacts, AppendProperties
  <1>4. /\ loop' \in [at : Points, turn : Nat \ {0}, said : Seq(Msgs)] /\ loop'.at = at
        /\ loop'.turn = loop.turn /\ loop'.said = said
    BY <1>2, <1>3 DEF Typed, Points, Loop
  <1>5. /\ m \in Events /\ m.type = "message_end" /\ m.message = A /\ ~Opening(m) /\ m.message.of = attempt
        /\ meaningfulEvent(m)
    BY <1>2, AnswerEvents
  <1>6. /\ s.type = "message_start" /\ ~Opening(s) /\ s.message.of = attempt
        /\ (meaningfulEvent(s) <=> content) /\ Plain(s) /\ Rank(s) = 1
    BY <1>2, AnswerEvents
  <1> HIDE DEF m, s
  <1>7. base \in Seq(Events) /\ Len(base) = 1 /\ base[1] = m /\ DOMAIN base = {1}
    BY <1>5
  <1> HIDE DEF base
  <1>s. \A type \in Told : Says(events, type)
    <2>1. base[1].type = "message_end" /\ base[1].message = A /\ Len(base) > 0
          /\ \A c \in DOMAIN base : c > 1 => base[c].type \notin Told
      BY <1>5, <1>7
    <2>2. loop'.said = Append(loop.said, AnswerOf(loop.turn)) /\ loop'.at \notin {"speaking", "spoken"}
      BY <1>4
    <2> QED BY <1>2, <1>7, <2>1, <2>2, AnswerSaid
  <1>8. /\ events \in Seq(Events) /\ d \in {0, 1} /\ (d = 1 <=> loop.at = "asking")
        /\ Len(events) = d + 1 /\ DOMAIN events = 1..(d + 1) /\ events[d + 1] = m /\ (d = 1 => events[1] = s)
    <2>1. /\ events \in Seq(Events) /\ d \in {0, 1} /\ (d = 1 <=> loop.at = "asking")
          /\ Len(events) = d + Len(base) /\ DOMAIN events = 1..(d + Len(base))
          /\ \A c \in 1..Len(base) : events[d + c] = base[c]
          /\ d = 1 => events[1] = s
      BY <1>2, <1>7, AnswerPlaces DEF s
    <2> QED BY <1>7, <2>1
  <1> HIDE DEF events, d
  <1>9. \A c \in DOMAIN events : (c = 1 /\ d = 1 /\ events[c] = s) \/ (c = d + 1 /\ events[c] = m)
    BY <1>8
  <1>10. loop.at \in Slow => Soft(events, at)
    <2>1. ASSUME NEW c \in DOMAIN events, QuietIn(events, c)
          PROVE  c = 1 /\ d = 1 /\ events[c] = s /\ c # Len(events)
      BY <1>5, <1>8, <1>9, <2>1 DEF QuietIn
    <2>2. ~QuietIn(events, Len(events))
      BY <1>5, <1>8 DEF QuietIn
    <2>3. \A c \in DOMAIN events : QuietIn(events, c) => Plain(events[c]) /\ Rank(events[c]) > Stage(loop.at)
      BY <1>6, <1>8, <2>1 DEF Stage
    <2> QED BY <1>8, <2>1, <2>2, <2>3 DEF Soft
  <1>11. \A c \in DOMAIN events :
            /\ events[c].type # "agent_end" /\ ~Opening(events[c]) /\ events[c].message.of = attempt
    BY <1>5, <1>6, <1>9
  <1>12. Fits(events)
    BY <1>s, <1>4, <1>8, <1>10, <1>11 DEF Fits
  <1>13. Saying'
    BY <1>2, <1>4, AnswerAllowed DEF Points
  <1> QED BY <1>2, <1>4, <1>12, <1>13, PushInv DEF Answering, Typed

LEMMA AnyEvent ==
  ASSUME NEW type \in Kinds, NEW m \in Msgs, NEW detail \in BOOLEAN
  PROVE  LET e == RunEvent(type, m, detail) IN
         /\ e \in Events /\ e.type = type /\ e.type # "agent_end" /\ e.message = m
         /\ type # "agent_start" /\ m # Asked => ~Opening(e)
  BY EventFacts DEF RunEvent, Events, Opening

\* A message is shown with its beginning and its end.
LEMMA ShownSays ==
  ASSUME Typed, Saying, loop.at \notin {"speaking", "spoken"}, loop'.at \notin {"speaking", "spoken"},
         NEW m \in Msgs, \A i \in DOMAIN loop.said : loop.said[i] # m, loop'.said = Append(loop.said, m),
         NEW events, NEW k \in Nat, k \in DOMAIN events, k + 1 \in DOMAIN events,
         events[k] = RunEvent("message_start", m, FALSE), events[k + 1] = RunEvent("message_end", m, FALSE),
         \A c \in DOMAIN events : c \notin {k, k + 1} => events[c].type \notin Told
  PROVE  \A type \in Told : Says(events, type)
  <1>1. \A type \in Told : SaidAt(type) = loop.said /\ SaidAt(type)' = Append(loop.said, m)
    BY DEF SaidAt, Begun
  <1>2. /\ events[k].type = "message_start" /\ events[k].message = m
        /\ events[k + 1].type = "message_end" /\ events[k + 1].message = m
    BY DEF RunEvent
  <1>3. /\ \A c \in DOMAIN events : events[c].type = "message_start" <=> c = k
        /\ \A c \in DOMAIN events : events[c].type = "message_end" <=> c = k + 1
    BY <1>2 DEF Told
  <1>4. SaysNew(events, "message_start", m) /\ SaysNew(events, "message_end", m)
    BY <1>1, <1>2, <1>3 DEF SaysNew, Told
  <1> QED BY <1>4 DEF Says, Told

LEMMA SayNothing ==
  ASSUME loop.at \notin {"speaking", "spoken"}, loop'.at \notin {"speaking", "spoken"}, loop'.said = loop.said,
         NEW events, \A c \in DOMAIN events : events[c].type \notin Told
  PROVE  \A type \in Told : Says(events, type)
  BY DEF SaidAt, Begun, Says, SaysNothing

\* The events a loop pushes that does not ask.
LEMMA BusyFits ==
  ASSUME loop.at \notin Slow, NEW events \in Seq(Events), \A type \in Told : Says(events, type),
         \A c \in DOMAIN events :
            /\ events[c].type # "agent_end" /\ ~Opening(events[c])
            /\ events[c].message.role \in {"assistant", "tool"} => events[c].message.of = attempt
  PROVE  Fits(events)
  BY DEF Fits

LEMMA CallsInv == ASSUME IInv, LoopCalls PROVE IInv'
  <1> DEFINE R == ResultOf(loop.turn)
             e1 == RunEvent("tool_start", R, FALSE)
             e2 == RunEvent("tool_end", R, FALSE)
             e3 == RunEvent("message_start", R, FALSE)
             e4 == RunEvent("message_end", R, FALSE)
             events == <<e1, e2, e3, e4>>
  <1>1. Push(<<e1, e2>> \o Shown(R), Loop("continue", loop.turn, Append(loop.said, R))) /\ loop.at = "calling"
        /\ UNCHANGED steers
    BY DEF LoopCalls
  <1>2. <<e1, e2>> \o Shown(R) = events
    BY GluedTwoTwo DEF Shown
  <1>3. /\ ~Ended /\ feed' = feed \o events /\ UNCHANGED <<aborted, forwardVars, steers, attempt>>
        /\ loop' = Loop("continue", loop.turn, Append(loop.said, R)) /\ Typed /\ Saying
    BY <1>1, <1>2 DEF Push, IInv, Going, forwardVars
  <1>4. R \in Msgs /\ R.role = "tool" /\ R.of = attempt /\ R.n = loop.turn /\ R # Asked /\ loop.turn \in Nat \ {0}
    BY <1>3 DEF Typed, ResultOf, Msg, Msgs, Roles, Asked
  <1> HIDE DEF R
  <1>5. /\ loop' \in [at : Points, turn : Nat \ {0}, said : Seq(Msgs)] /\ loop'.at = "continue"
        /\ loop'.turn = loop.turn /\ loop'.said = Append(loop.said, R)
    BY <1>3, <1>4, SaidFacts, AppendProperties DEF Points, Loop
  <1>6. \A e \in {e1, e2, e3, e4} : e \in Events /\ e.type # "agent_end" /\ e.message = R /\ ~Opening(e)
    <2>1. {"tool_start", "tool_end", "message_start", "message_end"} \subseteq Kinds
      BY DEF Kinds, Told
    <2>2. ASSUME NEW type \in {"tool_start", "tool_end", "message_start", "message_end"}
          PROVE  LET e == RunEvent(type, R, FALSE) IN
                   e \in Events /\ e.type # "agent_end" /\ e.message = R /\ ~Opening(e)
      <3>1. type \in Kinds /\ type # "agent_end"
        BY <2>1
      <3> QED BY <1>4, <3>1, AnyEvent
    <2> QED BY <2>2
  <1>7. e1.type \notin Told /\ e2.type \notin Told
    BY DEF RunEvent, Told
  <1> HIDE DEF e1, e2
  <1>8. events \in Seq(Events) /\ DOMAIN events = 1..4 /\ events[1] = e1 /\ events[2] = e2 /\ events[3] = e3 /\ events[4] = e4
    <2> HIDE DEF e3, e4
    <2> QED BY <1>6
  <1> HIDE DEF events
  <1>9. \A i \in DOMAIN loop.said : loop.said[i] \in Msgs /\ Allowed(loop.said[i], "calling", loop.turn, steers)
    BY <1>1, <1>3, SaidFacts DEF Saying
  <1>10. \A i \in DOMAIN loop.said : loop.said[i] # R
    BY <1>4, <1>9 DEF Allowed
  <1>11. \A type \in Told : Says(events, type)
    <2>1. /\ 3 \in DOMAIN events /\ 3 + 1 \in DOMAIN events /\ events[3] = e3 /\ events[3 + 1] = e4
          /\ \A c \in DOMAIN events : c \notin {3, 3 + 1} => events[c].type \notin Told
      <3> HIDE DEF e3, e4
      <3> QED BY <1>7, <1>8
    <2>2. loop.at \notin {"speaking", "spoken"} /\ loop'.at \notin {"speaking", "spoken"}
      BY <1>1, <1>5
    <2> QED BY <1>3, <1>4, <1>5, <1>10, <2>1, <2>2, ShownSays
  <1>12. Fits(events)
    <2> HIDE DEF e3, e4
    <2>1. \A c \in DOMAIN events : events[c] \in {e1, e2, e3, e4}
      BY <1>8
    <2>2. loop.at \notin Slow
      BY <1>1 DEF Slow
    <2> QED BY <1>4, <1>6, <1>8, <1>11, <2>1, <2>2, BusyFits
  <1>13. Saying'
    <2>1. /\ Allowed(R, "continue", loop.turn, steers)
          /\ \A i \in DOMAIN loop.said : Allowed(loop.said[i], "continue", loop.turn, steers)
      BY <1>4, <1>9 DEF Allowed
    <2> QED BY <1>3, <1>4, <1>5, <1>10, <2>1, SaysMore
  <1> QED BY <1>1, <1>3, <1>5, <1>12, <1>13, PushInv DEF Typed

\* The events between two turns, and after the last.
LEMMA TurnEvents ==
  ASSUME Typed
  PROVE  /\ LET e == RunEvent("turn_end", AnswerOf(loop.turn), FALSE) IN
            /\ TurnEnd = <<e>> /\ e \in Events /\ e.type = "turn_end" /\ ~Opening(e) /\ e.message.of = attempt
            /\ e.type \notin Told /\ e.type # "agent_end"
         /\ LET e == RunEvent("turn_start", NoMsg, FALSE) IN
            /\ e \in Events /\ e.type = "turn_start" /\ ~Opening(e) /\ e.message.role = "none"
            /\ e.type \notin Told /\ e.type # "agent_end"
  <1>1. NoMsg \in Msgs /\ NoMsg # Asked /\ NoMsg.role = "none"
    BY DEF NoMsg, Asked, Msg, Msgs, Roles
  <1>2. LET e == RunEvent("turn_start", NoMsg, FALSE) IN
        e \in Events /\ e.type = "turn_start" /\ ~Opening(e) /\ e.message = NoMsg
    BY <1>1, AnyEvent DEF Kinds
  <1>3. LET e == RunEvent("turn_end", AnswerOf(loop.turn), FALSE) IN
        /\ TurnEnd = <<e>> /\ e \in Events /\ e.type = "turn_end" /\ ~Opening(e) /\ e.message.of = attempt
    BY AnswerEvents DEF TurnEnd
  <1> QED BY <1>1, <1>2, <1>3 DEF Told

LEMMA ContinuesInv == ASSUME IInv, LoopContinues PROVE IInv'
  <1> DEFINE t == RunEvent("turn_end", AnswerOf(loop.turn), FALSE)
             n == RunEvent("turn_start", NoMsg, FALSE)
  <1>1. Typed /\ Saying /\ ~Ended /\ loop.at \in {"continue", "boundary"} /\ loop.turn \in Nat \ {0} /\ steers \in Nat
    BY DEF LoopContinues, Push, IInv, Going, Typed
  <1>2. /\ TurnEnd = <<t>> /\ t \in Events /\ ~Opening(t) /\ t.message.of = attempt /\ t.type \notin Told /\ t.type # "agent_end"
        /\ n \in Events /\ ~Opening(n) /\ n.message.role = "none" /\ n.type \notin Told /\ n.type # "agent_end"
    BY <1>1, TurnEvents
  <1>3. \A i \in DOMAIN loop.said : loop.said[i] \in Msgs /\ Allowed(loop.said[i], loop.at, loop.turn, steers)
    BY <1>1, SaidFacts DEF Saying
  <1>4. \A i \in DOMAIN loop.said : /\ Allowed(loop.said[i], "asking", loop.turn + 1, steers)
                                   /\ Allowed(loop.said[i], "asking", loop.turn + 1, steers + 1)
    BY <1>1, <1>3 DEF Allowed, Msgs
  <1> HIDE DEF t
  <1>5. ASSUME Push(TurnEnd \o <<n>>, Loop("asking", loop.turn + 1, loop.said)), UNCHANGED steers PROVE IInv'
    <2> HIDE DEF n
    <2> DEFINE events == <<t, n>>
    <2>1. /\ feed' = feed \o events /\ UNCHANGED <<aborted, forwardVars, steers, attempt>>
          /\ loop' = Loop("asking", loop.turn + 1, loop.said)
      BY <1>2, <1>5 DEF Push, forwardVars
    <2>2. /\ loop' \in [at : Points, turn : Nat \ {0}, said : Seq(Msgs)] /\ loop'.at = "asking"
          /\ loop'.turn = loop.turn + 1 /\ loop'.said = loop.said
      BY <1>1, <2>1, SaidFacts DEF Points, Loop
    <2>3. events \in Seq(Events) /\ DOMAIN events = 1..2 /\ events[1] = t /\ events[2] = n
      BY <1>2
    <2> HIDE DEF events
    <2>4. \A type \in Told : Says(events, type)
      <3>1. \A c \in DOMAIN events : events[c].type \notin Told
        BY <1>2, <2>3
      <3> QED BY <1>1, <2>2, <3>1, SayNothing
    <2>5. Fits(events)
      <3>1. \A c \in DOMAIN events : events[c] \in {t, n}
        BY <2>3
      <3>2. loop.at \notin Slow
        BY <1>1 DEF Slow
      <3> QED BY <1>2, <2>3, <2>4, <3>1, <3>2, BusyFits
    <2>6. Saying'
      BY <1>1, <1>4, <2>1, <2>2, SaysSame
    <2> QED BY <1>1, <2>1, <2>2, <2>5, <2>6, PushInv
  <1>6. ASSUME steers' = steers + 1,
               Push(TurnEnd \o Shown(SteeredIn(steers')) \o <<n>>, Loop("asking", loop.turn + 1, Append(loop.said, SteeredIn(steers'))))
        PROVE  IInv'
    <2> DEFINE m == SteeredIn(steers + 1)
               s == RunEvent("message_start", m, FALSE)
               e == RunEvent("message_end", m, FALSE)
               events == <<t, s, e, n>>
    <2>1. m \in Msgs /\ m # Asked /\ m.role = "user" /\ m.of = 0 /\ m.n = steers + 1
      BY <1>1 DEF SteeredIn, Asked, Msg, Msgs, Roles
    <2>2. TurnEnd \o Shown(m) \o <<n>> = events
      <3> HIDE DEF n, m
      <3> QED BY <1>2, GluedOneTwoOne DEF Shown
    <2>3. /\ feed' = feed \o events /\ UNCHANGED <<aborted, forwardVars, attempt>>
          /\ loop' = Loop("asking", loop.turn + 1, Append(loop.said, m))
      <3>1. SteeredIn(steers') = m
        BY <1>6
      <3> QED BY <1>6, <2>2, <3>1 DEF Push, forwardVars
    <2> HIDE DEF n, m
    <2>4. /\ loop' \in [at : Points, turn : Nat \ {0}, said : Seq(Msgs)] /\ loop'.at = "asking"
          /\ loop'.turn = loop.turn + 1 /\ loop'.said = Append(loop.said, m)
      BY <1>1, <2>1, <2>3, SaidFacts, AppendProperties DEF Points, Loop
    <2>5. /\ s \in Events /\ s.type # "agent_end" /\ s.message = m /\ ~Opening(s)
          /\ e \in Events /\ e.type # "agent_end" /\ e.message = m /\ ~Opening(e)
      BY <2>1, AnyEvent DEF Kinds, Told
    <2>6. events \in Seq(Events) /\ DOMAIN events = 1..4 /\ events[1] = t /\ events[2] = s /\ events[3] = e /\ events[4] = n
      <3> HIDE DEF s, e
      <3> QED BY <1>2, <2>5
    <2> HIDE DEF events
    <2>7. \A i \in DOMAIN loop.said : loop.said[i] # m
      BY <1>1, <1>3, <2>1 DEF Allowed
    <2>8. \A type \in Told : Says(events, type)
      <3>1. /\ 2 \in DOMAIN events /\ 2 + 1 \in DOMAIN events /\ events[2] = s /\ events[2 + 1] = e
            /\ \A c \in DOMAIN events : c \notin {2, 2 + 1} => events[c].type \notin Told
        <4> HIDE DEF s, e
        <4> QED BY <1>2, <2>6
      <3>2. loop.at \notin {"speaking", "spoken"} /\ loop'.at \notin {"speaking", "spoken"}
        BY <1>1, <2>4
      <3> QED BY <1>1, <2>1, <2>4, <2>7, <3>1, <3>2, ShownSays
    <2>9. Fits(events)
      <3> HIDE DEF s, e
      <3>1. \A c \in DOMAIN events : events[c] \in {t, s, e, n}
        BY <2>6
      <3>2. loop.at \notin Slow
        BY <1>1 DEF Slow
      <3> QED BY <1>2, <2>1, <2>5, <2>6, <2>8, <3>1, <3>2, BusyFits
    <2>10. Saying'
      <3>1. Allowed(m, "asking", loop.turn + 1, steers + 1)
        BY <1>1, <2>1 DEF Allowed
      <3> QED BY <1>1, <1>4, <1>6, <2>1, <2>3, <2>4, <2>7, <3>1, SaysMore
    <2>11. steers' \in Nat /\ loop.at # "over"
      BY <1>1, <1>6
    <2> QED BY <1>1, <2>3, <2>4, <2>9, <2>10, <2>11, PushInv
  <1> QED BY <1>5, <1>6 DEF LoopContinues

LEMMA EndsInv == ASSUME IInv, LoopEnds PROVE IInv'
  <1> DEFINE t == RunEvent("turn_end", AnswerOf(loop.turn), FALSE)
             e == RunEvent("agent_end", loop.said, FALSE)
             events == <<t, e>>
  <1>1. /\ Typed /\ Saying /\ ~Ended /\ loop.at \in {"continue", "boundary"} /\ loop.turn \in Nat \ {0}
        /\ UNCHANGED <<aborted, forwardVars, steers, attempt>> /\ steers \in Nat
        /\ feed' = feed \o (TurnEnd \o <<e>>) /\ loop' = [loop EXCEPT !.at = "over"]
    BY DEF LoopEnds, Push, IInv, Going, Typed, forwardVars
  <1>2. /\ TurnEnd = <<t>> /\ t \in Events /\ ~Opening(t) /\ t.message.of = attempt /\ t.type \notin Told /\ t.type # "agent_end"
    BY <1>1, TurnEvents
  <1>3. /\ e \in Events /\ e.type = "agent_end" /\ e.message = loop.said /\ ~Opening(e) /\ e.type \notin Told
    BY <1>1, SaidFacts, EndEvent DEF Told
  <1>4. /\ loop' \in [at : Points, turn : Nat \ {0}, said : Seq(Msgs)] /\ loop'.at = "over"
        /\ loop'.turn = loop.turn /\ loop'.said = loop.said
    BY <1>1 DEF Typed, Points
  <1> HIDE DEF t, e
  <1>5. /\ TurnEnd \o <<e>> = events
        /\ events \in Seq(Events) /\ DOMAIN events = 1..2 /\ Len(events) = 2 /\ events[1] = t /\ events[2] = e
    BY <1>2, <1>3, GluedOneOne
  <1> HIDE DEF events
  <1>6. \A type \in Told : Says(events, type)
    <2>1. \A c \in DOMAIN events : events[c].type \notin Told
      BY <1>2, <1>3, <1>5
    <2> QED BY <1>1, <1>4, <2>1, SayNothing
  <1>7. Fits(events)
    <2>1. \A c \in DOMAIN events : (c = 1 /\ events[c] = t) \/ (c = 2 /\ events[c] = e)
      BY <1>5
    <2>2. loop.at \notin Slow
      BY <1>1 DEF Slow
    <2> QED BY <1>2, <1>3, <1>4, <1>5, <1>6, <2>1, <2>2 DEF Fits
  <1>8. Saying'
    <2>1. \A i \in DOMAIN loop.said : Allowed(loop.said[i], "over", loop.turn, steers)
      BY <1>1 DEF Saying, Allowed
    <2> QED BY <1>1, <1>4, <2>1, SaysSame
  <1> QED BY <1>1, <1>4, <1>5, <1>7, <1>8, PushInv

------------------------------------------------------------------------------
(* forward.                                                                *)

\* The opening, which a later attempt repeats.
LEMMA PrologueEvents ==
  /\ Prologue \in Seq(Events) /\ Len(Prologue) = 4 /\ DOMAIN Prologue = 1..4
  /\ \A p \in 1..4 : /\ Rank(Prologue[p]) = 0 /\ Plain(Prologue[p]) /\ ~meaningfulEvent(Prologue[p])
                     /\ isAttemptPrefix(Prologue[p]) /\ Prologue[p].type # "agent_end"
                     /\ Prologue[p].message.role \notin {"assistant", "tool"}
  /\ Prologue[1].type = "agent_start" /\ Prologue[2].type = "turn_start"
  /\ Prologue[3].type = "message_start" /\ Prologue[3].message = Asked
  /\ Prologue[4].type = "message_end" /\ Prologue[4].message = Asked
  <1> DEFINE a == RunEvent("agent_start", NoMsg, FALSE)
             b == RunEvent("turn_start", NoMsg, FALSE)
             c == RunEvent("message_start", Asked, FALSE)
             d == RunEvent("message_end", Asked, FALSE)
  <1>1. Prologue = <<a, b, c, d>>
    BY GluedTwoTwo DEF Prologue, Shown
  <1>2. /\ NoMsg \in Msgs /\ NoMsg.role = "none" /\ Asked \in Msgs /\ Asked.role = "user"
    BY DEF NoMsg, Asked, Msg, Msgs, Roles
  <1>3. /\ a.type = "agent_start" /\ a.message = NoMsg /\ b.type = "turn_start" /\ b.message = NoMsg
        /\ c.type = "message_start" /\ c.message = Asked /\ d.type = "message_end" /\ d.message = Asked
    BY DEF RunEvent
  <1>4. a \in Events /\ b \in Events /\ c \in Events /\ d \in Events
    BY <1>2, AnyEvent DEF Kinds, Told
  <1> HIDE DEF a, b, c, d
  <1>5. ASSUME NEW e, e \in {a, b, c, d}
        PROVE  /\ Rank(e) = 0 /\ Plain(e) /\ ~meaningfulEvent(e) /\ isAttemptPrefix(e) /\ e.type # "agent_end"
               /\ e.message.role \notin {"assistant", "tool"}
    BY <1>2, <1>3, <1>5 DEF Rank, OfAssistant, Plain, meaningfulEvent, isAttemptPrefix
  <1>6. /\ <<a, b, c, d>> \in Seq(Events) /\ Len(<<a, b, c, d>>) = 4 /\ DOMAIN <<a, b, c, d>> = 1..4
        /\ <<a, b, c, d>>[1] = a /\ <<a, b, c, d>>[2] = b /\ <<a, b, c, d>>[3] = c /\ <<a, b, c, d>>[4] = d
    BY <1>4
  <1>7. Prologue[1] = a /\ Prologue[2] = b /\ Prologue[3] = c /\ Prologue[4] = d
    BY <1>1, <1>6
  <1>8. \A p \in 1..4 : Prologue[p] \in {a, b, c, d}
    BY <1>7
  <1> QED BY <1>1, <1>3, <1>5, <1>6, <1>7, <1>8

\* An event that was read is the first of those that were not.
LEMMA HeadEvent ==
  ASSUME Typed, feed # <<>>
  PROVE  LET next == Len(Shows) + 1 IN
         /\ Head(feed) \in Events /\ Tail(feed) \in Seq(Events) /\ Len(feed) \in Nat \ {0}
         /\ Len(Tail(feed)) = Len(feed) - 1 /\ DOMAIN Tail(feed) = 1..(Len(feed) - 1)
         /\ \A p \in 1..(Len(feed) - 1) : Tail(feed)[p] = feed[p + 1]
         /\ next \in DOMAIN Stream /\ next \in Nat /\ Stream[next] = Head(feed)
  <1>1. feed \in Seq(Events)
    BY DEF Typed
  <1>2. /\ Head(feed) \in Events /\ Tail(feed) \in Seq(Events) /\ Len(feed) \in Nat \ {0}
        /\ Len(Tail(feed)) = Len(feed) - 1 /\ Head(feed) = feed[1]
        /\ DOMAIN Tail(feed) = 1..(Len(feed) - 1)
        /\ \A p \in 1..(Len(feed) - 1) : Tail(feed)[p] = feed[p + 1]
    BY <1>1
  <1>3. 1 \in DOMAIN feed
    BY <1>2, Places
  <1>4. /\ Len(Shows) + 1 \in DOMAIN Stream /\ Stream[Len(Shows) + 1] = feed[1]
        /\ Len(Shows) + 1 \in Nat
    <2>1. Len(Shows) \in Nat
      BY Places
    <2>2. Len(Shows) + 1 \in DOMAIN Stream /\ Stream[Len(Shows) + 1] = feed[1]
      BY <1>3, Places
    <2> QED BY <2>1, <2>2
  <1> QED BY <1>2, <1>4

\* Moving it across the border leaves the stream as it is.
LEMMA MovesOn ==
  ASSUME Typed, Typed', feed # <<>>, feed' = Tail(feed), Shows' = Append(Shows, Head(feed))
  PROVE  Stream' = Stream /\ Len(Shows') = Len(Shows) + 1
  <1> DEFINE e == Head(feed)
             old == Stream
             new == Stream'
             n == Len(Shows)
  <1>1. /\ e \in Events /\ Len(feed) \in Nat \ {0} /\ Len(Tail(feed)) = Len(feed) - 1
        /\ \A p \in 1..(Len(feed) - 1) : Tail(feed)[p] = feed[p + 1]
        /\ DOMAIN Tail(feed) = 1..(Len(feed) - 1) /\ Tail(feed) \in Seq(Events) /\ old[n + 1] = e
    BY HeadEvent
  <1>2. /\ Shows \in Seq(Events) /\ n \in Nat /\ old \in Seq(Events) /\ Len(old) = n + Len(feed)
    BY Places
  <1>2a. /\ \A p \in 1..Len(feed) : old[n + p] = feed[p]
         /\ \A p \in 1..n : old[p] = Shows[p]
    BY <1>2, Joined DEF Typed, Stream
  <1>3. /\ Shows' \in Seq(Events) /\ Len(Shows') = n + 1 /\ Shows'[n + 1] = e
        /\ \A p \in 1..n : Shows'[p] = Shows[p]
    BY <1>1, <1>2, AppendProperties
  <1>4. /\ new \in Seq(Events) /\ Len(new) = n + 1 + (Len(feed) - 1)
        /\ \A p \in 1..(n + 1) : new[p] = Shows'[p]
        /\ \A p \in 1..(Len(feed) - 1) : new[n + 1 + p] = feed[p + 1]
    BY <1>1, <1>3, Joined DEF Stream
  <1> HIDE DEF n, old, new, e
  <1>5a. Len(new) = Len(old)
    BY <1>1, <1>2, <1>4
  <1>5. ASSUME NEW p \in 1..n PROVE new[p] = old[p]
    <2>1. p \in 1..(n + 1)
      BY <1>2
    <2>2. new[p] = Shows'[p] /\ Shows'[p] = Shows[p] /\ old[p] = Shows[p]
      BY <1>2a, <1>3, <1>4, <2>1
    <2> QED BY <2>2
  <1>6. new[n + 1] = old[n + 1]
    <2>1. n + 1 \in 1..(n + 1)
      BY <1>2
    <2> QED BY <1>1, <1>3, <1>4, <2>1
  <1>7. ASSUME NEW p \in 1..Len(new), p > n + 1 PROVE new[p] = old[p]
    <2>1. p - (n + 1) \in 1..(Len(feed) - 1) /\ n + 1 + (p - (n + 1)) = p /\ (p - (n + 1)) + 1 \in 1..Len(feed)
          /\ n + ((p - (n + 1)) + 1) = p
      BY <1>1, <1>2, <1>4, <1>7
    <2>2. new[p] = feed[(p - (n + 1)) + 1]
      BY <1>4, <2>1
    <2> QED BY <1>2a, <2>1, <2>2
  <1>8. ASSUME NEW p \in 1..Len(new) PROVE new[p] = old[p]
    <2>1. p \in 1..n \/ p = n + 1 \/ p > n + 1
      BY <1>2
    <2> QED BY <2>1, <1>5, <1>6, <1>7
  <1>9. new = old
    BY <1>2, <1>4, <1>5a, <1>8, SeqEqual
  <1> QED BY <1>3, <1>9 DEF new, old, n

\* What is shown is live: an opening repeated by a later attempt is not shown.
LEMMA SameStream ==
  ASSUME Typed, Going, feed # <<>>, Head(feed).type # "agent_end", Stream' = Stream, Len(Shows') = Len(Shows) + 1,
         UNCHANGED <<loop, steers, attempt>>,
         \A p \in DOMAIN Stream : Live(p)' <=> Live(p), HeldBack'
  PROVE  Going'
  <1>1. EndIsLast'
    <2> SUFFICES ASSUME NEW p \in DOMAIN Stream, Stream[p].type = "agent_end"
                 PROVE  p = Len(Stream) /\ p > Len(Shows) + 1 /\ loop.at = "over" /\ Stream[p].message = loop.said
      BY DEF EndIsLast
    <2>1. p = Len(Stream) /\ p > Len(Shows) /\ loop.at = "over" /\ Stream[p].message = loop.said
      BY DEF Going, EndIsLast
    <2>2. p # Len(Shows) + 1
      BY HeadEvent
    <2> QED BY <2>1, <2>2, Places
  <1>2. Saying' /\ OwnAttempt' /\ Quiet'
    <2>1. Saying'
      BY DEF Going, Saying, Allowed, Asked, Msg
    <2>2. OwnAttempt'
      BY DEF Going, OwnAttempt
    <2>3. Quiet'
      BY DEF Going, Quiet, QuietTo, Plain, Before, Rank, Stage, meaningfulEvent, isFailureCandidate, isAttemptPrefix,
             OfAssistant, NoMsg, Asked, Msg
    <2> QED BY <2>1, <2>2, <2>3
  <1>3. OneOpening'
    BY DEF Going, OneOpening, Opening, Asked, Msg
  <1>4. InOrder'
    <2> SUFFICES ASSUME NEW type \in Told PROVE Listed(type)' /\ Ordered(type)' /\ Complete(type)'
      BY DEF InOrder
    <2>1. /\ SaidAt(type)' = SaidAt(type) /\ \A p \in DOMAIN Stream : Tells(p, type)' <=> Tells(p, type)
      BY DEF SaidAt, Begun, AnswerOf, Msg, Tells
    <2>2. Listed(type) /\ Ordered(type) /\ Complete(type)
      BY DEF Going, InOrder
    <2>3. Listed(type)'
      BY <2>1, <2>2 DEF Listed, Visible, Asked, Msg
    <2>4. Ordered(type)'
      BY <2>1, <2>2 DEF Ordered
    <2>5. Complete(type)'
      BY <2>1, <2>2 DEF Complete, Visible, Asked, Msg
    <2> QED BY <2>3, <2>4, <2>5
  <1> QED BY <1>1, <1>2, <1>3, <1>4 DEF Going

LEMMA ShownInv ==
  ASSUME IInv, Reading, feed' = Tail(feed), out' = out \o Append(buffered, Head(feed)), buffered' = <<>>,
         attempt = 1 \/ ~isAttemptPrefix(Head(feed)), meaningful' \in BOOLEAN, HeldBack',
         UNCHANGED <<aborted, loop, steers, attempt, kept>>
  PROVE  IInv'
  <1> DEFINE e == Head(feed)
             next == Len(Shows) + 1
  <1>1. /\ Typed /\ Going /\ ~Ended /\ ~Ended' /\ feed # <<>> /\ e.type # "agent_end"
    BY DEF IInv, Reading, Ended
  <1>2. /\ e \in Events /\ Tail(feed) \in Seq(Events) /\ next \in DOMAIN Stream /\ Stream[next] = e
    BY <1>1, HeadEvent
  <1>3. out \in Seq(Events) /\ buffered \in Seq(Events) /\ Append(buffered, e) \in Seq(Events)
    BY <1>1, <1>2, AppendProperties DEF Typed
  <1>4. out' \in Seq(Events) /\ buffered' \in Seq(Events)
    BY <1>3, ConcatProperties, EmptySeq
  <1>5. Shows' = Append(Shows, e)
    <2>1. Shows' = out'
      BY <1>4, ConcatEmptySeq DEF Shows
    <2>2. out \o Append(buffered, e) = Append(out \o buffered, e)
      <3> HIDE DEF e
      <3>1. /\ Append(buffered, e) = buffered \o <<e>> /\ <<e>> \in Seq(Events)
        BY <1>2, <1>3, AppendIsConcat
      <3>2. out \o buffered \in Seq(Events)
        BY <1>3, ConcatProperties
      <3> QED BY <1>2, <1>3, <3>1, <3>2, AppendIsConcat, ConcatAssociative, SMTT(40)
    <2> QED BY <2>1, <2>2 DEF Shows
  <1>6. Typed'
    BY <1>1, <1>2, <1>4 DEF Typed
  <1>7. Stream' = Stream /\ Len(Shows') = Len(Shows) + 1
    BY <1>1, <1>5, <1>6, MovesOn
  <1>8. ASSUME NEW p \in DOMAIN Stream PROVE Live(p)' <=> Live(p)
    <2>1. /\ Len(out') = next /\ Len(out) \in Nat /\ Len(Shows) \in Nat /\ Len(Shows) >= Len(out) /\ p \in Nat
          /\ Len(Shows) = Len(out) + Len(buffered)
      <3>1. Shows' = out'
        BY <1>4, ConcatEmptySeq DEF Shows
      <3> QED BY <1>1, <1>7, <3>1, Places, StreamEvents
    <2>2. CASE p = next
      BY <1>2, <1>7, <2>1, <2>2 DEF Live, isAttemptPrefix
    <2>3. ASSUME p > Len(out), p <= Len(Shows) PROVE ~isAttemptPrefix(Stream[p])
      <3>1. p - Len(out) \in DOMAIN buffered /\ Len(out) + (p - Len(out)) = p
        BY <1>1, <2>1, <2>3, Places, SMTT(40)
      <3>2. Stream[p] = buffered[p - Len(out)]
        BY <1>1, <3>1, Places
      <3>3. isFailureCandidate(buffered[p - Len(out)])
        BY <1>1, <3>1 DEF Going, HeldBack
      <3> QED BY <3>2, <3>3 DEF isFailureCandidate, isAttemptPrefix, OfAssistant
    <2> QED BY <1>7, <2>1, <2>2, <2>3 DEF Live, isAttemptPrefix
  <1>9. Going'
    BY <1>1, <1>7, <1>8, SameStream
  <1> QED BY <1>1, <1>6, <1>9 DEF IInv

\* Nothing is held back when forward shows an event of no answer.
LEMMA NothingHeldBack ==
  ASSUME Typed, Going, feed # <<>>, Head(feed).type # "agent_end", ~meaningfulEvent(Head(feed)),
         meaningful \/ ~isFailureCandidate(Head(feed))
  PROVE  buffered = <<>> /\ (~meaningful => Rank(Head(feed)) = 0)
  <1> DEFINE e == Head(feed)
             next == Len(Shows) + 1
  <1>1. /\ next \in DOMAIN Stream /\ next \in Nat /\ Stream[next] = e
    BY HeadEvent
  <1>2. ASSUME ~meaningful PROVE Plain(e) /\ (\A q \in 1..(next - 1) : Before(Stream[q], e)) /\ Rank(e) = 0
    <2>1. QuietTo(next)
      <3>1. \A p \in DOMAIN out : ~meaningfulEvent(out[p])
        BY <1>2 DEF Going, HeldBack
      <3>2. \A p \in DOMAIN buffered : ~meaningfulEvent(buffered[p])
        BY DEF Going, HeldBack
      <3>3. ASSUME NEW k \in 1..next PROVE ~meaningfulEvent(Stream[k])
        <4>1. CASE k = next
          BY <1>1, <4>1
        <4>2. CASE k <= Len(out)
          <5>1. k \in DOMAIN out /\ Stream[k] = out[k]
            BY <4>2, Places
          <5> QED BY <3>1, <5>1
        <4>3. CASE k > Len(out) /\ k < next
          <5>1. k - Len(out) \in DOMAIN buffered /\ Len(out) + (k - Len(out)) = k
            BY <1>1, <4>3, Places
          <5>2. Stream[k] = buffered[k - Len(out)]
            BY <5>1, Places
          <5> QED BY <3>2, <5>1, <5>2
        <4> QED BY <1>1, <4>1, <4>2, <4>3, Places
      <3> QED BY <3>3 DEF QuietTo
    <2>2. Plain(e) /\ \A q \in 1..(next - 1) : Before(Stream[q], e)
      BY <1>1, <2>1 DEF Going, Quiet
    <2>3. e.message \in {NoMsg, Asked}
      BY <1>2, <2>2 DEF Plain
    <2>4. Rank(e) = 0
      BY <2>3 DEF Rank, OfAssistant, NoMsg, Asked, Msg
    <2> QED BY <2>2, <2>4
  <1>3. ASSUME ~meaningful, buffered # <<>> PROVE FALSE
    <2>1. 1 \in DOMAIN buffered /\ Len(out) + 1 \in 1..(next - 1)
      <3>1. Len(buffered) \in Nat \ {0}
        BY <1>3, EmptySeq DEF Typed
      <3> QED BY <3>1, Places
    <2>2. Stream[Len(out) + 1] = buffered[1] /\ isFailureCandidate(buffered[1])
      BY <2>1, Places DEF Going, HeldBack
    <2>3. Before(buffered[1], e)
      BY <1>2, <1>3, <2>1, <2>2
    <2>4. Rank(buffered[1]) \in {1, 2, 3}
      BY <2>2 DEF Rank, isFailureCandidate
    <2> QED BY <1>2, <1>3, <2>3, <2>4 DEF Before
  <1> QED BY <1>2, <1>3 DEF Going, HeldBack

LEMMA HeldInv ==
  ASSUME IInv, Reading, feed' = Tail(feed), buffered' = Append(buffered, Head(feed)),
         ~meaningful, isFailureCandidate(Head(feed)), ~meaningfulEvent(Head(feed)),
         UNCHANGED <<aborted, loop, steers, attempt, kept, out, meaningful>>
  PROVE  IInv'
  <1> DEFINE e == Head(feed)
  <1>1. /\ Typed /\ Going /\ ~Ended /\ ~Ended' /\ feed # <<>> /\ e.type # "agent_end"
    BY DEF IInv, Reading, Ended
  <1>2. /\ e \in Events /\ Tail(feed) \in Seq(Events)
    BY <1>1, HeadEvent
  <1>3. out \in Seq(Events) /\ buffered \in Seq(Events)
    BY <1>1 DEF Typed
  <1> HIDE DEF e
  <1>4. /\ Append(buffered, e) \in Seq(Events) /\ DOMAIN Append(buffered, e) = 1..(Len(buffered) + 1)
        /\ Append(buffered, e)[Len(buffered) + 1] = e /\ DOMAIN buffered = 1..Len(buffered) /\ Len(buffered) \in Nat
        /\ \A p \in 1..Len(buffered) : Append(buffered, e)[p] = buffered[p]
    BY <1>2, <1>3, AppendProperties
  <1>5. buffered' = Append(buffered, e)
    BY DEF e
  <1>6. Shows' = Append(Shows, e)
    <2>1. out \o Append(buffered, e) = Append(out \o buffered, e)
      <3>1. /\ Append(buffered, e) = buffered \o <<e>> /\ <<e>> \in Seq(Events)
        BY <1>2, <1>3, AppendIsConcat
      <3>2. out \o buffered \in Seq(Events)
        BY <1>3, ConcatProperties
      <3> QED BY <1>2, <1>3, <3>1, <3>2, AppendIsConcat, ConcatAssociative
    <2> QED BY <1>5, <2>1 DEF Shows
  <1>7. Typed'
    BY <1>1, <1>2, <1>4, <1>5 DEF Typed
  <1>8. Stream' = Stream /\ Len(Shows') = Len(Shows) + 1
    BY <1>1, <1>6, <1>7, MovesOn DEF e
  <1>9. \A p \in DOMAIN Stream : Live(p)' <=> Live(p)
    BY <1>8 DEF Live, isAttemptPrefix
  <1>10. HeldBack'
    <2>1. \A p \in DOMAIN buffered' : buffered'[p] = e \/ (p \in DOMAIN buffered /\ buffered'[p] = buffered[p])
      BY <1>4, <1>5
    <2>2. \A p \in DOMAIN buffered' : isFailureCandidate(buffered'[p]) /\ ~meaningfulEvent(buffered'[p])
      BY <1>1, <2>1 DEF Going, HeldBack, e
    <2> QED BY <1>1, <2>2 DEF Going, HeldBack, meaningfulEvent, isFailureCandidate, OfAssistant, Rank
  <1>11. Going'
    BY <1>1, <1>8, <1>9, <1>10, SameStream DEF e
  <1> QED BY <1>1, <1>7, <1>11 DEF IInv

\* An event that is dropped: those after it move up.
Drops(gap) ==
    /\ gap \in DOMAIN Stream /\ gap \in Nat /\ gap = Len(Shows) + 1 /\ Len(Stream) \in Nat
    /\ Len(out) \in Nat /\ Len(out) < gap
    /\ DOMAIN Stream = 1..Len(Stream) /\ DOMAIN Stream' = 1..(Len(Stream) - 1) /\ Len(Stream') = Len(Stream) - 1
    /\ \A p \in 1..(gap - 1) : Stream'[p] = Stream[p]
    /\ \A p \in gap..(Len(Stream) - 1) : Stream'[p] = Stream[p + 1]
    /\ UNCHANGED <<Shows, out, attempt>>
Was(gap, p) == IF p < gap THEN p ELSE p + 1

LEMMA DropDrops ==
  ASSUME Typed, feed # <<>>, feed' = Tail(feed), UNCHANGED <<out, buffered, attempt>>
  PROVE  Drops(Len(Shows) + 1)
  <1> DEFINE n == Len(Shows)
             old == Stream
             new == Stream'
  <1>1. /\ Tail(feed) \in Seq(Events) /\ Len(feed) \in Nat \ {0} /\ Len(Tail(feed)) = Len(feed) - 1
        /\ \A p \in 1..(Len(feed) - 1) : Tail(feed)[p] = feed[p + 1]
        /\ n + 1 \in DOMAIN old /\ n + 1 \in Nat
    BY HeadEvent
  <1>2. /\ Shows \in Seq(Events) /\ n \in Nat /\ Len(out) \in Nat /\ Len(buffered) \in Nat /\ n = Len(out) + Len(buffered)
        /\ Len(old) = n + Len(feed) /\ DOMAIN old = 1..Len(old)
    BY Places
  <1>3. Shows' = Shows
    BY DEF Shows
  <1>4. /\ \A p \in 1..n : old[p] = Shows[p]
        /\ \A p \in 1..Len(feed) : old[n + p] = feed[p]
    <2>1. feed \in Seq(Events) /\ old = Shows \o feed
      BY DEF Typed, Stream
    <2> QED BY <1>2, <2>1, Joined, SMTT(40)
  <1>5. /\ Len(new) = n + Len(Tail(feed)) /\ DOMAIN new = 1..(n + Len(Tail(feed)))
        /\ \A p \in 1..n : new[p] = Shows[p]
        /\ \A p \in 1..Len(Tail(feed)) : new[n + p] = Tail(feed)[p]
    BY <1>1, <1>2, <1>3, Joined DEF Stream
  <1> HIDE DEF n, old, new
  <1>6. \A p \in 1..((n + 1) - 1) : new[p] = old[p]
    BY <1>2, <1>4, <1>5
  <1>7. ASSUME NEW p \in (n + 1)..(Len(old) - 1) PROVE new[p] = old[p + 1]
    <2>1. p - n \in 1..(Len(feed) - 1) /\ n + (p - n) = p /\ (p - n) + 1 \in 1..Len(feed) /\ n + ((p - n) + 1) = p + 1
      BY <1>1, <1>2, <1>7
    <2>2. new[p] = Tail(feed)[p - n]
      BY <1>1, <1>5, <2>1
    <2>3. Tail(feed)[p - n] = feed[(p - n) + 1]
      BY <1>1, <2>1
    <2>4. old[p + 1] = feed[(p - n) + 1]
      BY <1>4, <2>1
    <2> QED BY <2>2, <2>3, <2>4
  <1>8. /\ Len(old) \in Nat /\ Len(new) = Len(old) - 1 /\ DOMAIN new = 1..(Len(old) - 1) /\ Len(out) < n + 1
    BY <1>1, <1>2, <1>5
  <1> QED BY <1>1, <1>2, <1>3, <1>6, <1>7, <1>8 DEF Drops, n, old, new

LEMMA WasFacts ==
  ASSUME NEW gap, Drops(gap)
  PROVE  /\ \A p \in DOMAIN Stream' : /\ p \in Nat /\ Was(gap, p) \in DOMAIN Stream /\ Was(gap, p) # gap
                                      /\ Stream'[p] = Stream[Was(gap, p)] /\ Was(gap, p) \in Nat
         /\ \A p, q \in DOMAIN Stream' : p < q <=> Was(gap, p) < Was(gap, q)
         /\ \A k \in DOMAIN Stream : k # gap => \E p \in DOMAIN Stream' : k = Was(gap, p)
  <1>1. ASSUME NEW p \in DOMAIN Stream'
        PROVE  /\ p \in Nat /\ Was(gap, p) \in DOMAIN Stream /\ Was(gap, p) # gap
               /\ Stream'[p] = Stream[Was(gap, p)] /\ Was(gap, p) \in Nat
    BY DEF Drops, Was
  <1>2. ASSUME NEW p \in DOMAIN Stream', NEW q \in DOMAIN Stream' PROVE p < q <=> Was(gap, p) < Was(gap, q)
    BY DEF Drops, Was
  <1>3. ASSUME NEW k \in DOMAIN Stream, k # gap PROVE \E p \in DOMAIN Stream' : k = Was(gap, p)
    <2>1. CASE k < gap
      <3>1. k \in DOMAIN Stream' /\ k = Was(gap, k)
        BY <2>1 DEF Drops, Was
      <3> QED BY <3>1
    <2>2. CASE k > gap
      <3>1. k - 1 \in DOMAIN Stream' /\ k = Was(gap, k - 1)
        BY <2>2 DEF Drops, Was
      <3> QED BY <3>1
    <2> QED BY <1>3, <2>1, <2>2 DEF Drops
  <1> QED BY <1>1, <1>2, <1>3

LEMMA DroppedInv ==
  ASSUME IInv, Reading, attempt > 1, isAttemptPrefix(Head(feed)), feed' = Tail(feed),
         UNCHANGED <<aborted, loop, steers, attempt, kept, out, buffered, meaningful>>
  PROVE  IInv'
  <1> DEFINE e == Head(feed)
             gap == Len(Shows) + 1
  <1>1. /\ Typed /\ Going /\ ~Ended /\ ~Ended' /\ feed # <<>> /\ e.type # "agent_end"
    BY DEF IInv, Reading, Ended
  <1>2. /\ e \in Events /\ Tail(feed) \in Seq(Events) /\ gap \in DOMAIN Stream /\ Stream[gap] = e
    BY <1>1, HeadEvent
  <1>3. Drops(gap)
    BY <1>1, DropDrops
  <1>4. Typed'
    BY <1>1, <1>2 DEF Typed
  <1>5. ~meaningfulEvent(e) /\ ~Live(gap) /\ attempt # 1
    <2>1. ~meaningfulEvent(e)
      BY DEF meaningfulEvent, isAttemptPrefix, OfAssistant
    <2>2. attempt # 1 /\ ~(gap <= Len(out))
      BY <1>3 DEF Drops
    <2> QED BY <1>2, <2>1, <2>2 DEF Live
  <1> HIDE DEF e, gap
  <1>6. ASSUME NEW p \in DOMAIN Stream' PROVE Live(p)' <=> Live(Was(gap, p))
    <2>1. p <= Len(out) <=> Was(gap, p) <= Len(out)
      BY <1>3 DEF Drops, Was
    <2> QED BY <1>3, <2>1, WasFacts DEF Live, isAttemptPrefix
  <1>7. EndIsLast'
    <2> SUFFICES ASSUME NEW p \in DOMAIN Stream', Stream'[p].type = "agent_end"
                 PROVE  p = Len(Stream') /\ p > Len(Shows') /\ loop'.at = "over" /\ Stream'[p].message = loop'.said
      BY DEF EndIsLast
    <2>1. /\ Was(gap, p) = Len(Stream) /\ loop.at = "over" /\ Stream'[p].message = loop.said
          /\ Was(gap, p) > Len(Shows)
      BY <1>1, <1>3, WasFacts DEF Going, EndIsLast
    <2>2. p = Len(Stream')
      BY <1>3, <2>1 DEF Drops, Was
    <2>3. p > Len(Shows')
      BY <1>3, <2>1 DEF Drops, Was
    <2> QED BY <2>1, <2>2, <2>3
  <1>8. Saying'
    BY <1>1 DEF Going, Saying, Allowed, Asked, Msg
  <1>9. OwnAttempt'
    BY <1>1, <1>3, WasFacts DEF Going, OwnAttempt
  <1>10. Quiet'
    <2>1. ASSUME NEW n \in Nat, n <= Len(Stream'), QuietTo(n)' PROVE QuietTo(Was(gap, n)) /\ (n + 1 >= gap => QuietTo(n + 1))
      <3>1. \A k \in 1..n : k \in DOMAIN Stream' /\ ~meaningfulEvent(Stream'[k])
        BY <1>3, <2>1 DEF QuietTo, Drops, meaningfulEvent, OfAssistant
      <3>2. ASSUME NEW k \in 1..(n + 1), k # gap, k < gap \/ k > gap, k <= n \/ k > gap PROVE ~meaningfulEvent(Stream[k])
        <4>1. CASE k < gap
          <5>1. Stream'[k] = Stream[k] /\ k \in 1..n
            BY <1>3, <3>2, <4>1 DEF Drops
          <5> QED BY <3>1, <5>1
        <4>2. CASE k > gap
          <5>1. k - 1 \in gap..(Len(Stream) - 1) /\ k - 1 \in 1..n /\ (k - 1) + 1 = k
            BY <1>3, <2>1, <4>2 DEF Drops
          <5>2. Stream'[k - 1] = Stream[k]
            BY <1>3, <5>1 DEF Drops
          <5> QED BY <3>1, <5>1, <5>2
        <4> QED BY <3>2, <4>1, <4>2
      <3>3. ~meaningfulEvent(Stream[gap]) /\ gap \in Nat
        BY <1>2, <1>3, <1>5 DEF Drops
      <3>4. n + 1 >= gap => QuietTo(n + 1)
        <4>1. ASSUME n + 1 >= gap, NEW k \in 1..(n + 1) PROVE ~meaningfulEvent(Stream[k])
          BY <3>2, <3>3, <4>1
        <4> QED BY <4>1 DEF QuietTo
      <3>5. QuietTo(Was(gap, n))
        <4>1. CASE n < gap
          BY <3>2, <3>3, <4>1 DEF Was, QuietTo
        <4>2. CASE n >= gap
          BY <3>3, <3>4, <4>2 DEF Was
        <4> QED BY <3>3, <4>1, <4>2
      <3> QED BY <3>4, <3>5
    <2>2. ASSUME NEW p \in DOMAIN Stream', QuietTo(p)'
          PROVE  Plain(Stream'[p]) /\ \A q \in 1..(p - 1) : Before(Stream'[q], Stream'[p])
      <3>1. p \in Nat /\ p <= Len(Stream')
        BY <1>3 DEF Drops
      <3>2. QuietTo(Was(gap, p))
        BY <2>1, <2>2, <3>1
      <3>3. \A q \in 1..(p - 1) : q \in DOMAIN Stream' /\ q < p
        BY <1>3 DEF Drops
      <3>4. \A q \in 1..(p - 1) : /\ Was(gap, q) \in 1..(Was(gap, p) - 1)
                                  /\ Stream'[q] = Stream[Was(gap, q)]
        <4>1. \A q \in 1..(p - 1) : Was(gap, q) \in Nat /\ Was(gap, q) >= 1 /\ Was(gap, q) < Was(gap, p) /\ Was(gap, p) \in Nat
          <5>1. ASSUME NEW q \in 1..(p - 1) PROVE Was(gap, q) \in DOMAIN Stream /\ Was(gap, q) < Was(gap, p)
            BY <1>3, <3>3, WasFacts
          <5>2. \A k \in DOMAIN Stream : k \in Nat /\ k >= 1
            BY <1>3 DEF Drops
          <5>3. Was(gap, p) \in Nat
            BY <1>3, WasFacts
          <5> QED BY <5>1, <5>2, <5>3
        <4>2. \A q \in 1..(p - 1) : Stream'[q] = Stream[Was(gap, q)]
          BY <1>3, <3>3, WasFacts
        <4> QED BY <4>1, <4>2
      <3>5. Was(gap, p) \in DOMAIN Stream /\ Stream'[p] = Stream[Was(gap, p)]
        BY <1>3, WasFacts
      <3> QED BY <1>1, <3>2, <3>4, <3>5 DEF Going, Quiet
    <2>3. ASSUME NEW n \in Nat, n = Len(Stream'), QuietTo(n)' PROVE QuietTo(Len(Stream))
      <3>1. n + 1 = Len(Stream) /\ n + 1 >= gap
        BY <1>3, <2>3 DEF Drops
      <3> QED BY <2>1, <2>3, <3>1
    <2>4. QuietTo(Len(Stream))' => QuietTo(Len(Stream))
      <3>1. Len(Stream') \in Nat /\ (QuietTo(Len(Stream))' => \A n \in Nat : n = Len(Stream') => QuietTo(n)')
        <4>1. Len(Stream') \in Nat
          BY <1>3 DEF Drops
        <4>2. QuietTo(Len(Stream))' => \A n \in Nat : n = Len(Stream') => QuietTo(n)'
          BY DEF QuietTo
        <4> QED BY <4>1, <4>2
      <3> QED BY <2>3, <3>1
    <2>5. QuietTo(Len(Stream))' => \A p \in DOMAIN Stream' : Rank(Stream'[p]) <= Stage(loop'.at)
      BY <1>1, <1>3, <2>4, WasFacts DEF Going, Quiet
    <2>6. loop'.at \notin {"asking", "speaking", "over"} => ~QuietTo(Len(Stream))'
      BY <1>1, <2>4 DEF Going, Quiet
    <2> QED BY <2>2, <2>5, <2>6 DEF Quiet, Rank, Stage, Before, Plain, isFailureCandidate, isAttemptPrefix, OfAssistant, NoMsg,
                                   Asked, Msg
  <1>11. HeldBack'
    BY <1>1 DEF Going, HeldBack, meaningfulEvent, Rank, isFailureCandidate, OfAssistant
  <1>12. OneOpening'
    <2> SUFFICES ASSUME NEW p \in DOMAIN Stream', NEW q \in DOMAIN Stream', Live(p)', Live(q)', p # q, Opening(Stream'[p]),
                        Stream'[q] = Stream'[p]
                 PROVE  FALSE
      BY DEF OneOpening, Opening
    <2>1. Was(gap, p) # Was(gap, q)
      BY <1>3 DEF Drops, Was
    <2>2. /\ Was(gap, p) \in DOMAIN Stream /\ Was(gap, q) \in DOMAIN Stream /\ Live(Was(gap, p)) /\ Live(Was(gap, q))
          /\ Opening(Stream[Was(gap, p)]) /\ Stream[Was(gap, q)] = Stream[Was(gap, p)]
      BY <1>3, <1>6, WasFacts
    <2> QED BY <1>1, <2>1, <2>2 DEF Going, OneOpening
  <1>13. InOrder'
    <2> SUFFICES ASSUME NEW type \in Told PROVE Listed(type)' /\ Ordered(type)' /\ Complete(type)'
      BY DEF InOrder
    <2>1. SaidAt(type)' = SaidAt(type) /\ \A m : Visible(m)' <=> Visible(m)
      BY DEF SaidAt, Begun, AnswerOf, Msg, Visible, Asked
    <2>2. Listed(type) /\ Ordered(type) /\ Complete(type)
      BY <1>1 DEF Going, InOrder
    <2>3. \A p \in DOMAIN Stream' : /\ Tells(p, type)' <=> Tells(Was(gap, p), type)
                                    /\ Was(gap, p) \in DOMAIN Stream /\ Stream'[p] = Stream[Was(gap, p)]
      BY <1>3, <1>6, WasFacts DEF Tells
    <2>4. Listed(type)'
      <3>1. ASSUME NEW p \in DOMAIN Stream', Tells(p, type)'
            PROVE  \E i \in DOMAIN SaidAt(type) : Stream'[p].message = SaidAt(type)[i] /\ Visible(SaidAt(type)[i])
        BY <2>2, <2>3, <3>1 DEF Listed
      <3> QED BY <2>1, <3>1 DEF Listed
    <2>5. Ordered(type)'
      <3>1. ASSUME NEW p \in DOMAIN Stream', NEW q \in DOMAIN Stream', NEW i \in DOMAIN SaidAt(type), NEW j \in DOMAIN SaidAt(type),
                   p < q, Tells(p, type)', Tells(q, type)',
                   Stream'[p].message = SaidAt(type)[i], Stream'[q].message = SaidAt(type)[j]
            PROVE  i < j
        <4>1. Was(gap, p) < Was(gap, q)
          BY <1>3, <3>1, WasFacts
        <4> QED BY <2>2, <2>3, <3>1, <4>1 DEF Ordered
      <3> QED BY <2>1, <3>1 DEF Ordered
    <2>6. Complete(type)'
      <3>1. ASSUME NEW i \in DOMAIN SaidAt(type), Visible(SaidAt(type)[i])
            PROVE  \E p \in DOMAIN Stream' : Tells(p, type)' /\ Stream'[p].message = SaidAt(type)[i]
        <4>1. PICK k \in DOMAIN Stream : Tells(k, type) /\ Stream[k].message = SaidAt(type)[i]
          BY <2>2, <3>1 DEF Complete
        <4>2. k # gap
          BY <1>5, <4>1 DEF Tells
        <4>3. PICK p \in DOMAIN Stream' : k = Was(gap, p)
          BY <1>3, <4>2, WasFacts
        <4> QED BY <2>3, <4>1, <4>3
      <3> QED BY <2>1, <3>1 DEF Complete
    <2> QED BY <2>4, <2>5, <2>6
  <1>14. Going'
    BY <1>7, <1>8, <1>9, <1>10, <1>11, <1>12, <1>13 DEF Going
  <1> QED BY <1>1, <1>4, <1>14 DEF IInv

LEMMA ForwardInv == ASSUME IInv, Forward PROVE IInv'
  <1> DEFINE e == Head(feed)
  <1>1. /\ Reading /\ feed' = Tail(feed) /\ UNCHANGED <<aborted, loop, steers, attempt, kept>>
        /\ Typed /\ Going /\ feed # <<>> /\ e.type # "agent_end"
    BY DEF Forward, Reading, IInv
  <1>2. attempt \in Nat \ {0} /\ meaningful \in BOOLEAN /\ out \in Seq(Events) /\ buffered \in Seq(Events) /\ e \in Events
    BY <1>1, HeadEvent DEF Typed
  <1>3. CASE attempt > 1 /\ isAttemptPrefix(e)
    <2>1. UNCHANGED <<buffered, meaningful, out>>
      BY <1>3 DEF Forward
    <2> QED BY <1>1, <1>3, <2>1, DroppedInv
  <1>4. CASE ~(attempt > 1 /\ isAttemptPrefix(e)) /\ meaningfulEvent(e)
    <2>1. meaningful' = TRUE /\ out' = out \o Append(buffered, e) /\ buffered' = <<>>
      BY <1>4 DEF Forward, Show
    <2>2. attempt = 1 \/ ~isAttemptPrefix(e)
      BY <1>2, <1>4
    <2>3. HeldBack'
      <3>1. \E p \in DOMAIN out' : meaningfulEvent(out'[p])
        <4> HIDE DEF e
        <4>1. Append(buffered, e) \in Seq(Events) /\ Len(Append(buffered, e)) = Len(buffered) + 1 /\ Len(buffered) \in Nat
              /\ Append(buffered, e)[Len(buffered) + 1] = e
          BY <1>2, AppendProperties, LenProperties
        <4>2. /\ Len(out) \in Nat /\ DOMAIN out' = 1..(Len(out) + (Len(buffered) + 1))
              /\ \A p \in 1..(Len(buffered) + 1) : out'[Len(out) + p] = Append(buffered, e)[p]
          BY <1>2, <2>1, <4>1, Joined
        <4>3. Len(out) + (Len(buffered) + 1) \in DOMAIN out' /\ out'[Len(out) + (Len(buffered) + 1)] = e
          BY <4>1, <4>2
        <4> QED BY <1>4, <4>3
      <3> QED BY <2>1, <3>1 DEF HeldBack, meaningfulEvent, OfAssistant
    <2> QED BY <1>1, <2>1, <2>2, <2>3, ShownInv
  <1>5. CASE ~(attempt > 1 /\ isAttemptPrefix(e)) /\ ~meaningfulEvent(e) /\ ~meaningful /\ isFailureCandidate(e)
    <2>1. buffered' = Append(buffered, e) /\ UNCHANGED <<meaningful, out>>
      BY <1>5 DEF Forward
    <2> QED BY <1>1, <1>5, <2>1, HeldInv
  <1>6. CASE ~(attempt > 1 /\ isAttemptPrefix(e)) /\ ~meaningfulEvent(e) /\ (meaningful \/ ~isFailureCandidate(e))
    <2>1. out' = Append(out, e) /\ UNCHANGED <<buffered, meaningful>>
      BY <1>6 DEF Forward
    <2>2. buffered = <<>> /\ (~meaningful => Rank(e) = 0)
      BY <1>1, <1>6, NothingHeldBack
    <2>3. out' = out \o Append(buffered, e) /\ buffered' = <<>>
      <3> HIDE DEF e
      <3>1. Append(buffered, e) = <<e>>
        BY <2>2
      <3> QED BY <1>2, <2>1, <2>2, <3>1, AppendIsConcat
    <2>4. attempt = 1 \/ ~isAttemptPrefix(e)
      BY <1>2, <1>6
    <2>5. HeldBack'
      <3> HIDE DEF e
      <3>1. /\ DOMAIN out = 1..Len(out) /\ Len(out) \in Nat /\ DOMAIN out' = 1..(Len(out) + 1)
            /\ out'[Len(out) + 1] = e /\ \A p \in 1..Len(out) : out'[p] = out[p]
        BY <1>2, <2>1, AppendProperties, LenProperties
      <3>2. \A p \in DOMAIN out' : out'[p] = e \/ (p \in DOMAIN out /\ out'[p] = out[p])
        BY <3>1
      <3>3. \A p \in DOMAIN out : p \in DOMAIN out' /\ out'[p] = out[p]
        BY <3>1
      <3>4. meaningful' <=> \E p \in DOMAIN out' : meaningfulEvent(out'[p])
        <4>1. meaningful <=> \E p \in DOMAIN out : meaningfulEvent(out[p])
          BY <1>1 DEF Going, HeldBack
        <4>2. (\E p \in DOMAIN out : meaningfulEvent(out[p])) <=> (\E p \in DOMAIN out' : meaningfulEvent(out'[p]))
          BY <1>6, <3>2, <3>3
        <4> QED BY <2>1, <4>1, <4>2
      <3>5. ~meaningful' => \A p \in DOMAIN out' : Rank(out'[p]) = 0
        BY <1>1, <2>1, <2>2, <3>2 DEF Going, HeldBack
      <3>6. buffered' = <<>> /\ DOMAIN buffered' = {}
        BY <2>3
      <3> QED BY <3>4, <3>5, <3>6 DEF HeldBack, meaningfulEvent, Rank, OfAssistant
    <2> QED BY <1>1, <1>2, <2>1, <2>3, <2>4, <2>5, ShownInv
  <1> QED BY <1>3, <1>4, <1>5, <1>6

\* The opening of a run, as an attempt that showed nothing leaves it.
Fresh(e) ==
    /\ Rank(e) = 0 /\ Plain(e) /\ ~meaningfulEvent(e) /\ isAttemptPrefix(e) /\ e.type # "agent_end"
    /\ e.message.role \notin {"assistant", "tool"} /\ (e.type \in Told => e.message = Asked)

LEMMA PrologueFresh == \A p \in 1..4 : Fresh(Prologue[p])
  BY PrologueEvents DEF Fresh, Told

LEMMA OutFresh ==
  ASSUME Typed, Going, ~meaningful
  PROVE  \A p \in DOMAIN out : Fresh(out[p])
  <1> SUFFICES ASSUME NEW p \in DOMAIN out PROVE Fresh(out[p])
    OBVIOUS
  <1>1. p \in DOMAIN Stream /\ Stream[p] = out[p] /\ p \in 1..Len(out) /\ Len(out) \in Nat
    BY Places
  <1>2. Rank(out[p]) = 0 /\ \A k \in DOMAIN out : ~meaningfulEvent(out[k])
    BY DEF Going, HeldBack
  <1>3. QuietTo(p)
    <2>1. \A k \in 1..p : k \in DOMAIN out /\ Stream[k] = out[k]
      BY <1>1, Places
    <2> QED BY <1>2, <2>1 DEF QuietTo, meaningfulEvent, OfAssistant
  <1>4. Plain(out[p])
    BY <1>1, <1>3 DEF Going, Quiet
  <1>5. out[p].type # "agent_end" /\ ~OfAssistant(out[p])
    BY <1>2 DEF Rank
  <1>6. isAttemptPrefix(out[p]) /\ out[p].message \in {NoMsg, Asked}
    BY <1>4, <1>5 DEF Plain, isFailureCandidate
  <1> QED BY <1>2, <1>4, <1>5, <1>6 DEF Fresh, isAttemptPrefix, NoMsg, Asked, Msg, Told

\* The loop's end is the last of the stream.
LEMMA EndFacts ==
  ASSUME Typed, Going, AtEnd
  PROVE  /\ feed # <<>> /\ Head(feed) \in Events /\ Head(feed).type = "agent_end" /\ Head(feed).message = loop.said
         /\ loop.at = "over" /\ Len(Stream) \in Nat /\ Len(Stream) = Len(Shows) + 1 /\ Len(feed) = 1
         /\ DOMAIN Stream = 1..Len(Stream) /\ Stream[Len(Stream)] = Head(feed)
         /\ \A p \in DOMAIN Stream : p # Len(Stream) =>
              /\ Stream[p].type # "agent_end"
              /\ \/ p \in DOMAIN out
                 \/ isFailureCandidate(Stream[p]) /\ ~meaningfulEvent(Stream[p]) /\ ~isAttemptPrefix(Stream[p])
  <1>1. feed # <<>> /\ Head(feed).type = "agent_end"
    BY DEF AtEnd
  <1>2. /\ Head(feed) \in Events /\ Len(Shows) + 1 \in DOMAIN Stream /\ Stream[Len(Shows) + 1] = Head(feed)
        /\ Len(Shows) + 1 \in Nat
    BY <1>1, HeadEvent
  <1>3. Len(Shows) + 1 = Len(Stream) /\ loop.at = "over" /\ Head(feed).message = loop.said
    BY <1>1, <1>2 DEF Going, EndIsLast
  <1>4. Len(feed) = 1 /\ DOMAIN Stream = 1..Len(Stream) /\ Len(Stream) \in Nat
    BY <1>2, <1>3, Places
  <1>5. ASSUME NEW p \in DOMAIN Stream, p # Len(Stream), p \notin DOMAIN out
        PROVE  isFailureCandidate(Stream[p]) /\ ~meaningfulEvent(Stream[p]) /\ ~isAttemptPrefix(Stream[p])
    <2>1. p - Len(out) \in DOMAIN buffered /\ Len(out) + (p - Len(out)) = p
      BY <1>3, <1>4, <1>5, Places
    <2>2. Stream[p] = buffered[p - Len(out)]
      BY <2>1, Places
    <2>3. isFailureCandidate(Stream[p]) /\ ~meaningfulEvent(Stream[p])
      BY <2>1, <2>2 DEF Going, HeldBack
    <2> QED BY <2>3 DEF isFailureCandidate, isAttemptPrefix, OfAssistant
  <1>6. \A p \in DOMAIN Stream : p # Len(Stream) => Stream[p].type # "agent_end"
    BY DEF Going, EndIsLast
  <1> QED BY <1>1, <1>2, <1>3, <1>4, <1>5, <1>6

LEMMA AskedFacts == Asked \in Msgs /\ Asked.role = "user" /\ Asked.of = 0 /\ Asked.n = 0
  BY DEF Asked, Msg, Msgs, Roles

LEMMA FailoverInv == ASSUME IInv, Failover PROVE IInv'
  <1>1. /\ Typed /\ Going /\ AtEnd /\ ~Ended /\ ~Ended' /\ ~meaningful /\ attempt \in Nat \ {0}
        /\ attempt' = attempt + 1 /\ loop' = Loop("asking", 1, <<Asked>>) /\ feed' = Prologue /\ buffered' = <<>>
        /\ meaningful' = FALSE /\ UNCHANGED <<aborted, steers, out, kept>>
    BY DEF Failover, IInv, AtEnd, Retryable, Ended, Typed
  <1> DEFINE n == Len(out)
             new == Stream'
  <1>2. out \in Seq(Events) /\ n \in Nat /\ DOMAIN out = 1..n
    BY <1>1, LenProperties DEF Typed
  <1>3. /\ loop' \in [at : Points, turn : Nat \ {0}, said : Seq(Msgs)] /\ loop'.at = "asking" /\ loop'.turn = 1
        /\ loop'.said = <<Asked>> /\ <<Asked>> \in Seq(Msgs) /\ DOMAIN <<Asked>> = {1} /\ <<Asked>>[1] = Asked
    BY <1>1, AskedFacts DEF Loop, Points
  <1>4. Typed'
    <2>1. aborted' \in BOOLEAN /\ meaningful' \in BOOLEAN
      BY <1>1, Zenon DEF Typed
    <2>2. attempt' \in Nat \ {0} /\ steers' \in Nat
      BY <1>1 DEF Typed
    <2>3. out' \in Seq(Events) /\ buffered' \in Seq(Events) /\ feed' \in Seq(Events)
      BY <1>1, PrologueEvents, EmptySeq DEF Typed
    <2> QED BY <1>3, <2>1, <2>2, <2>3 DEF Typed
  <1>5. /\ new \in Seq(Events) /\ Len(new) = n + 4 /\ DOMAIN new = 1..(n + 4)
        /\ \A p \in 1..n : new[p] = out[p]
        /\ \A c \in 1..4 : new[n + c] = Prologue[c]
    <2>1. Stream' = out \o Prologue
      <3>1. Shows' = out
        BY <1>1, <1>2, ConcatEmptySeq DEF Shows
      <3> QED BY <1>1, <3>1 DEF Stream
    <2>2. /\ out \o Prologue \in Seq(Events) /\ Len(out \o Prologue) = n + Len(Prologue)
          /\ DOMAIN (out \o Prologue) = 1..(n + Len(Prologue))
          /\ \A p \in 1..n : (out \o Prologue)[p] = out[p]
          /\ \A c \in 1..Len(Prologue) : (out \o Prologue)[n + c] = Prologue[c]
      <3>1. Prologue \in Seq(Events)
        BY PrologueEvents
      <3> QED BY <1>2, <3>1, Joined
    <2>3. Len(Prologue) = 4
      BY PrologueEvents
    <2> HIDE DEF n
    <2> QED BY <2>1, <2>2, <2>3
  <1> HIDE DEF new
  <1>6. ASSUME NEW p \in DOMAIN new
        PROVE  Fresh(new[p]) /\ (p \in DOMAIN out \/ (p > n /\ p - n \in 1..4 /\ new[p] = Prologue[p - n]))
    <2>1. CASE p <= n
      <3>1. p \in DOMAIN out /\ new[p] = out[p]
        BY <1>2, <1>5, <2>1
      <3> QED BY <1>1, <3>1, OutFresh
    <2>2. CASE p > n
      <3>1. p - n \in 1..4 /\ n + (p - n) = p
        BY <1>2, <1>5, <2>2
      <3>2. new[p] = Prologue[p - n]
        BY <1>5, <3>1
      <3> QED BY <2>2, <3>1, <3>2, PrologueFresh
    <2> QED BY <1>2, <1>5, <2>1, <2>2
  <1>7. EndIsLast'
    BY <1>6 DEF EndIsLast, Fresh, new
  <1>8. Saying'
    <2>1. loop'.said # <<>> /\ loop'.said[1] = Asked /\ DOMAIN loop'.said = {1}
      BY <1>3
    <2>2. \A i \in DOMAIN loop'.said : loop'.said[i].role = "user" /\ loop'.said[i].of = 0 /\ loop'.said[i].n <= steers'
      BY <1>1, <2>1, AskedFacts DEF Typed
    <2>3. \A i, j \in DOMAIN loop'.said : i = j
      BY <2>1
    <2> QED BY <2>1, <2>2, <2>3 DEF Saying, Allowed, Asked, Msg
  <1>9. OwnAttempt'
    BY <1>6 DEF OwnAttempt, Fresh, new
  <1>10. Quiet'
    <2>1. ASSUME NEW p \in DOMAIN new PROVE Plain(new[p]) /\ Rank(new[p]) = 0 /\ \A q \in 1..(p - 1) : q \in DOMAIN new
      BY <1>2, <1>5, <1>6 DEF Fresh
    <2>2. \A p \in DOMAIN new : Plain(new[p]) /\ \A q \in 1..(p - 1) : Before(new[q], new[p])
      BY <2>1 DEF Before
    <2>3. \A p \in DOMAIN new : Rank(new[p]) <= Stage(loop'.at)
      BY <1>3, <2>1 DEF Stage
    <2> QED BY <1>3, <2>2, <2>3 DEF Quiet, new, Rank, Stage, Before, Plain, isFailureCandidate, isAttemptPrefix, OfAssistant,
                                   NoMsg, Asked, Msg
  <1>11. HeldBack'
    <2>1. \A p \in DOMAIN out : ~meaningfulEvent(out[p]) /\ Rank(out[p]) = 0
      BY <1>1, OutFresh DEF Fresh
    <2>2. DOMAIN buffered' = {}
      BY <1>1
    <2> QED BY <1>1, <2>1, <2>2 DEF HeldBack, meaningfulEvent, Rank, OfAssistant
  <1>12. ASSUME NEW p \in DOMAIN new, Live(p)'
         PROVE  p \in DOMAIN out /\ new[p] = out[p] /\ p \in DOMAIN Stream /\ Stream[p] = out[p] /\ Live(p)
    <2>1. p <= n
      <3>1. isAttemptPrefix(new[p]) /\ attempt' # 1
        BY <1>1, <1>6 DEF Fresh
      <3> QED BY <1>1, <1>12, <3>1 DEF Live, new, isAttemptPrefix
    <2>2. p \in DOMAIN out /\ new[p] = out[p]
      BY <1>2, <1>5, <2>1
    <2>3. p \in DOMAIN Stream /\ Stream[p] = out[p]
      BY <1>1, <2>2, Places
    <2> QED BY <2>1, <2>2, <2>3 DEF Live
  <1>13. OneOpening'
    <2> SUFFICES ASSUME NEW p \in DOMAIN new, NEW q \in DOMAIN new, Live(p)', Live(q)', p # q, Opening(new[p]), new[q] = new[p]
                 PROVE  FALSE
      BY DEF OneOpening, Opening, new
    <2> QED BY <1>1, <1>12 DEF Going, OneOpening
  <1>14. InOrder'
    <2> SUFFICES ASSUME NEW type \in Told PROVE Listed(type)' /\ Ordered(type)' /\ Complete(type)'
      BY DEF InOrder
    <2>1. SaidAt(type)' = <<Asked>> /\ Visible(Asked)'
      BY <1>3 DEF SaidAt, Begun, Visible, Asked, Msg
    <2>2. /\ Listed(type) /\ Ordered(type) /\ Complete(type)
          /\ 1 \in DOMAIN SaidAt(type) /\ SaidAt(type)[1] = Asked
      BY <1>1, SaidFacts DEF Going, InOrder
    <2>3. ASSUME NEW p \in DOMAIN new, Tells(p, type)'
          PROVE  p \in DOMAIN Stream /\ Tells(p, type) /\ new[p].message = Asked /\ Stream[p].message = Asked
      <3>1. new[p].type = type /\ Live(p)'
        BY <2>3 DEF Tells, new
      <3>2. new[p].message = Asked
        BY <1>6, <3>1 DEF Fresh
      <3> QED BY <1>12, <3>1, <3>2 DEF Tells
    <2>4. Listed(type)'
      <3>1. \A p \in DOMAIN new : Tells(p, type)' => 1 \in DOMAIN <<Asked>> /\ new[p].message = <<Asked>>[1] /\ Visible(<<Asked>>[1])'
        BY <1>3, <2>1, <2>3
      <3> QED BY <2>1, <3>1 DEF Listed, new, Visible, Asked, Msg
    <2>5. Ordered(type)'
      <3>1. ASSUME NEW p \in DOMAIN new, NEW q \in DOMAIN new, p < q, Tells(p, type)', Tells(q, type)' PROVE FALSE
        <4>1. /\ p \in DOMAIN Stream /\ q \in DOMAIN Stream /\ Tells(p, type) /\ Tells(q, type)
              /\ Stream[p].message = SaidAt(type)[1] /\ Stream[q].message = SaidAt(type)[1]
          BY <2>2, <2>3, <3>1
        <4>2. 1 < 1
          BY <2>2, <3>1, <4>1 DEF Ordered
        <4> QED BY <4>2
      <3> QED BY <3>1 DEF Ordered, new
    <2>6. Complete(type)'
      <3>1. PICK p \in DOMAIN Stream : Tells(p, type) /\ Stream[p].message = Asked
        <4>1. Visible(SaidAt(type)[1])
          BY <2>2 DEF Visible
        <4> QED BY <2>2, <4>1 DEF Complete
      <3>2. p # Len(Stream) /\ Stream[p].type \in Told
        BY <1>1, <3>1, EndFacts DEF Tells, Told
      <3>3. ~isFailureCandidate(Stream[p])
        BY <3>1, AskedFacts DEF isFailureCandidate, OfAssistant
      <3>4. p \in DOMAIN out
        BY <1>1, <3>2, <3>3, EndFacts
      <3>5. p \in DOMAIN new /\ new[p] = Stream[p] /\ p <= n
        <4>1. Stream[p] = out[p]
          BY <1>1, <3>4, Places
        <4> QED BY <1>2, <1>5, <3>4, <4>1
      <3>6. Tells(p, type)' /\ new[p].message = Asked
        BY <1>1, <3>1, <3>5 DEF Tells, Live, new
      <3>7. \A i \in DOMAIN <<Asked>> : <<Asked>>[i] = Asked
        BY <1>3
      <3> QED BY <2>1, <3>5, <3>6, <3>7 DEF Complete, new
    <2> QED BY <2>4, <2>5, <2>6
  <1>15. Going'
    BY <1>7, <1>8, <1>9, <1>10, <1>11, <1>13, <1>14 DEF Going
  <1> QED BY <1>1, <1>4, <1>15 DEF IInv

\* Everything that was read or held back is shown with the end.
LEMMA FinishRunInv == ASSUME IInv, FinishRun PROVE IInv'
  <1> DEFINE e == Head(feed)
             said == loop.said
  <1>1. /\ Typed /\ Going /\ AtEnd /\ ~Ended /\ kept' = e.message /\ out' = out \o Append(buffered, e)
        /\ feed' = <<>> /\ buffered' = <<>> /\ UNCHANGED <<aborted, loop, steers, attempt, meaningful>>
    BY DEF FinishRun, IInv, AtEnd
  <1>2. /\ feed # <<>> /\ e \in Events /\ e.type = "agent_end" /\ e.message = said
        /\ loop.at = "over" /\ Len(Stream) \in Nat /\ Len(Stream) = Len(Shows) + 1
        /\ DOMAIN Stream = 1..Len(Stream) /\ Stream[Len(Stream)] = e
        /\ \A p \in DOMAIN Stream : p # Len(Stream) =>
              /\ Stream[p].type # "agent_end"
              /\ p \in DOMAIN out \/ ~isAttemptPrefix(Stream[p])
    BY <1>1, EndFacts
  <1>3. said \in Seq(Msgs) /\ said # <<>> /\ said[1] = Asked /\ DOMAIN said = 1..Len(said) /\ Len(said) \in Nat
    BY <1>1, SaidFacts DEF Going, Saying
  <1> HIDE DEF e
  <1>4. /\ Append(buffered, e) \in Seq(Events) /\ out \in Seq(Events) /\ buffered \in Seq(Events) /\ <<e>> \in Seq(Events)
        /\ Append(buffered, e) = buffered \o <<e>> /\ feed \in Seq(Events)
    BY <1>1, <1>2, AppendProperties, AppendIsConcat DEF Typed
  <1>5. out' = Stream
    <2>1. feed = <<e>>
      <3>1. Len(feed) = 1 /\ feed[1] = e
        BY <1>1, <1>4, EndFacts DEF e
      <3>2. Len(<<e>>) = 1 /\ <<e>>[1] = e
        OBVIOUS
      <3> QED BY <1>4, <3>1, <3>2, SeqEqual
    <2> QED BY <1>1, <1>4, <2>1, ConcatAssociative DEF Stream, Shows
  <1>6. Typed'
    BY <1>1, <1>4, ConcatProperties, EmptySeq DEF Typed
  <1>7. Ended'
    BY <1>1, <1>2, <1>3 DEF Ended
  <1>8. ASSUME NEW p \in DOMAIN Stream, Stream[p].type # "agent_end" PROVE Live(p)
    <2>1. CASE p \in DOMAIN out
      BY <1>1, <2>1, Places DEF Live
    <2>2. CASE p \notin DOMAIN out
      BY <1>2, <1>8, <2>2 DEF Live
    <2> QED BY <2>1, <2>2
  <1>9. FailedAttemptsHidden'
    <2>1. Len(buffered') <= 3 /\ buffered' = <<>>
      BY <1>1
    <2>2. \A p \in DOMAIN Stream : Stream[p].type # "agent_end" /\ Stream[p].message.role \in {"assistant", "tool"}
                               => Stream[p].message.of = attempt
      BY <1>1 DEF Going, OwnAttempt
    <2>3. ASSUME NEW p \in DOMAIN Stream, NEW q \in DOMAIN Stream, p # q, Opening(Stream[p]), Stream[q] = Stream[p] PROVE FALSE
      <3>1. Stream[p].type # "agent_end" /\ Stream[q].type # "agent_end"
        BY <2>3 DEF Opening
      <3> QED BY <1>1, <1>8, <2>3, <3>1 DEF Going, OneOpening
    <2> QED BY <1>1, <1>5, <2>1, <2>2, <2>3 DEF FailedAttemptsHidden, Opening, Asked, Msg
  <1>10. ShownIsKept'
    <2>1. ASSUME NEW type \in Told
          PROVE  /\ \A i \in DOMAIN said : Visible(said[i]) => \E p \in DOMAIN Stream : Stream[p].type = type /\ Stream[p].message = said[i]
                 /\ \A p \in DOMAIN Stream : Stream[p].type = type => \E i \in DOMAIN said : Stream[p].message = said[i] /\ Visible(said[i])
                 /\ \A p, q \in DOMAIN Stream, i, j \in DOMAIN said :
                      Stream[p].type = type /\ Stream[q].type = type /\ Stream[p].message = said[i] /\ Stream[q].message = said[j]
                         => (p < q <=> i < j)
      <3>1. Listed(type) /\ Ordered(type) /\ Complete(type) /\ SaidAt(type) = said /\ type # "agent_end"
        BY <1>1, <1>2 DEF Going, InOrder, SaidAt, Begun, Told
      <3>2. \A p \in DOMAIN Stream : Stream[p].type = type <=> Tells(p, type)
        BY <1>8, <3>1 DEF Tells
      <3> HIDE DEF said
      <3>3. \A i \in DOMAIN said : Visible(said[i]) => \E p \in DOMAIN Stream : Stream[p].type = type /\ Stream[p].message = said[i]
        BY <3>1, <3>2 DEF Complete
      <3>4. \A p \in DOMAIN Stream : Stream[p].type = type => \E i \in DOMAIN said : Stream[p].message = said[i] /\ Visible(said[i])
        BY <3>1, <3>2 DEF Listed
      <3>5. ASSUME NEW p \in DOMAIN Stream, NEW q \in DOMAIN Stream, NEW i \in DOMAIN said, NEW j \in DOMAIN said,
                   Stream[p].type = type, Stream[q].type = type, Stream[p].message = said[i], Stream[q].message = said[j]
            PROVE  p < q <=> i < j
        <4>1. Tells(p, type) /\ Tells(q, type)
          BY <3>2, <3>5
        <4>2. (p < q => i < j) /\ (q < p => j < i)
          BY <3>1, <3>5, <4>1 DEF Ordered
        <4>3. p = q => i = j
          BY <1>1, <3>5 DEF Going, Saying, said
        <4>4. p \in Nat /\ q \in Nat /\ i \in Nat /\ j \in Nat
          BY <1>2, <1>3
        <4> QED BY <4>2, <4>3, <4>4
      <3> QED BY <3>3, <3>4, <3>5
    <2>2. kept' = said /\ attempt' = attempt
      BY <1>1, <1>2
    <2> HIDE DEF said
    <2>3. \A type : TellsOf(type)' = {p \in DOMAIN Stream : Stream[p].type = type}
      BY <1>5 DEF TellsOf
    <2>4. \A m : Visible(m)' <=> Visible(m)
      BY <2>2 DEF Visible, Asked, Msg
    <2>5. ASSUME NEW type \in {"message_start", "message_end"}
          PROVE  /\ \A i \in DOMAIN kept' : Visible(kept[i])' => \E p \in TellsOf(type)' : out'[p].message = kept'[i]
                 /\ \A p \in TellsOf(type)' : \E i \in DOMAIN kept' : out'[p].message = kept'[i] /\ Visible(kept[i])'
                 /\ \A p, q \in TellsOf(type)', i, j \in DOMAIN kept' :
                       out'[p].message = kept'[i] /\ out'[q].message = kept'[j] => (p < q <=> i < j)
      <3>1. type \in Told
        BY DEF Told
      <3> QED BY <1>5, <2>1, <2>2, <2>3, <2>4, <3>1
    <2> QED BY <2>5 DEF ShownIsKept
  <1> QED BY <1>6, <1>7, <1>9, <1>10 DEF IInv

\* What is shown while a run goes on is of its last attempt.
LEMMA RunningHides == ASSUME Typed, Going PROVE FailedAttemptsHidden
  <1>1. /\ Len(out) \in Nat /\ Len(buffered) \in Nat /\ DOMAIN buffered = 1..Len(buffered)
        /\ \A p \in DOMAIN out : p \in 1..Len(out) /\ p \in DOMAIN Stream /\ Stream[p] = out[p]
        /\ \A p \in DOMAIN buffered : Len(out) + p \in DOMAIN Stream /\ Stream[Len(out) + p] = buffered[p]
        /\ \A p \in 1..Len(out) : p \in DOMAIN out
    BY Places
  <1>2. meaningful => buffered = <<>>
    BY DEF Going, HeldBack
  <1>3. ASSUME Len(buffered) > 3 PROVE FALSE
    <2>1. ~meaningful
      BY <1>2, <1>3
    <2>2. /\ \A p \in DOMAIN out : ~meaningfulEvent(out[p])
          /\ \A p \in DOMAIN buffered : ~meaningfulEvent(buffered[p]) /\ Rank(buffered[p]) \in {1, 2, 3}
      BY <2>1 DEF Going, HeldBack, isFailureCandidate, Rank
    <2>3. ASSUME NEW p \in DOMAIN buffered PROVE QuietTo(Len(out) + p)
      <3>1. ASSUME NEW k \in 1..(Len(out) + p) PROVE ~meaningfulEvent(Stream[k])
        <4>1. CASE k <= Len(out)
          <5>1. k \in DOMAIN out /\ Stream[k] = out[k]
            BY <1>1, <4>1
          <5> QED BY <2>2, <5>1
        <4>2. CASE k > Len(out)
          <5>1. k - Len(out) \in DOMAIN buffered /\ Len(out) + (k - Len(out)) = k
            BY <1>1, <4>2
          <5>2. Stream[k] = buffered[k - Len(out)]
            BY <1>1, <5>1
          <5> QED BY <2>2, <5>1, <5>2
        <4> QED BY <1>1, <4>1, <4>2
      <3> QED BY <3>1 DEF QuietTo
    <2>4. ASSUME NEW p \in DOMAIN buffered, NEW q \in DOMAIN buffered, q < p PROVE Rank(buffered[q]) < Rank(buffered[p])
      <3>1. Len(out) + p \in DOMAIN Stream /\ Len(out) + q \in 1..((Len(out) + p) - 1)
        BY <1>1, <2>4
      <3>2. Before(Stream[Len(out) + q], Stream[Len(out) + p])
        BY <2>3, <3>1 DEF Going, Quiet
      <3>3. Before(buffered[q], buffered[p])
        BY <1>1, <3>2
      <3> QED BY <2>2, <3>3 DEF Before
    <2>5. 1 \in DOMAIN buffered /\ 2 \in DOMAIN buffered /\ 3 \in DOMAIN buffered /\ 4 \in DOMAIN buffered
      BY <1>1, <1>3
    <2>6. Rank(buffered[1]) < Rank(buffered[2]) /\ Rank(buffered[2]) < Rank(buffered[3]) /\ Rank(buffered[3]) < Rank(buffered[4])
      BY <2>4, <2>5
    <2> QED BY <2>2, <2>5, <2>6
  <1>4. \A p \in DOMAIN out : out[p].type # "agent_end" /\ out[p].message.role \in {"assistant", "tool"} => out[p].message.of = attempt
    BY <1>1 DEF Going, OwnAttempt
  <1>5. ASSUME NEW p \in DOMAIN out, NEW q \in DOMAIN out, p # q, Opening(out[p]) PROVE out[q] # out[p]
    BY <1>1, <1>5 DEF Going, OneOpening, Live
  <1> QED BY <1>1, <1>2, <1>3, <1>4, <1>5 DEF FailedAttemptsHidden

LEMMA AbandonInv == ASSUME IInv, Abandon PROVE IInv'
  <1> DEFINE e == RunEvent("agent_end", AbortedRun, TRUE)
  <1>1. /\ Typed /\ Going /\ kept' = AbortedRun /\ out' = Append(out, e) /\ buffered' = <<>>
        /\ UNCHANGED <<aborted, loop, steers, feed, attempt, meaningful>>
    BY DEF Abandon, IInv
  <1>2. AbortedRun \in Seq(Msgs) /\ AbortedRun # <<>>
    <2>1. AbortedMsg \in Msgs
      BY DEF AbortedMsg, Msg, Msgs, Roles
    <2> QED BY <2>1, AskedFacts DEF AbortedRun
  <1>3. e \in Events /\ e.type = "agent_end" /\ ~Opening(e)
    BY <1>2, EndEvent
  <1> HIDE DEF e
  <1>4. out \in Seq(Events) /\ out' \in Seq(Events)
    BY <1>1, <1>3, AppendProperties DEF Typed
  <1>5. Typed'
    BY <1>1, <1>4, EmptySeq DEF Typed
  <1>6. \A p \in DOMAIN out' : out'[p] = e \/ (p \in DOMAIN out /\ out'[p] = out[p])
    BY <1>1, <1>3, <1>4
  <1>7. FailedAttemptsHidden
    BY <1>1, RunningHides
  <1>8. FailedAttemptsHidden'
    <2>1. Len(buffered') <= 3
      BY <1>1
    <2>2. \A p \in DOMAIN out' : out'[p].type # "agent_end" /\ out'[p].message.role \in {"assistant", "tool"}
                                   => out'[p].message.of = attempt
      BY <1>3, <1>6, <1>7 DEF FailedAttemptsHidden
    <2>3. \A p, q \in DOMAIN out' : p # q /\ Opening(out'[p]) => out'[q] # out'[p]
      BY <1>3, <1>6, <1>7 DEF FailedAttemptsHidden, Opening
    <2> QED BY <1>1, <2>1, <2>2, <2>3 DEF FailedAttemptsHidden, Opening, Asked, Msg
  <1>9. ShownIsKept' /\ Ended'
    BY <1>1, <1>2 DEF ShownIsKept, Ended, AbortedRun, AbortedMsg, Asked, Msg
  <1> QED BY <1>5, <1>8, <1>9 DEF IInv

LEMMA InitInv == ASSUME ForwardInit PROVE IInv
  <1>1. /\ aborted = FALSE /\ attempt = 1 /\ loop = Loop("asking", 1, <<Asked>>) /\ steers = 0 /\ feed = Prologue
        /\ buffered = <<>> /\ meaningful = FALSE /\ out = <<>> /\ kept = <<>>
    BY DEF ForwardInit
  <1>2. /\ loop \in [at : Points, turn : Nat \ {0}, said : Seq(Msgs)] /\ loop.at = "asking"
        /\ loop.said = <<Asked>> /\ DOMAIN <<Asked>> = {1} /\ <<Asked>>[1] = Asked
    BY <1>1, AskedFacts DEF Loop, Points
  <1>3. Typed
    <2>1. aborted \in BOOLEAN /\ meaningful \in BOOLEAN
      BY <1>1, Zenon
    <2>2. out \in Seq(Events) /\ buffered \in Seq(Events) /\ feed \in Seq(Events)
      BY <1>1, PrologueEvents, EmptySeq
    <2> QED BY <1>1, <1>2, <2>1, <2>2 DEF Typed
  <1>4. Stream = Prologue /\ DOMAIN out = {} /\ DOMAIN buffered = {}
    <2>1. out \o buffered = <<>>
      BY <1>1, EmptySeq, ConcatEmptySeq
    <2>2. <<>> \o Prologue = Prologue
      BY PrologueEvents, ConcatEmptySeq
    <2> QED BY <1>1, <2>1, <2>2 DEF Stream, Shows
  <1>5. DOMAIN Stream = 1..4 /\ Len(Stream) = 4 /\ \A p \in 1..4 : Fresh(Stream[p]) /\ Live(p)
    BY <1>1, <1>4, PrologueEvents, PrologueFresh DEF Live
  <1>6. EndIsLast /\ OwnAttempt
    BY <1>5 DEF EndIsLast, OwnAttempt, Fresh
  <1>7. Saying
    <2>1. loop.said # <<>> /\ loop.said[1] = Asked /\ DOMAIN loop.said = {1}
      BY <1>2
    <2>2. \A i \in DOMAIN loop.said : loop.said[i].role = "user" /\ loop.said[i].of = 0 /\ loop.said[i].n <= steers
      BY <1>1, <2>1, AskedFacts
    <2>3. \A i, j \in DOMAIN loop.said : i = j
      BY <2>1
    <2> QED BY <2>1, <2>2, <2>3 DEF Saying, Allowed
  <1>8. Quiet
    <2>1. \A p \in 1..4 : Plain(Stream[p]) /\ Rank(Stream[p]) = 0 /\ \A q \in 1..(p - 1) : q \in 1..4
      BY <1>5 DEF Fresh
    <2>2. \A p \in 1..4 : Plain(Stream[p]) /\ \A q \in 1..(p - 1) : Before(Stream[q], Stream[p])
      BY <2>1 DEF Before
    <2>3. \A p \in 1..4 : Rank(Stream[p]) <= Stage(loop.at)
      BY <1>2, <2>1 DEF Stage
    <2> QED BY <1>2, <1>5, <2>2, <2>3 DEF Quiet
  <1>9. HeldBack
    BY <1>1, <1>4 DEF HeldBack
  <1>10. OneOpening
    <2>1. \A p, q \in 1..4 : Stream[p] = Stream[q] => p = q
      BY <1>4, PrologueEvents
    <2> QED BY <1>5, <2>1 DEF OneOpening
  <1>11. InOrder
    <2> SUFFICES ASSUME NEW type \in Told PROVE Listed(type) /\ Ordered(type) /\ Complete(type)
      BY DEF InOrder
    <2>1. SaidAt(type) = <<Asked>> /\ Visible(Asked)
      BY <1>2 DEF SaidAt, Begun, Visible
    <2>2. PICK at \in 1..4 : /\ Stream[at].type = type /\ Stream[at].message = Asked
                             /\ \A p \in 1..4 : Stream[p].type = type => p = at
      BY <1>4, PrologueEvents DEF Told
    <2>3. Listed(type)
      BY <1>2, <1>5, <2>1, <2>2 DEF Listed, Tells
    <2>4. Ordered(type)
      BY <1>5, <2>2 DEF Ordered, Tells
    <2>5. Complete(type)
      BY <1>2, <1>5, <2>1, <2>2 DEF Complete, Tells
    <2> QED BY <2>3, <2>4, <2>5
  <1>12. ~Ended
    BY <1>1 DEF Ended
  <1> QED BY <1>3, <1>6, <1>7, <1>8, <1>9, <1>10, <1>11, <1>12 DEF IInv, Going

\* The parts do not speak of the run's context.
LEMMA SameInv ==
  ASSUME IInv, aborted' \in BOOLEAN, UNCHANGED <<loop, steers, feed, attempt, buffered, meaningful, out, kept>>
  PROVE  IInv'
  <1>1. UNCHANGED <<loop, steers, feed, attempt, buffered, meaningful, out, kept>>
    OBVIOUS
  <1>2. Typed' /\ (Ended' <=> Ended)
    BY <1>1 DEF IInv, Typed, Ended
  <1>3. CASE Ended
    <2>1. FailedAttemptsHidden'
      BY <1>1, <1>3 DEF IInv, FailedAttemptsHidden, Opening, Asked, Msg
    <2>2. ShownIsKept'
      <3>1. ShownIsKept
        BY <1>3 DEF IInv
      <3>2. AbortedRun' = AbortedRun /\ kept' = kept /\ out' = out
        BY <1>1 DEF AbortedRun, AbortedMsg, Asked, Msg
      <3>3. /\ \A type : TellsOf(type)' = TellsOf(type)
            /\ \A m : Visible(m)' <=> Visible(m)
        BY <1>1 DEF TellsOf, Visible, Asked, Msg
      <3>4. CASE kept = AbortedRun
        BY <3>2, <3>4 DEF ShownIsKept
      <3>5. CASE kept # AbortedRun
        <4> DEFINE types == {"message_start", "message_end"}
        <4>1. \A type \in types :
                /\ \A i \in DOMAIN kept : Visible(kept[i]) => \E p \in TellsOf(type) : out[p].message = kept[i]
                /\ \A p \in TellsOf(type) : \E i \in DOMAIN kept : out[p].message = kept[i] /\ Visible(kept[i])
                /\ \A p, q \in TellsOf(type), i, j \in DOMAIN kept :
                     out[p].message = kept[i] /\ out[q].message = kept[j] => (p < q <=> i < j)
          BY <1>3, <3>1, <3>5, Zenon DEF ShownIsKept
        <4>2. \A type \in types :
                /\ \A i \in DOMAIN kept' : Visible(kept[i])' => \E p \in TellsOf(type)' : out'[p].message = kept'[i]
                /\ \A p \in TellsOf(type)' : \E i \in DOMAIN kept' : out'[p].message = kept'[i] /\ Visible(kept[i])'
                /\ \A p, q \in TellsOf(type)', i, j \in DOMAIN kept' :
                     out'[p].message = kept'[i] /\ out'[q].message = kept'[j] => (p < q <=> i < j)
          <5> HIDE DEF types
          <5> QED BY <3>2, <3>3, <4>1
        <4> QED BY <4>2, Zenon DEF ShownIsKept
      <3> QED BY <3>4, <3>5
    <2> QED BY <1>2, <1>3, <2>1, <2>2 DEF IInv
  <1>4. CASE ~Ended
    <2>1. Going
      BY <1>4 DEF IInv
    <2>2. Stream' = Stream /\ Shows' = Shows
      BY <1>1 DEF Stream, Shows
    <2>3. EndIsLast' /\ OwnAttempt'
      BY <1>1, <2>1, <2>2 DEF Going, EndIsLast, OwnAttempt
    <2>4. Saying'
      BY <1>1, <2>1 DEF Going, Saying, Allowed, Asked, Msg
    <2>5. Quiet'
      BY <1>1, <2>1, <2>2 DEF Going, Quiet, QuietTo, Plain, Before, Rank, Stage, meaningfulEvent, isFailureCandidate, isAttemptPrefix,
               OfAssistant, NoMsg, Asked, Msg
    <2>6. HeldBack'
      BY <1>1, <2>1 DEF Going, HeldBack, meaningfulEvent, Rank, isFailureCandidate, OfAssistant
    <2>7. \A p \in DOMAIN Stream : Live(p)' <=> Live(p)
      BY <1>1, <2>2 DEF Live, isAttemptPrefix
    <2>8. OneOpening'
      BY <2>1, <2>2, <2>7 DEF Going, OneOpening, Opening, Asked, Msg
    <2>9. InOrder'
      <3> SUFFICES ASSUME NEW type \in Told PROVE Listed(type)' /\ Ordered(type)' /\ Complete(type)'
        BY DEF InOrder
      <3>1. /\ SaidAt(type)' = SaidAt(type) /\ \A p \in DOMAIN Stream : Tells(p, type)' <=> Tells(p, type)
        BY <1>1, <2>2, <2>7 DEF SaidAt, Begun, AnswerOf, Msg, Tells
      <3>2. Listed(type) /\ Ordered(type) /\ Complete(type)
        BY <2>1 DEF Going, InOrder
      <3>3. Listed(type)'
        BY <1>1, <2>2, <3>1, <3>2 DEF Listed, Visible, Asked, Msg
      <3>4. Ordered(type)'
        BY <2>2, <3>1, <3>2 DEF Ordered
      <3>5. Complete(type)'
        BY <1>1, <2>2, <3>1, <3>2 DEF Complete, Visible, Asked, Msg
      <3> QED BY <3>3, <3>4, <3>5
    <2> QED BY <1>2, <1>4, <2>1, <2>3, <2>4, <2>5, <2>6, <2>8, <2>9 DEF IInv, Going
  <1> QED BY <1>3, <1>4

LEMMA AbortInv == ASSUME IInv, Abort PROVE IInv'
  BY SameInv DEF Abort, forwardVars

LEMMA StutterInv == ASSUME IInv, UNCHANGED forwarding PROVE IInv'
  BY SameInv DEF forwarding, forwardVars, IInv, Typed

LEMMA StepInv == ASSUME IInv, [ForwardNext]_forwarding PROVE IInv'
  <1>1. CASE Abort
    BY <1>1, AbortInv
  <1>2. CASE LoopStarts
    BY <1>2, StartsInv
  <1>3. CASE LoopSpeaks
    BY <1>3, SpeaksInv
  <1>4. CASE LoopFails
    BY <1>4, FailsInv
  <1>5. CASE LoopAnswers
    BY <1>5, AnswersInv
  <1>6. CASE LoopCalls
    BY <1>6, CallsInv
  <1>7. CASE LoopContinues
    BY <1>7, ContinuesInv
  <1>8. CASE LoopEnds
    BY <1>8, EndsInv
  <1>9. CASE Forward
    BY <1>9, ForwardInv
  <1>10. CASE Failover
    BY <1>10, FailoverInv
  <1>11. CASE FinishRun
    BY <1>11, FinishRunInv
  <1>12. CASE Abandon
    BY <1>12, AbandonInv
  <1>13. CASE UNCHANGED forwarding
    BY <1>13, StutterInv
  <1> QED BY <1>1, <1>2, <1>3, <1>4, <1>5, <1>6, <1>7, <1>8, <1>9, <1>10, <1>11, <1>12, <1>13 DEF ForwardNext, Forwards

------------------------------------------------------------------------------
(* Results.                                                                *)

\* The parts hold in every state of forward and its loop (chat.go forward,
\* loop.go Run).
THEOREM ForwardInvariance == ForwardSpec => []IInv
  <1>1. ForwardInit => IInv
    BY InitInv
  <1>2. IInv /\ [ForwardNext]_forwarding => IInv'
    BY StepInv
  <1> QED BY <1>1, <1>2, PTL DEF ForwardSpec

\* forward shows one run whatever the number of models it fails over to: what
\* it showed of an answer or a tool is the last attempt's, the opening was shown
\* once, and no more than a failed answer's events are held back (chat.go
\* forward, isAttemptPrefix, isFailureCandidate).
THEOREM OneRunShown == ForwardSpec => []FailedAttemptsHidden
  <1>1. IInv => FailedAttemptsHidden
    BY RunningHides DEF IInv
  <1> QED BY <1>1, ForwardInvariance, PTL

\* The messages a consumer saw begin, and those it saw end, are the messages the
\* conversation keeps at the end of a run, in their order, for any number of
\* turns and steered messages (chat.go forward, finishRun).
THEOREM ShownIsWhatIsKept == ForwardSpec => []ShownIsKept
  <1>1. IInv => ShownIsKept
    BY DEF IInv, ShownIsKept
  <1> QED BY <1>1, ForwardInvariance, PTL
==============================================================================
