------------------------- MODULE ChatSessionProofs -------------------------
(***************************************************************************)
(* Proofs about ChatSession for any runs, sessions, rewrites and faults.   *)
(***************************************************************************)
EXTENDS ChatSession, SequenceTheorems, WellFoundedInduction, TLAPS

Msgs == [kind: {"prompt", "answer", "summary", "notice"}, turns: SUBSET Runs]
Texts == Seq(Msgs)

Places == [phase: Phases, seen: Texts]
Captures == [session: Sessions \cup {"the current"}, text: Texts]
Captured == {<<c>> : c \in Captures}

Typed ==
    /\ running \in BOOLEAN /\ holder \in Runs \cup {NoRun}
    /\ id \in Sessions /\ messages \in Texts
    /\ disk \in [Sessions -> Texts]
    /\ run \in [Runs -> Places]
    /\ compactor \in [phase: {"idle", "summarizing"}, session: Sessions, seen: Texts]
    /\ pending \in [Writers -> {<<>>} \cup Captured]
    /\ ended \subseteq Runs /\ excused \subseteq Runs
    /\ home \in [Runs -> Sessions] /\ raced \in BOOLEAN
    /\ \A r \in ended : run[r].phase \in {"ended", "gone"}

------------------------------------------------------------------------------
(* What a conversation looks like, whoever wrote it.                       *)

\* A summary comes first, and an answer directly after its prompt, or after the
\* summary that has its prompt.
InTurns(h) ==
    \A j \in DOMAIN h :
        /\ h[j].kind = "summary" => j = 1
        /\ h[j].kind = "answer" =>
             j > 1 /\ (h[j - 1].kind = "summary" \/ h[j - 1] = Message("prompt", h[j].turns))
Covers(m) == m.kind \in {"answer", "summary"}
Once(h) == \A i, j \in DOMAIN h : i # j /\ Covers(h[i]) /\ Covers(h[j]) => h[i].turns \cap h[j].turns = {}

\* The answers of a conversation are of runs that were prompted in its session
\* and have recorded their turn.
Recorded(r) == run[r].phase \notin {"none", "opening", "fitting", "asking"}
Sound(s, h) == InTurns(h) /\ Once(h) /\ \A r \in Answers(h) : home[r] = s /\ Recorded(r)

------------------------------------------------------------------------------
(* The invariant, as long as no operation overtook another.                *)

Alone == \A r \in Runs : Active(r) => running /\ holder = r /\ home[r] = id

\* The transcript is the conversation, or is about to be.
Current(w) == ~Idle(w) /\ <<Target(w), pending[w][1].text>> = <<id, messages>>
Follows == /\ unsaved \subseteq {id}
           /\ id \notin unsaved => disk[id] = messages \/ \E w \in Writers : Current(w)

OwnTurns == Sound(id, messages) /\ \A s \in Sessions : Sound(s, disk[s])

\* A turn that was recorded, and one whose write was tried.
Settled(r) == r \in ended \/ run[r].phase \in {"finished", "ended"} \/ (run[r].phase = "recording" /\ Idle(r))
Kept == \A r \in Runs \ excused :
    /\ run[r].phase = "recording" \/ (Settled(r) /\ home[r] = id) => r \in Answers(messages)
    /\ Settled(r) => home[r] \in unsaved \/ r \in Answers(disk[home[r]])

IInv == /\ Typed
        /\ BusyMeansRun
        /\ ~raced => Alone /\ Follows /\ OwnTurns /\ Kept

------------------------------------------------------------------------------
(* What the operations do to a conversation.                               *)

LEMMA TextFacts ==
  ASSUME NEW h \in Texts
  PROVE  /\ Len(h) \in Nat /\ DOMAIN h = 1..Len(h)
         /\ \A i \in 1..Len(h) : h[i] \in Msgs /\ h[i].turns \subseteq Runs
  <1>1. h \in Seq(Msgs)
    BY DEF Texts
  <1>2. Len(h) \in Nat /\ DOMAIN h = 1..Len(h) /\ \A i \in 1..Len(h) : h[i] \in Msgs
    BY <1>1, LenProperties, ElementOfSeq
  <1> QED BY <1>2 DEF Msgs

LEMMA AnswersIn ==
  ASSUME NEW h \in Texts
  PROVE  \A r : r \in Answers(h) <=> \E i \in 1..Len(h) : Covers(h[i]) /\ r \in h[i].turns
  BY TextFacts DEF Answers, Covers

\* A part of a conversation.
LEMMA PartFacts ==
  ASSUME NEW h \in Texts, NEW m \in Nat \ {0}, NEW n \in Nat, n <= Len(h)
  PROVE  /\ SubSeq(h, m, n) \in Texts /\ Len(SubSeq(h, m, n)) = IF m <= n THEN n - m + 1 ELSE 0
         /\ \A i \in 1..(n - m + 1) : SubSeq(h, m, n)[i] = h[m + i - 1]
  <1>1. \A i \in m..n : h[i] \in Msgs
    BY TextFacts
  <1> QED BY <1>1, SubSeqProperties DEF Texts

\* One message is put before or after others.
LEMMA JoinFacts ==
  ASSUME NEW h \in Texts, NEW g \in Texts
  PROVE  /\ h \o g \in Texts /\ Len(h \o g) = Len(h) + Len(g)
         /\ \A i \in 1..Len(h) : (h \o g)[i] = h[i]
         /\ \A i \in 1..Len(g) : (h \o g)[Len(h) + i] = g[i]
  <1>1. Len(h) \in Nat /\ Len(g) \in Nat
    BY TextFacts
  <1>2. /\ h \o g \in Texts /\ Len(h \o g) = Len(h) + Len(g)
        /\ \A i \in 1 .. Len(h) + Len(g) : (h \o g)[i] = IF i <= Len(h) THEN h[i] ELSE g[i - Len(h)]
    BY ConcatProperties DEF Texts
  <1> QED BY <1>1, <1>2

LEMMA CompactedTyped ==
  ASSUME NEW h \in Texts, NEW k \in Cuts(h)
  PROVE  /\ Compacted(h, k) \in Texts
         /\ Len(Compacted(h, k)) = Len(h) - k + 1
         /\ Compacted(h, k)[1] = Message("summary", Answers(SubSeq(h, 1, k)))
         /\ \A i \in 2..Len(Compacted(h, k)) : Compacted(h, k)[i] = h[k + i - 1] /\ k + i - 1 \in 1..Len(h)
         /\ \A r : r \in Answers(SubSeq(h, 1, k)) <=> \E i \in 1..k : Covers(h[i]) /\ r \in h[i].turns
  <1> DEFINE a == Answers(SubSeq(h, 1, k))
             b == <<Message("summary", a)>>
             c == SubSeq(h, k + 1, Len(h))
             g == Compacted(h, k)
  <1>1. k \in Nat /\ 1 <= k /\ k < Len(h) /\ Len(h) \in Nat
    BY TextFacts DEF Cuts
  <1>2. SubSeq(h, 1, k) \in Texts /\ Len(SubSeq(h, 1, k)) = k /\ \A i \in 1..k : SubSeq(h, 1, k)[i] = h[i]
    BY <1>1, PartFacts
  <1>3. \A r : r \in a <=> \E i \in 1..k : Covers(h[i]) /\ r \in h[i].turns
    BY <1>2, AnswersIn
  <1>4. a \subseteq Runs
    BY <1>1, <1>3, TextFacts
  <1>5. b \in Texts /\ Len(b) = 1 /\ b[1] = Message("summary", a)
    BY <1>4 DEF Texts, Msgs, Message
  <1>6. c \in Texts /\ Len(c) = Len(h) - k /\ \A i \in 1..(Len(h) - k) : c[i] = h[k + i]
    BY <1>1, PartFacts
  <1>7. g = b \o c
    BY DEF Compacted
  <1> HIDE DEF a, b, c, g
  <1>8. /\ g \in Texts /\ Len(g) = Len(h) - k + 1 /\ g[1] = Message("summary", a)
        /\ \A i \in 2..Len(g) : g[i] = h[k + i - 1] /\ k + i - 1 \in 1..Len(h)
    <2>1. /\ b \o c \in Texts /\ Len(b \o c) = 1 + (Len(h) - k)
          /\ (b \o c)[1] = b[1] /\ \A i \in 1..Len(c) : (b \o c)[1 + i] = c[i]
      <3>1. /\ b \o c \in Texts /\ Len(b \o c) = Len(b) + Len(c)
            /\ \A i \in 1..Len(b) : (b \o c)[i] = b[i]
            /\ \A i \in 1..Len(c) : (b \o c)[Len(b) + i] = c[i]
        BY <1>5, <1>6, JoinFacts
      <3> QED BY <1>5, <1>6, <3>1
    <2>2. \A i \in 2..(Len(h) - k + 1) : (b \o c)[i] = c[i - 1]
      <3>1. ASSUME NEW i \in 2..(Len(h) - k + 1) PROVE (b \o c)[i] = c[i - 1]
        <4>1. i - 1 \in 1..Len(c) /\ 1 + (i - 1) = i
          BY <1>1, <1>6
        <4> QED BY <2>1, <4>1
      <3> QED BY <3>1
    <2>3. ASSUME NEW i \in 2..(Len(h) - k + 1) PROVE g[i] = h[k + i - 1] /\ k + i - 1 \in 1..Len(h)
      <3>1. i - 1 \in 1..(Len(h) - k) /\ k + (i - 1) = k + i - 1 /\ k + i - 1 \in 1..Len(h)
        BY <1>1
      <3> QED BY <1>6, <1>7, <2>2, <3>1
    <2> QED BY <1>1, <1>5, <1>6, <1>7, <2>1, <2>3
  <1> QED BY <1>3, <1>8 DEF a, g

\* A compacted conversation answers the same turns, in the same shape.
LEMMA CompactedSound ==
  ASSUME NEW h \in Texts, NEW k \in Cuts(h), InTurns(h), Once(h)
  PROVE  /\ Compacted(h, k) \in Texts /\ Answers(Compacted(h, k)) = Answers(h)
         /\ InTurns(Compacted(h, k)) /\ Once(Compacted(h, k))
  <1> DEFINE a == Answers(SubSeq(h, 1, k))
             g == Compacted(h, k)
  <1>1. k \in Nat /\ 1 <= k /\ k < Len(h) /\ Len(h) \in Nat
    BY TextFacts DEF Cuts
  <1>3. \A r : r \in a <=> \E i \in 1..k : Covers(h[i]) /\ r \in h[i].turns
    BY CompactedTyped
  <1>8. /\ g \in Texts /\ Len(g) = Len(h) - k + 1 /\ g[1] = Message("summary", a)
        /\ \A i \in 2..Len(g) : g[i] = h[k + i - 1] /\ k + i - 1 \in 1..Len(h)
    BY CompactedTyped
  <1> HIDE DEF a, g
  <1>9. DOMAIN g = 1..Len(g) /\ DOMAIN h = 1..Len(h) /\ g[1].kind = "summary" /\ g[1].turns = a /\ Covers(g[1])
    BY <1>8, TextFacts DEF Message, Covers
  <1>10. Answers(g) = Answers(h)
    <2>1. ASSUME NEW r \in Answers(g) PROVE r \in Answers(h)
      <3>1. PICK i \in 1..Len(g) : Covers(g[i]) /\ r \in g[i].turns
        BY <1>8, <2>1, AnswersIn
      <3>2. CASE i = 1
        BY <1>1, <1>3, <1>9, <3>1, <3>2, AnswersIn
      <3>3. CASE i # 1
        <4>1. i \in 2..Len(g)
          BY <1>1, <1>8, <3>3
        <4> QED BY <1>8, <3>1, <4>1, AnswersIn
      <3> QED BY <3>2, <3>3
    <2>2. ASSUME NEW r \in Answers(h) PROVE r \in Answers(g)
      <3>1. PICK i \in 1..Len(h) : Covers(h[i]) /\ r \in h[i].turns
        BY <2>2, AnswersIn
      <3>2. CASE i <= k
        BY <1>1, <1>3, <1>8, <1>9, <3>1, <3>2, AnswersIn, SMTT(40)
      <3>3. CASE i > k
        <4>1. i - k + 1 \in 2..Len(g) /\ k + (i - k + 1) - 1 = i
          BY <1>1, <1>8, <3>3
        <4>2. g[i - k + 1] = h[i] /\ i - k + 1 \in 1..Len(g)
          BY <1>1, <1>8, <4>1
        <4> QED BY <1>8, <3>1, <4>2, AnswersIn
      <3> QED BY <1>1, <3>2, <3>3
    <2> QED BY <2>1, <2>2
  <1>11. InTurns(g)
    <2>1. ASSUME NEW j \in DOMAIN g
          PROVE  /\ g[j].kind = "summary" => j = 1
                 /\ g[j].kind = "answer" =>
                      j > 1 /\ (g[j - 1].kind = "summary" \/ g[j - 1] = Message("prompt", g[j].turns))
      <3>1. CASE j = 1
        BY <1>9, <3>1
      <3>2. CASE j = 2
        BY <1>1, <1>8, <1>9, <2>1, <3>2 DEF InTurns
      <3>3. CASE j > 2
        <4>1. j \in 2..Len(g) /\ j - 1 \in 2..Len(g) /\ k + j - 1 \in DOMAIN h /\ k + j - 1 > 1 /\ k + (j - 1) - 1 = (k + j - 1) - 1
          BY <1>1, <1>8, <1>9, <2>1, <3>3
        <4> QED BY <1>8, <3>3, <4>1 DEF InTurns
      <3> QED BY <1>9, <2>1, <3>1, <3>2, <3>3
    <2> QED BY <2>1 DEF InTurns
  <1>12. Once(g)
    <2>1. ASSUME NEW i \in 2..Len(g), Covers(g[i]) PROVE a \cap g[i].turns = {}
      <3>1. k + i - 1 \in DOMAIN h /\ k + i - 1 > k /\ g[i] = h[k + i - 1]
        BY <1>1, <1>8, <1>9, <2>1
      <3>2. ASSUME NEW r \in a PROVE r \notin h[k + i - 1].turns
        <4>1. PICK j \in 1..k : Covers(h[j]) /\ r \in h[j].turns
          BY <1>3
        <4>2. j \in DOMAIN h /\ j # k + i - 1
          BY <1>1, <1>9, <3>1
        <4> QED BY <2>1, <3>1, <4>1, <4>2 DEF Once
      <3> QED BY <3>1, <3>2
    <2>2. ASSUME NEW i \in 2..Len(g), NEW j \in 2..Len(g), i # j, Covers(g[i]), Covers(g[j])
          PROVE  g[i].turns \cap g[j].turns = {}
      <3>1. k + i - 1 # k + j - 1
        BY <1>1, <1>8, <2>2
      <3> QED BY <1>8, <1>9, <2>2, <3>1 DEF Once
    <2>3. \A i \in DOMAIN g : i = 1 \/ i \in 2..Len(g)
      BY <1>8, <1>9, <1>1
    <2> QED BY <1>9, <2>1, <2>2, <2>3 DEF Once
  <1> QED BY <1>8, <1>10, <1>11, <1>12 DEF g

\* A notice answers nothing.
LEMMA NoticeSound ==
  ASSUME NEW h \in Texts, InTurns(h), Once(h)
  PROVE  /\ Append(h, Notice) \in Texts /\ Answers(Append(h, Notice)) = Answers(h)
         /\ InTurns(Append(h, Notice)) /\ Once(Append(h, Notice))
  <1> DEFINE g == Append(h, Notice)
  <1>1. Notice \in Msgs /\ Notice.kind = "notice" /\ ~Covers(Notice)
    BY DEF Notice, Message, Msgs, Covers
  <1>2. /\ g \in Texts /\ Len(g) = Len(h) + 1 /\ g[Len(h) + 1] = Notice
        /\ \A i \in 1..Len(h) : g[i] = h[i]
    BY <1>1, AppendProperties DEF Texts
  <1> HIDE DEF g
  <1>3. Len(h) \in Nat /\ DOMAIN h = 1..Len(h) /\ DOMAIN g = 1..(Len(h) + 1)
    BY <1>2, TextFacts
  <1>4. \A j \in DOMAIN g : j \in DOMAIN h \/ g[j] = Notice
    BY <1>2, <1>3
  <1>5. Answers(g) = Answers(h)
    <2>1. \A r : (\E i \in 1..Len(g) : Covers(g[i]) /\ r \in g[i].turns)
                   <=> \E i \in 1..Len(h) : Covers(h[i]) /\ r \in h[i].turns
      BY <1>1, <1>2, <1>3, <1>4
    <2>2. \A r : r \in Answers(g) <=> r \in Answers(h)
      BY <1>2, <2>1, AnswersIn
    <2> QED BY <2>2
  <1>6. InTurns(g)
    <2>1. ASSUME NEW j \in DOMAIN h, j > 1 PROVE g[j] = h[j] /\ g[j - 1] = h[j - 1]
      BY <1>2, <1>3, <2>1
    <2> QED BY <1>1, <1>2, <1>3, <1>4, <2>1 DEF InTurns
  <1>7. Once(g)
    BY <1>1, <1>2, <1>3, <1>4 DEF Once
  <1> QED BY <1>2, <1>5, <1>6, <1>7 DEF g

\* A turn that is not there yet is joined.
LEMMA TurnSound ==
  ASSUME NEW h \in Texts, InTurns(h), Once(h), NEW r \in Runs, r \notin Answers(h)
  PROVE  /\ h \o Turn(r) \in Texts /\ Answers(h \o Turn(r)) = Answers(h) \cup {r}
         /\ InTurns(h \o Turn(r)) /\ Once(h \o Turn(r))
  <1> DEFINE t == Turn(r)
             g == h \o Turn(r)
             n == Len(h)
  <1>1. t \in Texts /\ Len(t) = 2 /\ t[1] = Message("prompt", {r}) /\ t[2] = Message("answer", {r})
    BY DEF Turn, Message, Texts, Msgs
  <1>2. /\ g \in Texts /\ Len(g) = Len(h) + Len(t)
        /\ \A i \in 1..Len(h) : g[i] = h[i]
        /\ \A i \in 1..Len(t) : g[Len(h) + i] = t[i]
    BY <1>1, JoinFacts
  <1>3. n \in Nat /\ DOMAIN h = 1..n /\ DOMAIN g = 1..(n + 2) /\ Len(g) = n + 2
    BY <1>1, <1>2, TextFacts
  <1>4. /\ \A i \in 1..n : g[i] = h[i]
        /\ g[n + 1] = Message("prompt", {r}) /\ g[n + 2] = Message("answer", {r})
    <2>1. 1 \in 1..Len(t) /\ 2 \in 1..Len(t)
      BY <1>1
    <2> QED BY <1>1, <1>2, <2>1
  <1> HIDE DEF t, g, n
  <1>5. /\ \A i \in DOMAIN g : i \in 1..n \/ i = n + 1 \/ i = n + 2
        /\ ~Covers(g[n + 1]) /\ Covers(g[n + 2]) /\ g[n + 2].turns = {r}
    BY <1>3, <1>4 DEF Message, Covers
  <1>6. Answers(g) = Answers(h) \cup {r}
    <2>1. \A q : q \in Answers(g) <=> \E i \in DOMAIN g : Covers(g[i]) /\ q \in g[i].turns
      BY <1>2, <1>3, AnswersIn
    <2>2. \A q : q \in Answers(h) <=> \E i \in 1..n : Covers(h[i]) /\ q \in h[i].turns
      BY AnswersIn DEF n
    <2>3. ASSUME NEW q \in Answers(g) PROVE q \in Answers(h) \/ q = r
      BY <1>4, <1>5, <2>1, <2>2
    <2>4. \A q \in Answers(h) : q \in Answers(g)
      BY <1>3, <1>4, <2>1, <2>2
    <2>5. r \in Answers(g)
      BY <1>3, <1>5, <2>1
    <2> QED BY <2>3, <2>4, <2>5
  <1>7. InTurns(g)
    <2>1. ASSUME NEW j \in DOMAIN g
          PROVE  /\ g[j].kind = "summary" => j = 1
                 /\ g[j].kind = "answer" =>
                      j > 1 /\ (g[j - 1].kind = "summary" \/ g[j - 1] = Message("prompt", g[j].turns))
      <3>1. CASE j \in 1..n
        <4>1. g[j] = h[j] /\ (j > 1 => g[j - 1] = h[j - 1])
          BY <1>3, <1>4, <3>1
        <4> QED BY <1>3, <3>1, <4>1 DEF InTurns
      <3>2. CASE j = n + 1
        BY <1>4, <3>2 DEF Message
      <3>3. CASE j = n + 2
        <4>1. j > 1 /\ j - 1 = n + 1
          BY <1>3, <3>3
        <4> QED BY <1>4, <3>3, <4>1 DEF Message
      <3> QED BY <1>5, <3>1, <3>2, <3>3
    <2> QED BY <2>1 DEF InTurns
  <1>8. Once(g)
    <2>1. ASSUME NEW i \in 1..n, Covers(g[i]) PROVE r \notin g[i].turns
      BY <1>3, <1>4, <2>1, AnswersIn DEF n
    <2>2. ASSUME NEW i \in 1..n, NEW j \in 1..n, i # j, Covers(g[i]), Covers(g[j])
          PROVE  g[i].turns \cap g[j].turns = {}
      BY <1>3, <1>4, <2>2 DEF Once
    <2> QED BY <1>5, <2>1, <2>2 DEF Once
  <1> QED BY <1>2, <1>6, <1>7, <1>8 DEF g

\* A set of numbers below a bound has a greatest one.
LEMMA LeastNat ==
  ASSUME NEW T, T \subseteq Nat, T # {}
  PROVE  \E x \in T : \A y \in T : x <= y
  <1> DEFINE R == OpToRel(<, Nat)
  <1>1. IsWellFoundedOn(R, Nat)
    BY NatLessThanWellFounded
  <1>2. \A x, y \in Nat : y < x => <<y, x>> \in R
    BY Zenon DEF OpToRel
  <1> HIDE DEF R
  <1>3. PICK x \in T : \A y \in T : ~(<<y, x>> \in R)
    BY <1>1, WFMin
  <1>4. \A y \in T : x \in Nat /\ y \in Nat /\ ~(y < x)
    BY <1>2, <1>3
  <1> QED BY <1>4

LEMMA GreatestNat ==
  ASSUME NEW n \in Nat, NEW T, T \subseteq 1..n, T # {}
  PROVE  \E x \in T : \A y \in T : y <= x
  <1> DEFINE D == {n - x : x \in T}
  <1>1. D \subseteq Nat /\ D # {}
    <2>1. \A x \in T : x \in 1..n /\ n - x \in Nat
      OBVIOUS
    <2>2. PICK x \in T : TRUE
      OBVIOUS
    <2>3. n - x \in D
      BY <2>2
    <2> QED BY <2>1, <2>3
  <1>2. PICK d \in D : \A e \in D : d <= e
    BY <1>1, LeastNat
  <1>3. PICK x \in T : d = n - x
    BY <1>2
  <1>4. \A y \in T : d <= n - y /\ y \in 1..n
    BY <1>2
  <1> QED BY <1>3, <1>4

\* What is before the last prompt answers all but that prompt.
LEMMA RevertSound ==
  ASSUME NEW h \in Texts, InTurns(h), Once(h), Prompts(h) # {}
  PROVE  LET g == SubSeq(h, 1, LastPrompt(h) - 1) IN
         /\ g \in Texts /\ InTurns(g) /\ Once(g) /\ LastPrompt(h) \in DOMAIN h
         /\ Answers(g) \subseteq Answers(h)
         /\ Answers(h) \subseteq Answers(g) \cup h[LastPrompt(h)].turns
  <1> DEFINE k == LastPrompt(h)
             g == SubSeq(h, 1, k - 1)
  <1>1. Len(h) \in Nat /\ DOMAIN h = 1..Len(h)
    BY TextFacts
  <1>2. k \in Prompts(h) /\ \A j \in Prompts(h) : j <= k
    <2>1. \E i \in Prompts(h) : \A j \in Prompts(h) : j <= i
      BY <1>1, GreatestNat DEF Prompts
    <2> QED BY <2>1 DEF LastPrompt
  <1> HIDE DEF k
  <1>3. k \in 1..Len(h) /\ h[k].kind = "prompt" /\ \A j \in 1..Len(h) : h[j].kind = "prompt" => j <= k
    BY <1>1, <1>2 DEF Prompts
  <1>4. g \in Texts /\ Len(g) = k - 1 /\ \A i \in 1..(k - 1) : g[i] = h[i]
    BY <1>1, <1>3, PartFacts
  <1>5. DOMAIN g = 1..(k - 1)
    BY <1>4, TextFacts
  <1> HIDE DEF g
  <1>6. InTurns(g)
    <2>1. ASSUME NEW j \in DOMAIN g PROVE g[j] = h[j] /\ j \in DOMAIN h /\ (j > 1 => g[j - 1] = h[j - 1])
      BY <1>1, <1>3, <1>4, <1>5
    <2> QED BY <2>1 DEF InTurns
  <1>7. Once(g)
    BY <1>1, <1>3, <1>4, <1>5 DEF Once
  <1>8. Answers(g) \subseteq Answers(h)
    BY <1>1, <1>3, <1>4, AnswersIn
  <1>9. ASSUME NEW r \in Answers(h), r \notin Answers(g) PROVE r \in h[k].turns
    <2>1. PICK j \in 1..Len(h) : Covers(h[j]) /\ r \in h[j].turns
      BY <1>9, AnswersIn
    <2>2. j >= k
      BY <1>1, <1>3, <1>4, <1>9, <2>1, AnswersIn
    <2>3. j # k
      BY <1>3, <2>1 DEF Covers
    <2>4. h[j].kind = "answer" /\ j > 1 /\ j - 1 \in 1..Len(h)
      BY <1>1, <1>3, <2>1, <2>2, <2>3 DEF InTurns, Covers
    <2>5. h[j - 1].kind # "summary"
      BY <1>1, <1>3, <2>2, <2>3, <2>4 DEF InTurns
    <2>6. h[j - 1] = Message("prompt", h[j].turns)
      BY <1>1, <2>4, <2>5 DEF InTurns
    <2>7. j - 1 = k
      BY <1>1, <1>3, <2>2, <2>3, <2>4, <2>6 DEF Message
    <2> QED BY <2>1, <2>6, <2>7 DEF Message
  <1> QED BY <1>1, <1>3, <1>4, <1>6, <1>7, <1>8, <1>9 DEF k, g

------------------------------------------------------------------------------
(* The steps.                                                              *)

\* One goroutine goes on and the others stay where they are.
Goes(r, phase, seen) ==
    /\ run' \in [Runs -> Places]
    /\ run'[r].phase = phase /\ run'[r].seen = seen
    /\ \A q \in Runs \ {r} : run'[q] = run[q]

LEMMA GoesTo ==
  ASSUME Typed, NEW r \in Runs, NEW phase \in Phases, NEW seen \in Texts,
         run' = [run EXCEPT ![r] = Goroutine(phase, seen)]
  PROVE  Goes(r, phase, seen)
  <1>1. Goroutine(phase, seen) \in Places /\ Goroutine(phase, seen).phase = phase /\ Goroutine(phase, seen).seen = seen
    BY DEF Goroutine, Places
  <1> QED BY <1>1 DEF Typed, Goes

LEMMA GoesOn ==
  ASSUME Typed, NEW r \in Runs, NEW phase \in Phases, run' = [run EXCEPT ![r].phase = phase]
  PROVE  Goes(r, phase, run[r].seen)
  <1> DEFINE x == [run[r] EXCEPT !.phase = phase]
  <1>1. x \in Places /\ x.phase = phase /\ x.seen = run[r].seen
    BY DEF Typed, Places
  <1>2. run' = [run EXCEPT ![r] = x]
    OBVIOUS
  <1> HIDE DEF x
  <1> QED BY <1>1, <1>2 DEF Typed, Goes

LEMMA CapturedFacts ==
  /\ <<>> \notin Captured
  /\ \A s \in Sessions \cup {"the current"}, t \in Texts :
       <<Write(s, t)>> \in Captured /\ <<Write(s, t)>> # <<>>
       /\ <<Write(s, t)>>[1].session = s /\ <<Write(s, t)>>[1].text = t
  /\ \A x \in Captured : x[1].text \in Texts
  <1>1. ASSUME NEW a \in Sessions \cup {"the current"}, NEW t \in Texts
        PROVE  <<Write(a, t)>> \in Captured /\ <<Write(a, t)>> # <<>>
               /\ <<Write(a, t)>>[1].session = a /\ <<Write(a, t)>>[1].text = t
    <2>1. Write(a, t) \in Captures /\ Write(a, t).session = a /\ Write(a, t).text = t
      BY DEF Write, Captures
    <2>2. <<Write(a, t)>> # <<>> /\ <<Write(a, t)>>[1] = Write(a, t)
      OBVIOUS
    <2>3. <<Write(a, t)>> \in Captured
      BY <2>1 DEF Captured
    <2> QED BY <2>1, <2>2, <2>3
  <1>2. ASSUME NEW x \in Captured PROVE x # <<>> /\ x[1].text \in Texts
    <2>1. PICK c \in Captures : x = <<c>>
      BY DEF Captured
    <2> QED BY <2>1 DEF Captures
  <1> QED BY <1>1, <1>2

LEMMA WriterFacts ==
  /\ \A r \in Runs : r \in Nat /\ r > 0 /\ r # NoRun /\ r \in Writers /\ r # Reverter /\ r # Compactor
  /\ Compactor \in Writers /\ Reverter \in Writers /\ Compactor # Reverter
  BY ChatAssumption DEF Runs, NoRun, Writers, Compactor, Reverter

\* What is installed in the conversation is about to be its transcript.
LEMMA InstallFollows ==
  ASSUME Typed, NEW w \in Writers, w # Reverter, NEW text \in Texts, Install(w, text), UNCHANGED <<id, disk, unsaved>>
  PROVE  /\ messages' = text /\ pending' \in [Writers -> {<<>>} \cup Captured] /\ ~Idle(w)'
         /\ \A v \in Writers \ {w} : pending'[v] = pending[v]
         /\ unsaved \subseteq {id} => Follows'
  <1>1. /\ messages' = text /\ pending' \in [Writers -> {<<>>} \cup Captured]
        /\ pending'[w] = <<Write(id, text)>> /\ \A v \in Writers \ {w} : pending'[v] = pending[v]
    <2>1. <<Write(id, text)>> \in Captured
      BY CapturedFacts DEF Typed
    <2>2. pending \in [Writers -> {<<>>} \cup Captured]
      BY DEF Typed
    <2>3. messages' = text /\ pending' = [pending EXCEPT ![w] = <<Write(id, text)>>]
      BY DEF Install
    <2> QED BY <2>1, <2>2, <2>3
  <1>2. pending'[w] # <<>> /\ pending'[w][1].session = id /\ pending'[w][1].text = text
    <2>1. id \in Sessions \cup {"the current"}
      BY DEF Typed
    <2>2. /\ <<Write(id, text)>> # <<>>
          /\ <<Write(id, text)>>[1].session = id /\ <<Write(id, text)>>[1].text = text
      BY <2>1, CapturedFacts
    <2> QED BY <1>1, <2>2
  <1>3. Current(w)'
    BY <1>1, <1>2 DEF Current, Idle, Target
  <1> QED BY <1>1, <1>2, <1>3 DEF Follows, Idle

\* A conversation stays sound when no turn in it becomes unrecorded or moves.
SoundNext(s, h) == InTurns(h) /\ Once(h) /\ \A r \in Answers(h) : home'[r] = s /\ Recorded(r)'

LEMMA OwnNext ==
  ASSUME SoundNext(id', messages'), \A s \in Sessions : SoundNext(s, disk'[s])
  PROVE  OwnTurns'
  BY DEF SoundNext, OwnTurns, Sound

LEMMA StaysSound ==
  ASSUME \A r \in Runs : Recorded(r) => Recorded(r)' /\ home'[r] = home[r]
  PROVE  \A s \in Sessions, h \in Texts : Sound(s, h) => SoundNext(s, h)
  <1>1. ASSUME NEW s \in Sessions, NEW h \in Texts, Sound(s, h), NEW r \in Answers(h)
        PROVE  home'[r] = s /\ Recorded(r)'
    <2>1. r \in Runs
      BY <1>1, AnswersIn, TextFacts
    <2> QED BY <1>1, <2>1 DEF Sound
  <1> QED BY <1>1 DEF Sound, SoundNext

LEMMA PromptInv == ASSUME IInv, NEW r \in Runs, Prompt(r) PROVE IInv'
  <1>1. Goes(r, "opening", messages)
    BY GoesTo DEF IInv, Typed, Prompt, Phases
  <1>2. home' = [home EXCEPT ![r] = id] /\ home' \in [Runs -> Sessions] /\ run[r].phase = "none" /\ ~running
    BY DEF Prompt, IInv, Typed
  <1>3. Typed'
    BY <1>1, <1>2 DEF IInv, Typed, Prompt, textVars, Goes
  <1>4. BusyMeansRun'
    BY <1>1, WriterFacts DEF Prompt, BusyMeansRun, Active, Goes
  <1>5. ASSUME ~raced PROVE Alone' /\ Follows' /\ OwnTurns' /\ Kept'
    <2>1. Alone'
      BY <1>1, <1>2, <1>5 DEF IInv, Alone, Active, Goes, Prompt, textVars, Typed
    <2>2. Follows'
      BY <1>5 DEF IInv, Follows, Current, Idle, Target, Prompt, textVars
    <2>3. \A s \in Sessions, h \in Texts : Sound(s, h) => SoundNext(s, h)
      BY <1>1, <1>2, StaysSound DEF Recorded, Goes, IInv, Typed
    <2>4. OwnTurns'
      BY <1>5, <2>3, OwnNext DEF Prompt, textVars, IInv, Typed, OwnTurns
    <2>5. r \notin ended
      BY <1>2 DEF IInv, Typed
    <2>6. Kept'
      BY <1>1, <1>2, <1>5, <2>5 DEF Kept, Settled, Idle, Prompt, textVars, Goes, IInv, Typed
    <2> QED BY <2>1, <2>2, <2>4, <2>6
  <1> QED BY <1>3, <1>4, <1>5 DEF IInv, Prompt

\* A goroutine before its turn is recorded replaces the conversation by one with
\* the same turns.
Early(r) == run[r].phase \in {"opening", "fitting", "asking"}
LEMMA Replaced ==
  ASSUME IInv, ~raced, NEW w \in Writers, w # Reverter, NEW text \in Texts, Install(w, text),
         InTurns(text), Once(text), Answers(text) = Answers(messages),
         UNCHANGED <<running, holder, id, disk, ended, home, excused, unsaved>>,
         run' \in [Runs -> Places],
         \A q \in Runs : run'[q] = run[q] \/ (Early(q) /\ Early(q)'),
         w \in Runs => Early(w)'
  PROVE  Alone' /\ Follows' /\ OwnTurns' /\ Kept'
  <1>1. /\ messages' = text /\ ~Idle(w)' /\ Follows'
        /\ \A v \in Writers \ {w} : pending'[v] = pending[v]
    BY InstallFollows DEF IInv, Follows
  <1>2. Alone'
    BY DEF IInv, Alone, Active, Early
  <1>3. \A s \in Sessions, h \in Texts : Sound(s, h) => SoundNext(s, h)
    BY StaysSound DEF Recorded, Early
  <1>4. OwnTurns'
    <2>1. Sound(id, text) /\ \A s \in Sessions : Sound(s, disk[s])
      BY DEF IInv, OwnTurns, Sound
    <2>2. SoundNext(id, text) /\ \A s \in Sessions : SoundNext(s, disk[s])
      BY <1>3, <2>1 DEF IInv, Typed
    <2> QED BY <1>1, <2>2, OwnNext
  <1>5. Kept'
    <2>1. ASSUME NEW q \in Runs PROVE Settled(q)' => Settled(q)
      BY <1>1, WriterFacts DEF Settled, Idle, Early
    <2>2. ASSUME NEW q \in Runs PROVE run'[q].phase = "recording" => run[q].phase = "recording"
      BY DEF Early
    <2> QED BY <1>1, <2>1, <2>2 DEF Kept, IInv
  <1> QED BY <1>1, <1>2, <1>4, <1>5

LEMMA BusyStays ==
  ASSUME IInv, running' = running, holder' = holder,
         \A q \in Runs : run'[q] = run[q] \/ (Early(q) /\ Early(q)')
  PROVE  BusyMeansRun'
  <1>1. \A q \in Runs : Active(q) => Active(q)'
    BY DEF Active, Early
  <1>2. holder \in Runs \/ holder = NoRun
    BY DEF IInv, Typed
  <1> QED BY <1>1, <1>2 DEF IInv, BusyMeansRun

\* A goroutine that goes on without touching what the session has.
LEMMA Unchanged ==
  ASSUME IInv, ~raced,
         UNCHANGED <<running, holder, id, messages, disk, pending, ended, home, excused, unsaved>>,
         run' \in [Runs -> Places],
         \A q \in Runs : run'[q] = run[q] \/ (Early(q) /\ Early(q)')
  PROVE  Alone' /\ Follows' /\ OwnTurns' /\ Kept'
  <1>1. Alone'
    BY DEF IInv, Alone, Active, Early
  <1>2. Follows'
    BY DEF IInv, Follows, Current, Idle, Target
  <1>3. \A s \in Sessions, h \in Texts : Sound(s, h) => SoundNext(s, h)
    BY StaysSound DEF Recorded, Early
  <1>4. OwnTurns'
    BY <1>3, OwnNext DEF IInv, Typed, OwnTurns
  <1>5. Kept'
    BY DEF IInv, Kept, Settled, Idle, Early
  <1> QED BY <1>1, <1>2, <1>4, <1>5

LEMMA TellInv == ASSUME IInv, NEW r \in Runs, Tell(r) PROVE IInv'
  <1>1. /\ run[r].phase = "opening" /\ r \in Writers /\ r # Reverter /\ "fitting" \in Phases
        /\ UNCHANGED <<running, holder, id, disk, compactor, ended, home, excused, unsaved, raced>>
    BY WriterFacts DEF Tell, chatVars, history, Phases
  <1>2. CASE Install(r, Append(messages, Notice)) /\ run' = [run EXCEPT ![r] = Goroutine("fitting", Append(@.seen, Notice))]
    <2>1. Notice \in Msgs /\ run[r].seen \in Texts /\ messages \in Texts
      BY DEF Notice, Message, Msgs, IInv, Typed, Places
    <2>2. Append(messages, Notice) \in Texts /\ Append(run[r].seen, Notice) \in Texts
      BY <2>1, AppendProperties DEF Texts
    <2>3. Goes(r, "fitting", Append(run[r].seen, Notice))
      BY <1>1, <1>2, <2>2, GoesTo DEF IInv
    <2>4. Typed'
      BY <1>1, <1>2, <2>2, <2>3, InstallFollows DEF IInv, Typed, Goes
    <2>5. ASSUME ~raced PROVE Alone' /\ Follows' /\ OwnTurns' /\ Kept'
      <3>1. InTurns(messages) /\ Once(messages)
        BY <2>5 DEF IInv, OwnTurns, Sound
      <3>2. /\ InTurns(Append(messages, Notice)) /\ Once(Append(messages, Notice))
            /\ Answers(Append(messages, Notice)) = Answers(messages)
        BY <2>1, <3>1, NoticeSound
      <3> QED BY <1>1, <1>2, <2>2, <2>3, <2>5, <3>2, Replaced DEF Early, Goes
    <2>9. BusyMeansRun'
      BY <1>1, <2>3, BusyStays DEF Early, Goes
    <2> QED BY <1>1, <2>3, <2>4, <2>5, <2>9 DEF IInv
  <1>3. CASE run' = [run EXCEPT ![r].phase = "fitting"] /\ UNCHANGED <<messages, pending>>
    <2>1. Goes(r, "fitting", run[r].seen)
      BY <1>1, <1>3, GoesOn DEF IInv
    <2>2. Typed'
      BY <1>1, <1>3, <2>1 DEF IInv, Typed, Goes
    <2>3. ASSUME ~raced PROVE Alone' /\ Follows' /\ OwnTurns' /\ Kept'
      BY <1>1, <1>3, <2>1, <2>3, Unchanged DEF Early, Goes
    <2>9. BusyMeansRun'
      BY <1>1, <2>1, BusyStays DEF Early, Goes
    <2> QED BY <1>1, <2>1, <2>2, <2>3, <2>9 DEF IInv
  <1> QED BY <1>2, <1>3 DEF Tell

LEMMA FitInv == ASSUME IInv, NEW r \in Runs, Fit(r) PROVE IInv'
  <1>1. /\ run[r].phase = "fitting" /\ r \in Writers /\ r # Reverter /\ "asking" \in Phases /\ <<>> \in Texts
        /\ UNCHANGED <<running, holder, id, disk, compactor, ended, home, excused, unsaved>>
    BY WriterFacts, EmptySeq DEF Fit, chatVars, Phases, Texts
  <1>2. Goes(r, "asking", <<>>)
    BY <1>1, GoesTo DEF Fit, IInv
  <1>3. CASE (\E k \in Cuts(run[r].seen) : Install(r, Compacted(run[r].seen, k))) /\ Overtakes(messages # run[r].seen)
    <2>1. PICK k \in Cuts(run[r].seen) : Install(r, Compacted(run[r].seen, k))
      BY <1>3
    <2>2. run[r].seen \in Texts
      BY DEF IInv, Typed, Places
    <2>3. Compacted(run[r].seen, k) \in Texts
      BY <2>1, <2>2, CompactedTyped
    <2>4. raced' \in BOOLEAN /\ (~raced' => ~raced /\ messages = run[r].seen)
      BY <1>3 DEF Overtakes
    <2>5. Typed'
      BY <1>1, <1>2, <2>1, <2>3, <2>4, InstallFollows DEF IInv, Typed, Goes
    <2>6. ASSUME ~raced' PROVE Alone' /\ Follows' /\ OwnTurns' /\ Kept'
      <3>1. InTurns(run[r].seen) /\ Once(run[r].seen)
        BY <2>4, <2>6 DEF IInv, OwnTurns, Sound
      <3>2. /\ InTurns(Compacted(run[r].seen, k)) /\ Once(Compacted(run[r].seen, k))
            /\ Answers(Compacted(run[r].seen, k)) = Answers(messages)
        BY <2>1, <2>2, <2>4, <2>6, <3>1, CompactedSound
      <3> QED BY <1>1, <1>2, <2>1, <2>3, <2>4, <2>6, <3>2, Replaced DEF Early, Goes
    <2>9. BusyMeansRun'
      BY <1>1, <1>2, BusyStays DEF Early, Goes
    <2> QED BY <1>1, <1>2, <2>5, <2>6, <2>9 DEF IInv
  <1>4. CASE UNCHANGED <<messages, pending, left, raced>>
    <2>1. Typed'
      BY <1>1, <1>2, <1>4 DEF IInv, Typed, Goes
    <2>2. ASSUME ~raced PROVE Alone' /\ Follows' /\ OwnTurns' /\ Kept'
      BY <1>1, <1>2, <1>4, <2>2, Unchanged DEF Early, Goes
    <2>9. BusyMeansRun'
      BY <1>1, <1>2, BusyStays DEF Early, Goes
    <2> QED BY <1>1, <1>2, <1>4, <2>1, <2>2, <2>9 DEF IInv
  <1> QED BY <1>3, <1>4 DEF Fit

LEMMA RecordInv == ASSUME IInv, NEW r \in Runs, Record(r) PROVE IInv'
  <1>1. /\ run[r].phase = "asking" /\ Install(r, messages \o Turn(r))
        /\ r \in Writers /\ r # Reverter /\ "recording" \in Phases /\ messages \in Texts
        /\ UNCHANGED <<running, holder, id, disk, compactor, ended, home, excused, unsaved, raced>>
    BY WriterFacts DEF Record, chatVars, history, Phases, IInv, Typed
  <1>2. Goes(r, "recording", run[r].seen)
    BY <1>1, GoesOn DEF Record, IInv
  <1>3. messages \o Turn(r) \in Texts
    <2>1. Turn(r) \in Texts
      BY DEF Turn, Message, Texts, Msgs
    <2> QED BY <1>1, <2>1, JoinFacts
  <1>4. /\ messages' = messages \o Turn(r) /\ ~Idle(r)' /\ (unsaved \subseteq {id} => Follows')
        /\ \A v \in Writers \ {r} : pending'[v] = pending[v]
        /\ pending' \in [Writers -> {<<>>} \cup Captured]
    BY <1>1, <1>3, InstallFollows DEF IInv
  <1>5. Typed'
    BY <1>1, <1>2, <1>3, <1>4 DEF IInv, Typed, Goes
  <1>6. BusyMeansRun'
    BY <1>1, <1>2 DEF IInv, BusyMeansRun, Active, Goes, Typed
  <1>7. ASSUME ~raced PROVE Alone' /\ Follows' /\ OwnTurns' /\ Kept'
    <2>1. home[r] = id /\ InTurns(messages) /\ Once(messages) /\ r \notin Answers(messages)
      BY <1>1, <1>7 DEF IInv, Alone, Active, OwnTurns, Sound, Recorded
    <2>2. /\ Answers(messages \o Turn(r)) = Answers(messages) \cup {r}
          /\ InTurns(messages \o Turn(r)) /\ Once(messages \o Turn(r))
      BY <1>1, <2>1, TurnSound
    <2>3. Alone'
      BY <1>1, <1>2, <1>7 DEF IInv, Alone, Active, Goes
    <2>4. Follows'
      BY <1>4, <1>7 DEF IInv, Follows
    <2>5. Recorded(r)' /\ \A q \in Runs : (Recorded(q) => Recorded(q)') /\ home'[q] = home[q]
      BY <1>1, <1>2 DEF Recorded, Goes
    <2>6. OwnTurns'
      <3>1. \A s \in Sessions, h \in Texts : Sound(s, h) => SoundNext(s, h)
        BY <2>5, StaysSound
      <3>2. \A s \in Sessions : SoundNext(s, disk'[s])
        BY <1>1, <1>7, <3>1 DEF IInv, Typed, OwnTurns
      <3>3. SoundNext(id, messages)
        BY <1>7, <3>1 DEF IInv, Typed, OwnTurns
      <3>4. SoundNext(id', messages')
        BY <1>1, <1>4, <2>1, <2>2, <2>5, <3>3 DEF SoundNext
      <3> QED BY <3>2, <3>4, OwnNext
    <2>7. Kept'
      <3>1. ASSUME NEW q \in Runs, q # r PROVE run'[q] = run[q] /\ (Settled(q)' <=> Settled(q))
        BY <1>1, <1>2, <1>4, <3>1, WriterFacts DEF Goes, Settled, Idle
      <3>2. ~Settled(r)'
        BY <1>1, <1>2, <1>4 DEF Goes, Settled, IInv, Typed
      <3> QED BY <1>1, <1>2, <1>4, <1>7, <2>2, <3>1, <3>2 DEF IInv, Kept, Goes
    <2> QED BY <2>3, <2>4, <2>6, <2>7
  <1> QED BY <1>1, <1>5, <1>6, <1>7 DEF IInv

\* finish, before the end and once more on return: nobody else is active.
LEMMA GoesPast ==
  ASSUME IInv, ~raced, NEW r \in Runs, NEW phase \in {"finished", "ended", "gone"}, NEW seen, Goes(r, phase, seen),
         UNCHANGED <<id, messages, disk, pending, home, excused, unsaved>>,
         \/ run[r].phase = "recording" /\ Idle(r) /\ ended' = ended
         \/ run[r].phase = "finished" /\ ended' = ended \cup {r}
         \/ run[r].phase = "ended" /\ ended' = ended
  PROVE  Follows' /\ OwnTurns' /\ Kept'
  <1>1. Follows'
    BY DEF IInv, Follows, Current, Idle, Target
  <1>2. \A s \in Sessions, h \in Texts : Sound(s, h) => SoundNext(s, h)
    BY StaysSound DEF Recorded, Goes
  <1>3. OwnTurns'
    BY <1>2, OwnNext DEF IInv, Typed, OwnTurns
  <1>4. \A q \in Runs : Settled(q)' => Settled(q)
    BY DEF Settled, Idle, Goes
  <1>5. \A q \in Runs : run'[q].phase = "recording" => run[q].phase = "recording"
    BY DEF Goes
  <1>6. Kept'
    BY <1>4, <1>5 DEF IInv, Kept
  <1> QED BY <1>1, <1>3, <1>6

LEMMA FinishInv == ASSUME IInv, NEW r \in Runs, Finish(r) PROVE IInv'
  <1>1. /\ run[r].phase = "recording" /\ Idle(r) /\ ~running' /\ holder' = NoRun /\ running' \in BOOLEAN
        /\ UNCHANGED <<id, messages, disk, compactor, pending, ended, home, excused, unsaved, raced>>
    BY DEF Finish, Release, Advance, textVars, history
  <1>2. Goes(r, "finished", run[r].seen)
    BY GoesOn DEF Finish, Advance, IInv, Phases
  <1>3. Typed'
    BY <1>1, <1>2 DEF IInv, Typed, Goes
  <1>4. BusyMeansRun'
    BY <1>1 DEF BusyMeansRun
  <1>5. ASSUME ~raced PROVE Alone' /\ Follows' /\ OwnTurns' /\ Kept'
    <2>1. Alone'
      BY <1>1, <1>2, <1>5 DEF IInv, Alone, Active, Goes
    <2> QED BY <1>1, <1>2, <1>5, <2>1, GoesPast
  <1> QED BY <1>1, <1>3, <1>4, <1>5 DEF IInv

LEMMA EndInv == ASSUME IInv, NEW r \in Runs, End(r) PROVE IInv'
  <1>1. /\ run[r].phase = "finished" /\ ended' = ended \cup {r}
        /\ UNCHANGED <<running, holder, id, messages, disk, compactor, pending, home, excused, unsaved, raced>>
    BY DEF End, chatVars, textVars
  <1>2. Goes(r, "ended", run[r].seen)
    BY GoesOn DEF End, IInv, Phases
  <1>3. Typed'
    BY <1>1, <1>2 DEF IInv, Typed, Goes
  <1>4. BusyMeansRun'
    BY <1>1, <1>2 DEF IInv, Typed, BusyMeansRun, Active, Goes
  <1>5. ASSUME ~raced PROVE Alone' /\ Follows' /\ OwnTurns' /\ Kept'
    <2>1. Alone'
      BY <1>1, <1>2, <1>5 DEF IInv, Alone, Active, Goes
    <2> QED BY <1>1, <1>2, <1>5, <2>1, GoesPast
  <1> QED BY <1>1, <1>3, <1>4, <1>5 DEF IInv

LEMMA ReturnInv == ASSUME IInv, NEW r \in Runs, Return(r) PROVE IInv'
  <1>1. /\ run[r].phase = "ended" /\ ~running' /\ holder' = NoRun /\ running' \in BOOLEAN
        /\ raced' \in BOOLEAN /\ (~raced' => ~raced /\ holder \in {r, NoRun})
        /\ UNCHANGED <<id, messages, disk, compactor, pending, ended, home, excused, unsaved>>
    BY DEF Return, Release, Overtakes, textVars
  <1>2. Goes(r, "gone", run[r].seen)
    BY GoesOn DEF Return, IInv, Phases
  <1>3. Typed'
    BY <1>1, <1>2 DEF IInv, Typed, Goes
  <1>4. BusyMeansRun'
    BY <1>1 DEF BusyMeansRun
  <1>5. ASSUME ~raced' PROVE Alone' /\ Follows' /\ OwnTurns' /\ Kept'
    <2>1. Alone'
      BY <1>1, <1>2, <1>5, WriterFacts DEF IInv, Alone, Active, Goes
    <2> QED BY <1>1, <1>2, <1>5, <2>1, GoesPast
  <1> QED BY <1>1, <1>3, <1>4, <1>5 DEF IInv

LEMMA CompactReadsInv == ASSUME IInv, CompactReads PROVE IInv'
  <1>1. /\ UNCHANGED <<running, holder, id, messages, disk, run, pending, ended, home, excused, unsaved, raced>>
        /\ compactor' \in [phase: {"idle", "summarizing"}, session: Sessions, seen: Texts]
    BY DEF CompactReads, chatVars, textVars, history, IInv, Typed
  <1>2. Typed' /\ BusyMeansRun'
    BY <1>1 DEF IInv, Typed, BusyMeansRun, Active
  <1>3. ASSUME ~raced PROVE Alone' /\ Follows' /\ OwnTurns' /\ Kept'
    BY <1>1, <1>3, Unchanged DEF IInv, Typed
  <1> QED BY <1>1, <1>2, <1>3 DEF IInv

LEMMA CompactEndsInv == ASSUME IInv, CompactEnds PROVE IInv'
  <1>1. /\ UNCHANGED <<running, holder, id, disk, run, ended, home, excused, unsaved>>
        /\ compactor' \in [phase: {"idle", "summarizing"}, session: Sessions, seen: Texts]
        /\ compactor.seen \in Texts
    <2>1. NotCompacting \in [phase: {"idle", "summarizing"}, session: Sessions, seen: Texts]
      BY ChatAssumption, EmptySeq DEF NotCompacting, Texts
    <2> QED BY <2>1 DEF CompactEnds, chatVars, IInv, Typed
  <1>2. CASE /\ \E k \in Cuts(compactor.seen) : Install(Compactor, Compacted(compactor.seen, k))
             /\ Overtakes(<<id, messages>> # <<compactor.session, compactor.seen>>)
    <2>1. PICK k \in Cuts(compactor.seen) : Install(Compactor, Compacted(compactor.seen, k))
      BY <1>2
    <2>2. Compacted(compactor.seen, k) \in Texts
      BY <1>1, <2>1, CompactedTyped
    <2>3. raced' \in BOOLEAN /\ (~raced' => ~raced /\ messages = compactor.seen)
      BY <1>2 DEF Overtakes
    <2>4. Typed' /\ BusyMeansRun'
      BY <1>1, <2>1, <2>2, <2>3, InstallFollows, WriterFacts DEF IInv, Typed, BusyMeansRun, Active
    <2>5. ASSUME ~raced' PROVE Alone' /\ Follows' /\ OwnTurns' /\ Kept'
      <3>1. InTurns(compactor.seen) /\ Once(compactor.seen)
        BY <2>3, <2>5 DEF IInv, OwnTurns, Sound
      <3>2. /\ InTurns(Compacted(compactor.seen, k)) /\ Once(Compacted(compactor.seen, k))
            /\ Answers(Compacted(compactor.seen, k)) = Answers(messages)
        BY <1>1, <2>1, <2>3, <2>5, <3>1, CompactedSound
      <3>3. Compactor \in Writers /\ Compactor # Reverter /\ Compactor \notin Runs
        BY WriterFacts
      <3>4. run' \in [Runs -> Places] /\ \A q \in Runs : run'[q] = run[q]
        BY <1>1 DEF IInv, Typed
      <3> QED BY <1>1, <2>1, <2>2, <2>3, <2>5, <3>2, <3>3, <3>4, Replaced
    <2> QED BY <2>4, <2>5 DEF IInv
  <1>3. CASE UNCHANGED <<messages, pending, raced>>
    <2>1. Typed' /\ BusyMeansRun'
      BY <1>1, <1>3 DEF IInv, Typed, BusyMeansRun, Active
    <2>2. ASSUME ~raced PROVE Alone' /\ Follows' /\ OwnTurns' /\ Kept'
      BY <1>1, <1>3, <2>2, Unchanged DEF IInv, Typed
    <2> QED BY <1>3, <2>1, <2>2 DEF IInv
  <1> QED BY <1>2, <1>3 DEF CompactEnds

LEMMA RevertInv == ASSUME IInv, RevertLastPrompt PROVE IInv'
  <1> DEFINE last == LastPrompt(messages)
             rest == SubSeq(messages, 1, last - 1)
  <1>1. /\ ~running /\ Idle(Reverter) /\ Prompts(messages) # {}
        /\ messages' = rest /\ pending' = [pending EXCEPT ![Reverter] = <<Write("the current", rest)>>]
        /\ excused' = excused \cup messages[last].turns
        /\ UNCHANGED <<running, holder, id, disk, run, compactor, ended, home, unsaved, raced>>
    BY DEF RevertLastPrompt, SaveReverted, chatVars
  <1>2. /\ messages \in Texts /\ DOMAIN messages = 1..Len(messages) /\ Len(messages) \in Nat
        /\ last \in DOMAIN messages /\ last \in 1..Len(messages) /\ messages[last] \in Msgs
    <2>1. /\ messages \in Texts /\ DOMAIN messages = 1..Len(messages) /\ Len(messages) \in Nat
          /\ \A i \in DOMAIN messages : messages[i] \in Msgs
      BY TextFacts DEF IInv, Typed
    <2>2. \E i \in Prompts(messages) : \A j \in Prompts(messages) : j <= i
      BY <1>1, <2>1, GreatestNat DEF Prompts
    <2>3. last \in Prompts(messages)
      BY <2>2 DEF LastPrompt
    <2> QED BY <2>1, <2>3 DEF Prompts
  <1> HIDE DEF last
  <1>3. rest \in Texts /\ messages[last].turns \subseteq Runs
    <2>1. last - 1 \in Nat /\ last - 1 <= Len(messages) /\ 1 \in Nat \ {0}
      BY <1>2
    <2>2. SubSeq(messages, 1, last - 1) \in Texts
      BY <1>2, <2>1, PartFacts
    <2> QED BY <1>2, <2>2 DEF Msgs
  <1> HIDE DEF rest
  <1>4. /\ pending' \in [Writers -> {<<>>} \cup Captured] /\ Current(Reverter)'
        /\ \A w \in Writers \ {Reverter} : pending'[w] = pending[w]
    <2>1. /\ <<Write("the current", rest)>> \in Captured /\ <<Write("the current", rest)>> # <<>>
          /\ <<Write("the current", rest)>>[1].text = rest
      BY <1>3, CapturedFacts
    <2>2. /\ pending' \in [Writers -> {<<>>} \cup Captured] /\ pending'[Reverter] = <<Write("the current", rest)>>
          /\ \A w \in Writers \ {Reverter} : pending'[w] = pending[w]
      BY <1>1, <2>1, WriterFacts DEF IInv, Typed
    <2> QED BY <1>1, <2>1, <2>2 DEF Current, Idle, Target
  <1>5. Typed' /\ BusyMeansRun'
    BY <1>1, <1>3, <1>4 DEF IInv, Typed, BusyMeansRun, Active
  <1>6. ASSUME ~raced PROVE Alone' /\ Follows' /\ OwnTurns' /\ Kept'
    <2>1. Alone' /\ \A r \in Runs : ~Active(r)
      BY <1>1, <1>6 DEF IInv, Alone, Active
    <2>2. Follows'
      BY <1>1, <1>4, <1>6, WriterFacts DEF IInv, Follows
    <2>3. InTurns(messages) /\ Once(messages)
      BY <1>6 DEF IInv, OwnTurns, Sound
    <2>4. /\ InTurns(rest) /\ Once(rest) /\ Answers(rest) \subseteq Answers(messages)
          /\ Answers(messages) \subseteq Answers(rest) \cup messages[last].turns
      BY <1>1, <1>2, <2>3, RevertSound DEF rest, last
    <2>5. OwnTurns'
      <3>1. \A s \in Sessions, h \in Texts : Sound(s, h) => SoundNext(s, h)
        BY <1>1, StaysSound DEF Recorded
      <3>2. \A s \in Sessions : SoundNext(s, disk'[s])
        BY <1>1, <1>6, <3>1 DEF IInv, Typed, OwnTurns
      <3>3. SoundNext(id, messages)
        BY <1>6, <3>1 DEF IInv, Typed, OwnTurns
      <3>4. SoundNext(id', messages')
        BY <1>1, <2>4, <3>3 DEF SoundNext
      <3> QED BY <3>2, <3>4, OwnNext
    <2>6. Kept'
      <3>1. \A r \in Runs : run[r].phase # "recording" /\ (Settled(r)' <=> Settled(r))
        BY <1>1, <2>1 DEF Active, Settled
      <3> QED BY <1>1, <1>6, <2>4, <3>1 DEF IInv, Kept
    <2> QED BY <2>1, <2>2, <2>5, <2>6
  <1> QED BY <1>1, <1>5, <1>6 DEF IInv

\* A transcript that is written last is the conversation; a failed write is
\* known to be one.
LEMMA PersistInv == ASSUME IInv, NEW w \in Writers, Persist(w) PROVE IInv'
  <1> DEFINE text == pending[w][1].text
  <1>1. /\ ~Idle(w) /\ pending' = [pending EXCEPT ![w] = <<>>]
        /\ UNCHANGED <<running, holder, id, messages, run, compactor, ended, home, excused>>
        /\ raced' \in BOOLEAN /\ (~raced' => ~raced /\ Target(w) = id /\ text = messages)
    BY DEF Persist, Overtakes, chatVars, textVars
  <1>2. text \in Texts
    BY <1>1, CapturedFacts DEF IInv, Typed, Idle
  <1>3. \/ disk' = [disk EXCEPT ![Target(w)] = text] /\ unsaved' = unsaved \ {Target(w)}
        \/ disk' = disk /\ unsaved' = unsaved \cup {Target(w)}
    BY DEF Persist
  <1>4. /\ pending' \in [Writers -> {<<>>} \cup Captured] /\ Idle(w)'
        /\ \A v \in Writers \ {w} : pending'[v] = pending[v]
    BY <1>1 DEF IInv, Typed, Idle
  <1> HIDE DEF text
  <1>5. disk' \in [Sessions -> Texts]
    BY <1>2, <1>3 DEF IInv, Typed
  <1>6. Typed' /\ BusyMeansRun'
    BY <1>1, <1>4, <1>5 DEF IInv, Typed, BusyMeansRun, Active
  <1>7. ASSUME ~raced' PROVE Alone' /\ Follows' /\ OwnTurns' /\ Kept'
    <2>1. ~raced /\ id \in Sessions /\ Alone /\ Follows /\ OwnTurns /\ Kept
      BY <1>1, <1>7 DEF IInv, Typed
    <2>2. \/ disk' = [disk EXCEPT ![id] = messages] /\ unsaved' = unsaved \ {id}
          \/ disk' = disk /\ unsaved' = unsaved \cup {id}
      BY <1>1, <1>3, <1>7
    <2>3. Alone'
      BY <1>1, <2>1 DEF Alone, Active
    <2>4. \A s \in Sessions : s # id => disk'[s] = disk[s]
      BY <2>2 DEF IInv, Typed
    <2>5. \/ disk'[id] = messages /\ unsaved' = unsaved \ {id}
          \/ disk'[id] = disk[id] /\ unsaved' = unsaved \cup {id}
      BY <2>1, <2>2 DEF IInv, Typed
    <2>6. Follows'
      BY <1>1, <2>1, <2>5 DEF Follows
    <2>7. OwnTurns'
      <3>1. \A s \in Sessions, h \in Texts : Sound(s, h) => SoundNext(s, h)
        BY <1>1, StaysSound DEF Recorded
      <3>2. \A s \in Sessions : Sound(s, disk'[s])
        BY <2>1, <2>4, <2>5 DEF OwnTurns
      <3> QED BY <1>1, <1>5, <2>1, <3>1, <3>2, OwnNext DEF IInv, Typed, OwnTurns
    <2>8. ASSUME NEW r \in Runs \ excused
          PROVE  /\ run[r].phase = "recording" \/ (Settled(r)' /\ home[r] = id) => r \in Answers(messages)
                 /\ Settled(r)' => home[r] \in unsaved' \/ r \in Answers(disk'[home[r]])
      <3>1. CASE run[r].phase = "recording"
        <4>1. r \in Answers(messages) /\ home[r] = id
          BY <2>1, <2>8, <3>1 DEF Kept, Alone, Active
        <4>2. Settled(r) => home[r] \in unsaved \/ r \in Answers(disk[home[r]])
          BY <2>1, <2>8 DEF Kept
        <4> QED BY <2>1, <2>5, <4>1, <4>2
      <3>2. CASE run[r].phase # "recording"
        <4>1. Settled(r)' => Settled(r)
          BY <1>1, <3>2 DEF Settled
        <4>2. Settled(r) => /\ home[r] = id => r \in Answers(messages)
                            /\ home[r] \in unsaved \/ r \in Answers(disk[home[r]])
          BY <2>1, <2>8 DEF Kept
        <4>3. home[r] \in Sessions
          BY DEF IInv, Typed
        <4>4. CASE home[r] = id
          BY <2>5, <3>2, <4>1, <4>2, <4>4
        <4>5. CASE home[r] # id
          BY <2>4, <2>5, <3>2, <4>1, <4>2, <4>3, <4>5
        <4> QED BY <4>4, <4>5
      <3> QED BY <3>1, <3>2
    <2>9. Kept'
      BY <1>1, <2>8 DEF Kept
    <2> QED BY <2>3, <2>6, <2>7, <2>9
  <1> QED BY <1>6, <1>7 DEF IInv

\* A session is opened while no run is active: what its last write did not save
\* is lost, and excused.
LEMMA OpenInv ==
  ASSUME IInv, ~raced, NEW s \in Sessions, Open(s), UNCHANGED <<disk, ended, home, raced>>,
         run' \in [Runs -> Places],
         \A r \in Runs : /\ ~Active(r)' /\ (Recorded(r) => Recorded(r)')
                         /\ (Settled(r)' => Settled(r))
  PROVE  Alone' /\ Follows' /\ OwnTurns' /\ Kept'
  <1>1. /\ id' = s /\ messages' = disk[s] /\ unsaved' = unsaved \ {id}
        /\ excused' = excused \cup Forgotten
    BY DEF Open
  <1>2. id \in Sessions /\ Alone /\ Follows /\ OwnTurns /\ Kept
    BY DEF IInv, Typed
  <1>3. Alone'
    BY DEF Alone
  <1>4. unsaved' = {} /\ Follows'
    BY <1>1, <1>2 DEF Follows
  <1>5. OwnTurns'
    <2>1. \A u \in Sessions, h \in Texts : Sound(u, h) => SoundNext(u, h)
      BY StaysSound
    <2>2. \A u \in Sessions : SoundNext(u, disk[u])
      BY <1>2, <2>1 DEF OwnTurns, IInv, Typed
    <2> QED BY <1>1, <2>2, OwnNext
  <1>6. ASSUME NEW r \in Runs \ excused', Settled(r)' PROVE r \in Answers(disk[home[r]])
    <2>1. /\ home[r] = id => r \in Answers(messages)
          /\ home[r] \in unsaved \/ r \in Answers(disk[home[r]])
      BY <1>1, <1>2, <1>6 DEF Kept
    <2>2. home[r] \in unsaved => home[r] = id
      BY <1>2 DEF Follows
    <2> QED BY <1>1, <1>6, <2>1, <2>2 DEF Forgotten
  <1>7. \A r \in Runs : run'[r].phase # "recording"
    BY DEF Active
  <1>8. Kept'
    BY <1>1, <1>6, <1>7 DEF Kept
  <1> QED BY <1>3, <1>4, <1>5, <1>8

LEMMA OpenTyped ==
  ASSUME IInv, NEW s \in Sessions, Open(s)
  PROVE  id' \in Sessions /\ messages' \in Texts /\ excused' \subseteq Runs
  <1>1. Answers(messages) \subseteq Runs
    BY AnswersIn, TextFacts DEF IInv, Typed
  <1>2. Forgotten \subseteq Runs
    BY <1>1 DEF Forgotten
  <1> QED BY <1>2 DEF Open, IInv, Typed

LEMMA SwitchInv == ASSUME IInv, NEW s \in Sessions, SwitchSession(s) PROVE IInv'
  <1>1. /\ ~running /\ Open(s)
        /\ UNCHANGED <<running, holder, disk, run, compactor, pending, ended, home, raced>>
    BY DEF SwitchSession, Reopen, chatVars
  <1>2. Typed' /\ BusyMeansRun'
    BY <1>1, OpenTyped DEF IInv, Typed, BusyMeansRun, Active
  <1>3. ASSUME ~raced PROVE Alone' /\ Follows' /\ OwnTurns' /\ Kept'
    <2>1. \A r \in Runs : ~Active(r)' /\ (Recorded(r) => Recorded(r)') /\ (Settled(r)' => Settled(r))
      BY <1>1, <1>3 DEF IInv, Alone, Active, Recorded, Settled, Idle
    <2>2. run' \in [Runs -> Places]
      BY <1>1 DEF IInv, Typed
    <2> QED BY <1>1, <1>3, <2>1, <2>2, OpenInv
  <1> QED BY <1>1, <1>2, <1>3 DEF IInv

LEMMA RestartInv == ASSUME IInv, NEW s \in Sessions, Restart(s) PROVE IInv'
  <1>1. /\ running' = FALSE /\ holder' = NoRun /\ Open(s) /\ compactor' = NotCompacting
        /\ run' = [r \in Runs |-> IF run[r].phase = "none" THEN run[r] ELSE Goroutine("gone", <<>>)]
        /\ pending' = [w \in Writers |-> <<>>]
        /\ UNCHANGED <<disk, ended, home, raced>>
    BY DEF Restart
  <1>2. Goroutine("gone", <<>>) \in Places /\ Goroutine("gone", <<>>).phase = "gone" /\ <<>> \in Texts
    BY EmptySeq DEF Goroutine, Places, Phases, Texts
  <1>3. /\ run' \in [Runs -> Places]
        /\ \A r \in Runs : IF run[r].phase = "none" THEN run'[r] = run[r] ELSE run'[r].phase = "gone"
    BY <1>1, <1>2 DEF IInv, Typed
  <1>4. NotCompacting \in [phase: {"idle", "summarizing"}, session: Sessions, seen: Texts]
    BY <1>2, ChatAssumption DEF NotCompacting
  <1>5. Typed' /\ BusyMeansRun'
    BY <1>1, <1>3, <1>4, OpenTyped DEF IInv, Typed, BusyMeansRun
  <1>6. ASSUME ~raced PROVE Alone' /\ Follows' /\ OwnTurns' /\ Kept'
    <2>1. \A r \in Runs : ~Active(r)' /\ (Recorded(r) => Recorded(r)') /\ (Settled(r)' => Settled(r))
      BY <1>1, <1>3 DEF Active, Recorded, Settled
    <2> QED BY <1>1, <1>3, <1>6, <2>1, OpenInv
  <1> QED BY <1>1, <1>5, <1>6 DEF IInv

------------------------------------------------------------------------------
LEMMA InitIInv == Init => IInv
  <1> SUFFICES ASSUME Init PROVE IInv
    OBVIOUS
  <1>1. <<>> \in Texts /\ Goroutine("none", <<>>) \in Places
        /\ Goroutine("none", <<>>).phase = "none" /\ Len(<<>>) = 0
    BY EmptySeq DEF Texts, Goroutine, Places, Phases
  <1>2. NotCompacting \in [phase: {"idle", "summarizing"}, session: Sessions, seen: Texts]
    BY <1>1, ChatAssumption DEF NotCompacting
  <1>3. Typed
    BY <1>1, <1>2, ChatAssumption DEF Init, Typed
  <1>4. Answers(<<>>) = {} /\ InTurns(<<>>) /\ Once(<<>>)
    <2>1. DOMAIN <<>> = {}
      OBVIOUS
    <2>2. \A r : r \notin Answers(<<>>)
      BY <1>1, AnswersIn
    <2> QED BY <2>1, <2>2 DEF InTurns, Once
  <1>5. \A r \in Runs : ~Active(r) /\ ~Settled(r) /\ run[r].phase # "recording"
    BY <1>1 DEF Init, Active, Settled
  <1>6. Alone /\ Follows /\ OwnTurns /\ Kept
    BY <1>4, <1>5, ChatAssumption DEF Init, Alone, Follows, OwnTurns, Sound, Kept
  <1> QED BY <1>3, <1>6 DEF IInv, Init, BusyMeansRun

LEMMA NextIInv == ASSUME IInv, [Next]_vars PROVE IInv'
  <1>1. CASE UNCHANGED vars
    <2>1. Typed' /\ BusyMeansRun'
      BY <1>1 DEF IInv, Typed, BusyMeansRun, Active, vars, chatVars, textVars, history
    <2>2. ASSUME ~raced PROVE Alone' /\ Follows' /\ OwnTurns' /\ Kept'
      BY <1>1, <2>2, Unchanged DEF IInv, Typed, vars, chatVars, textVars, history
    <2> QED BY <1>1, <2>1, <2>2 DEF IInv, vars, history
  <1>2. ASSUME NEW r \in Runs, Prompt(r) \/ Tell(r) \/ Fit(r) \/ Record(r) \/ Finish(r) \/ End(r) \/ Return(r)
        PROVE  IInv'
    BY <1>2, PromptInv, TellInv, FitInv, RecordInv, FinishInv, EndInv, ReturnInv
  <1>3. CASE CompactReads \/ CompactEnds \/ RevertLastPrompt
    BY <1>3, CompactReadsInv, CompactEndsInv, RevertInv
  <1>4. ASSUME NEW w \in Writers, Persist(w) PROVE IInv'
    BY <1>4, PersistInv
  <1>5. ASSUME NEW s \in Sessions, SwitchSession(s) \/ Restart(s) PROVE IInv'
    BY <1>5, SwitchInv, RestartInv
  <1> QED BY <1>1, <1>2, <1>3, <1>4, <1>5 DEF Next

\* Every critical section of Prompt, forward, Compact, RevertLastPrompt and
\* SwitchSession, every write of a transcript and a restart keep the invariant
\* (chat.go:470-958).
THEOREM SessionInvariance == Spec => []IInv
  BY InitIInv, NextIInv, PTL DEF Spec

\* Nobody who saw the run end finds the chat busy with it (chat.go:725).
THEOREM ChatIsBusyWithARun == Spec => []BusyMeansRun
  <1>1. IInv => BusyMeansRun
    BY DEF IInv
  <1> QED BY <1>1, SessionInvariance, PTL

\* Until an operation overtakes another, the chat holds every active run: Abort
\* and Steer reach it, and a second prompt is refused (chat.go:735).
THEOREM HeldUnlessOvertaken == Spec => [](~raced => ActiveRunHeld)
  <1>1. IInv => (~raced => ActiveRunHeld)
    BY DEF IInv, Alone, ActiveRunHeld
  <1> QED BY <1>1, SessionInvariance, PTL

\* appendMessages writes before the end is announced (chat.go:797-811, 938-958):
\* a turn whose end was seen is in its session's transcript.
THEOREM EndedTurnsStay == Spec => []EndedTurnsDurable
  <1>1. IInv => EndedTurnsDurable
    BY DEF IInv, Typed, Kept, Settled, EndedTurnsDurable
  <1> QED BY <1>1, SessionInvariance, PTL

\* With no write under way and the last one made, the transcript is the
\* conversation (chat.go:938-958).
THEOREM TranscriptIsConversation == Spec => []TranscriptFollows
  <1>1. IInv => TranscriptFollows
    BY DEF IInv, Follows, Current, TranscriptFollows
  <1> QED BY <1>1, SessionInvariance, PTL

\* Sessions do not mix, and no turn is doubled, through compaction, reverts,
\* switches and restarts (chat.go:470-501).
THEOREM SessionsApart == Spec => []SessionsKeptApart
  <1>1. ASSUME IInv PROVE SessionsKeptApart
    <2>1. ASSUME ~raced, NEW s \in Sessions
          PROVE  LET h == IF s = id THEN messages ELSE disk[s] IN
                   /\ \A r \in Answers(h) : home[r] = s
                   /\ \A i, j \in DOMAIN h : i # j /\ {h[i].kind, h[j].kind} \subseteq {"answer", "summary"}
                                               => h[i].turns \cap h[j].turns = {}
      <3> DEFINE h == IF s = id THEN messages ELSE disk[s]
      <3>1. Sound(s, h)
        BY <1>1, <2>1 DEF IInv, OwnTurns
      <3> HIDE DEF h
      <3>2. \A r \in Answers(h) : home[r] = s
        BY <3>1 DEF Sound
      <3>3. \A i, j \in DOMAIN h : i # j /\ {h[i].kind, h[j].kind} \subseteq {"answer", "summary"}
                                     => h[i].turns \cap h[j].turns = {}
        BY <3>1 DEF Sound, Once, Covers
      <3> QED BY <3>2, <3>3 DEF h
    <2> QED BY <2>1 DEF SessionsKeptApart
  <1> QED BY <1>1, SessionInvariance, PTL
=============================================================================
