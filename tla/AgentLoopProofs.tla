--------------------------- MODULE AgentLoopProofs ---------------------------
(***************************************************************************)
(* Proofs about AgentLoop for any batches of calls, any number of answers  *)
(* with calls, and any number of steers.                                   *)
(***************************************************************************)
EXTENDS AgentLoop, SequenceTheorems, TLAPS

Phases == {"request", "answer", "batch", "boundary", "cut", "finish", "ended"}
Messages == [role : {"user", "assistant", "tool"}, turn : Nat, n : Nat]

Typed ==
    /\ config \in [steering : BOOLEAN, sequential : BOOLEAN]
    /\ phase \in Phases
    /\ cancelled \in BOOLEAN
    /\ answers \in Seq([calls : Nat, stop : Stops])
    /\ batch \in Seq(Tools)
    /\ mode \in {"parallel", "sequential", "refused"}
    /\ call \in [1..Len(batch) -> {"waiting", "running", "returned", "ended"}]
    /\ terminating \subseteq 1..Len(batch)
    /\ transcript \in Seq(Messages)
    /\ queue \in Seq(Nat)
    /\ closed \in BOOLEAN
    /\ admitted \in Nat

\* Where the run is says what its last answer was.
AnswerKnown ==
    /\ phase \notin {"request", "answer"} => answers # <<>>
    /\ phase \in {"batch", "boundary", "cut"} => ~Failed(answers[Turn].stop)

------------------------------------------------------------------------------
(* Sequences of messages.                                                  *)

LEMMA AppendedMessages ==
  ASSUME NEW s \in Seq(Messages), NEW t \in Seq(Messages)
  PROVE  /\ s \o t \in Seq(Messages)
         /\ DOMAIN (s \o t) = 1..(Len(s) + Len(t))
         /\ Len(s \o t) = Len(s) + Len(t)
         /\ \A i \in DOMAIN s : (s \o t)[i] = s[i]
         /\ \A i \in DOMAIN t : Len(s) + i \in DOMAIN (s \o t) /\ (s \o t)[Len(s) + i] = t[i]
         /\ \A i \in DOMAIN (s \o t) : i \in DOMAIN s \/ (i - Len(s) \in DOMAIN t /\ (s \o t)[i] = t[i - Len(s)])
  <1>1. /\ s \o t \in Seq(Messages) /\ Len(s \o t) = Len(s) + Len(t)
        /\ \A i \in 1..Len(s) + Len(t) : (s \o t)[i] = IF i <= Len(s) THEN s[i] ELSE t[i - Len(s)]
    BY ConcatProperties
  <1>2. DOMAIN s = 1..Len(s) /\ DOMAIN t = 1..Len(t) /\ DOMAIN (s \o t) = 1..Len(s \o t) /\ Len(s) \in Nat /\ Len(t) \in Nat
    BY <1>1, LenProperties
  <1> QED BY <1>1, <1>2

LEMMA OneMessage ==
  ASSUME NEW m \in Messages, NEW s \in Seq(Messages)
  PROVE  <<m>> \in Seq(Messages) /\ Len(<<m>>) = 1 /\ <<m>>[1] = m /\ DOMAIN <<m>> = {1} /\ Append(s, m) = s \o <<m>>
  OBVIOUS

LEMMA MessageKinds ==
  ASSUME NEW t \in Nat, NEW i \in Nat
  PROVE  Steered(i) \in Messages /\ Answer(t) \in Messages /\ Result(t, i) \in Messages
  BY DEF Steered, Answer, Result, Message, Messages

\* What a step boundary hears is the queue, message by message.
LEMMA HeardQueue ==
  ASSUME Typed
  PROVE  /\ Heard(queue) \in Seq(Messages)
         /\ Len(Heard(queue)) = Len(queue)
         /\ \A k \in DOMAIN queue : Heard(queue)[k] = Steered(queue[k])
  <1>1. queue \in Seq(Nat) /\ DOMAIN queue = 1..Len(queue) /\ Len(queue) \in Nat /\ \A k \in 1..Len(queue) : queue[k] \in Nat
    BY LenProperties, ElementOfSeq DEF Typed
  <1>2. \A k \in DOMAIN queue : Steered(queue[k]) \in Messages
    BY <1>1, MessageKinds
  <1>3. Heard(queue) \in [1..Len(queue) -> Messages]
    BY <1>1, <1>2 DEF Heard
  <1>4. Heard(queue) \in Seq(Messages)
    BY <1>1, <1>3, SeqDef
  <1>5. DOMAIN Heard(queue) = 1..Len(Heard(queue)) /\ Len(Heard(queue)) \in Nat
    BY <1>4, LenProperties
  <1>6. Len(Heard(queue)) = Len(queue)
    BY <1>1, <1>3, <1>5
  <1> QED BY <1>1, <1>4, <1>6 DEF Heard

\* What a turn's end appends is a result for each call of its batch.
LEMMA ResultsTyped ==
  ASSUME Typed
  PROVE  /\ Results \in Seq(Messages)
         /\ Len(Results) = Len(batch)
         /\ \A k \in 1..Len(batch) : Results[k] = Result(Turn, k)
  <1>1. DOMAIN batch = 1..Len(batch) /\ Len(batch) \in Nat /\ Turn \in Nat
    BY LenProperties DEF Typed, Turn
  <1>2. Results \in [1..Len(batch) -> Messages]
    BY <1>1, MessageKinds DEF Results
  <1>3. Results \in Seq(Messages)
    BY <1>1, <1>2, SeqDef
  <1>4. DOMAIN Results = 1..Len(Results) /\ Len(Results) \in Nat
    BY <1>3, LenProperties
  <1>5. Len(Results) = Len(batch)
    BY <1>1, <1>2, <1>4
  <1> QED BY <1>1, <1>3, <1>5 DEF Results

------------------------------------------------------------------------------
(* Types.                                                                  *)

LEMMA InitTyped == Init => Typed /\ AnswerKnown
  <1> SUFFICES ASSUME Init PROVE Typed /\ AnswerKnown
    OBVIOUS
  <1>1. transcript \in Seq(Messages)
    BY MessageKinds DEF Init, Prompt
  <1>2. call \in [1..Len(batch) -> {"waiting", "running", "returned", "ended"}] /\ batch \in Seq(Tools)
    BY DEF Init
  <1>3. answers \in Seq([calls : Nat, stop : Stops]) /\ queue \in Seq(Nat)
    BY DEF Init
  <1> QED BY <1>1, <1>2, <1>3 DEF Init, Typed, AnswerKnown, Phases

\* An answer joins the transcript.
LEMMA AnswerTyped ==
  ASSUME Typed, NEW b \in Batches, NEW stop \in Stops, ModelAnswers(b, stop)
  PROVE  /\ Typed' /\ AnswerKnown'
         /\ Turn' = Turn + 1 /\ Turn \in Nat
         /\ \A turn \in 1..Turn : answers'[turn] = answers[turn]
         /\ answers'[Turn + 1] = [calls |-> Len(b), stop |-> stop]
  <1>1. b \in Seq(Tools) /\ Len(b) \in Nat /\ DOMAIN b = 1..Len(b) /\ Turn \in Nat
    BY LoopAssumption, LenProperties DEF Typed, Turn
  <1>2. answers' \in Seq([calls : Nat, stop : Stops]) /\ Len(answers') = Len(answers) + 1
    BY <1>1 DEF Typed, ModelAnswers
  <1>3. /\ \A turn \in 1..Turn : answers'[turn] = answers[turn]
        /\ answers'[Turn + 1] = [calls |-> Len(b), stop |-> stop]
    BY <1>1 DEF Typed, ModelAnswers, Turn
  <1>4. transcript' \in Seq(Messages)
    BY <1>1, MessageKinds DEF Typed, ModelAnswers
  <1>5. /\ batch' \in Seq(Tools) /\ mode' \in {"parallel", "sequential", "refused"}
        /\ call' \in [1..Len(batch') -> {"waiting", "running", "returned", "ended"}]
        /\ terminating' \subseteq 1..Len(batch')
        /\ phase' \in {"batch", "finish"} /\ (phase' = "batch" => ~Failed(stop))
    <2>1. CASE Failed(stop)
      BY <2>1 DEF Typed, ModelAnswers, batchVars
    <2>2. CASE ~Failed(stop)
      BY <1>1, <2>2 DEF Typed, ModelAnswers, ModeOf, Begin
    <2> QED BY <2>1, <2>2
  <1>6. Typed'
    BY <1>2, <1>4, <1>5 DEF Typed, Phases, ModelAnswers, steerVars
  <1>7. AnswerKnown'
    BY <1>1, <1>2, <1>3, <1>5 DEF AnswerKnown, Turn
  <1> QED BY <1>1, <1>2, <1>3, <1>6, <1>7 DEF Turn

\* Steps that leave answers and transcript alone.
LEMMA CallTyped ==
  ASSUME Typed, NEW i \in Calls, Refuse(i) \/ Launch(i) \/ EndCall(i) \/ Update(i) \/ \E t \in BOOLEAN : ToolReturns(i, t)
  PROVE  /\ Typed' /\ UNCHANGED <<phase, answers, batch, transcript, queue, closed, admitted, config>>
  <1>1. CASE Refuse(i)
    BY <1>1 DEF Typed, Refuse, steerVars
  <1>2. CASE Launch(i)
    BY <1>2 DEF Typed, Launch, steerVars
  <1>3. CASE EndCall(i)
    BY <1>3 DEF Typed, EndCall, EndCallFrom, steerVars
  <1>4. CASE Update(i)
    BY <1>4 DEF Typed, Update, UpdateWhile, batchVars, steerVars
  <1>5. CASE \E t \in BOOLEAN : ToolReturns(i, t)
    BY <1>5 DEF Typed, ToolReturns, steerVars, Calls
  <1> QED BY <1>1, <1>2, <1>3, <1>4, <1>5

\* The run moves on: the boundary's steps, and the announcement of an answer.
LEMMA RunTyped ==
  ASSUME Typed, AnswerKnown, Run \/ ModelStarts
  PROVE  Typed' /\ AnswerKnown' /\ UNCHANGED <<answers, batch, config>>
  <1>1. answers' = answers /\ batch' = batch /\ config' = config /\ Turn' = Turn
    BY DEF Run, ModelStarts, EndTurn, Finish, Continue, Cut, End, batchVars, Turn
  <1>2. transcript' \in Seq(Messages) /\ queue' \in Seq(Nat)
    <2>1. CASE EndTurn
      <3>1. Results \in Seq(Messages) /\ transcript \in Seq(Messages) /\ queue \in Seq(Nat)
        BY ResultsTyped DEF Typed
      <3> QED BY <2>1, <3>1, AppendedMessages DEF EndTurn, steerVars
    <2>2. CASE Continue \/ Cut
      <3>1. Heard(queue) \in Seq(Messages) /\ transcript \in Seq(Messages)
        BY HeardQueue DEF Typed
      <3>2. transcript' = transcript \o Heard(queue) /\ queue' = <<>>
        BY <2>2 DEF Continue, Cut, Hear
      <3> QED BY <3>1, <3>2, AppendedMessages
    <2>3. CASE Finish \/ End \/ ModelStarts
      BY <2>3 DEF Typed, Finish, End, ModelStarts, steerVars
    <2> QED BY <2>1, <2>2, <2>3 DEF Run
  <1>3. phase' \in Phases /\ closed' \in BOOLEAN /\ admitted' \in Nat /\ cancelled' \in BOOLEAN /\ UNCHANGED batchVars
    BY DEF Typed, Phases, Run, ModelStarts, EndTurn, Finish, Continue, Cut, End, steerVars
  <1>4. Typed'
    BY <1>1, <1>2, <1>3 DEF Typed, batchVars
  <1>5. AnswerKnown'
    BY <1>1 DEF AnswerKnown, Run, ModelStarts, EndTurn, Finish, Continue, Cut, End
  <1> QED BY <1>1, <1>4, <1>5

\* The user's steps.
LEMMA UserTyped ==
  ASSUME Typed, Steer \/ Cancel
  PROVE  Typed' /\ UNCHANGED <<phase, answers, batch, transcript, closed, config>>
  <1>1. CASE Steer
    <2>1. queue' \in Seq(Nat) /\ admitted' \in Nat
      BY <1>1 DEF Typed, Steer
    <2> QED BY <1>1, <2>1 DEF Typed, Steer, batchVars
  <1>2. CASE Cancel
    BY <1>2 DEF Typed, Cancel, batchVars, steerVars
  <1> QED BY <1>1, <1>2

------------------------------------------------------------------------------
(* Steers.                                                                 *)

\* A run that is over, its model's failure apart, closed its queue with nothing
\* in it: Steer can no longer be admitted.
ClosedAtEnd ==
    phase \in {"finish", "ended"} /\ ~Failed(answers[Turn].stop) => queue = <<>> /\ closed = config.steering

\* What the loop and its tools say comes between the steers.
LEMMA OthersSpeak ==
  ASSUME Typed, SteersInOrder, NEW said \in Seq(Messages), \A k \in DOMAIN said : said[k].role # "user",
         transcript' = transcript \o said, queue' = queue, admitted' = admitted
  PROVE  SteersInOrder'
  <1>1. /\ \A i \in DOMAIN transcript : i \in DOMAIN transcript' /\ transcript'[i] = transcript[i]
        /\ \A i \in DOMAIN transcript' : i \in DOMAIN transcript \/ transcript'[i].role # "user"
    BY AppendedMessages DEF Typed
  <1>2. \A i \in DOMAIN transcript' : SteerAt(i)' => i \in DOMAIN transcript /\ SteerAt(i) /\ transcript'[i] = transcript[i]
    BY <1>1 DEF SteerAt
  <1>3. HeardCount' = HeardCount
    BY DEF HeardCount
  <1> QED BY <1>1, <1>2, <1>3 DEF SteersInOrder

\* A step boundary moves the whole queue to the end of the transcript.
LEMMA QueueHeard ==
  ASSUME Typed, SteersInOrder, transcript' = transcript \o Heard(queue), queue' = <<>>, admitted' = admitted
  PROVE  SteersInOrder'
  <1> DEFINE ks == Heard(queue)
  <1>1. /\ ks \in Seq(Messages) /\ DOMAIN ks = 1..Len(queue) /\ Len(ks) = Len(queue) /\ DOMAIN queue = 1..Len(queue) /\ Len(queue) \in Nat
        /\ \A k \in 1..Len(queue) : ks[k] = Steered(HeardCount + k)
    BY HeardQueue, LenProperties DEF Typed, SteersInOrder
  <1>2. HeardCount \in Nat /\ HeardCount' = HeardCount + Len(queue) /\ Len(queue') = 0 /\ DOMAIN queue' = {}
    BY <1>1 DEF Typed, SteersInOrder, HeardCount
  <1> HIDE DEF ks
  <1>3. /\ transcript \in Seq(Messages) /\ DOMAIN transcript = 1..Len(transcript) /\ Len(transcript) \in Nat
         /\ \A i \in DOMAIN transcript : transcript[i] \in Messages /\ transcript[i].n \in Nat
    <2>1. transcript \in Seq(Messages)
      BY DEF Typed
    <2>2. \A m \in Messages : m.n \in Nat
      BY DEF Messages
    <2> QED BY <2>1, <2>2, LenProperties, ElementOfSeq
  <1>4. transcript' = transcript \o ks
    BY DEF ks
  <1>5. /\ DOMAIN transcript = 1..Len(transcript) /\ Len(transcript) \in Nat /\ DOMAIN transcript' = 1..(Len(transcript) + Len(queue))
        /\ \A i \in DOMAIN transcript : transcript'[i] = transcript[i]
        /\ \A k \in 1..Len(queue) : transcript'[Len(transcript) + k] = Steered(HeardCount + k)
    <2>1. /\ DOMAIN (transcript \o ks) = 1..(Len(transcript) + Len(ks))
          /\ \A i \in DOMAIN transcript : (transcript \o ks)[i] = transcript[i]
          /\ \A i \in DOMAIN ks : (transcript \o ks)[Len(transcript) + i] = ks[i]
      BY <1>1, <1>3, AppendedMessages
    <2> QED BY <1>1, <1>3, <1>4, <2>1
  <1>6. \A i \in DOMAIN transcript' : i \in DOMAIN transcript \/ \E k \in 1..Len(queue) : i = Len(transcript) + k
    BY <1>1, <1>5
  <1>7. \A n \in Nat : Steered(n).role = "user" /\ Steered(n).n = n
    BY DEF Steered, Message
  <1>8. \A i \in DOMAIN transcript : (SteerAt(i)' <=> SteerAt(i)) /\ (SteerAt(i) => transcript'[i] = Steered(transcript'[i].n) /\ transcript'[i].n <= HeardCount)
    BY <1>5 DEF SteerAt, SteersInOrder
  <1>9. \A k \in 1..Len(queue) : transcript'[Len(transcript) + k] = Steered(HeardCount + k) /\ transcript'[Len(transcript) + k].n = HeardCount + k
    BY <1>1, <1>2, <1>5, <1>7
  <1>10. \A i \in DOMAIN transcript' : SteerAt(i)' => transcript'[i] = Steered(transcript'[i].n) /\ transcript'[i].n <= HeardCount'
    <2> SUFFICES ASSUME NEW i \in DOMAIN transcript', SteerAt(i)'
                 PROVE  transcript'[i] = Steered(transcript'[i].n) /\ transcript'[i].n <= HeardCount'
      OBVIOUS
    <2>1. CASE i \in DOMAIN transcript
      <3>1. transcript'[i] = Steered(transcript'[i].n) /\ transcript'[i].n <= HeardCount
        BY <1>8, <2>1
      <3>2. transcript'[i].n \in Nat
        BY <1>5, <1>3, <2>1
      <3> QED BY <1>1, <1>2, <3>1, <3>2
    <2>2. CASE i \notin DOMAIN transcript
      <3>1. PICK k \in 1..Len(queue) : i = Len(transcript) + k
        BY <1>6, <2>2
      <3> QED BY <1>1, <1>2, <1>9, <3>1
    <2> QED BY <2>1, <2>2
  <1>11. \A i, j \in DOMAIN transcript' : i < j /\ SteerAt(i)' /\ SteerAt(j)' => transcript'[i].n < transcript'[j].n
    <2> SUFFICES ASSUME NEW i \in DOMAIN transcript', NEW j \in DOMAIN transcript', i < j, SteerAt(i)', SteerAt(j)'
                 PROVE  transcript'[i].n < transcript'[j].n
      OBVIOUS
    <2>1. CASE j \in DOMAIN transcript
      <3>1. i \in DOMAIN transcript
        BY <1>1, <1>5, <2>1
      <3> QED BY <1>5, <1>8, <2>1, <3>1 DEF SteersInOrder
    <2>2. CASE j \notin DOMAIN transcript
      <3>1. PICK k \in 1..Len(queue) : j = Len(transcript) + k /\ transcript'[j].n = HeardCount + k
        BY <1>6, <1>9, <2>2
      <3>2. CASE i \in DOMAIN transcript
        <4>1. transcript'[i].n <= HeardCount /\ transcript'[i].n \in Nat
          BY <1>5, <1>8, <1>3, <3>2
        <4> QED BY <1>1, <1>2, <3>1, <4>1, SMTT(40)
      <3>3. CASE i \notin DOMAIN transcript
        <4>1. PICK m \in 1..Len(queue) : i = Len(transcript) + m /\ transcript'[i].n = HeardCount + m
          BY <1>6, <1>9, <3>3
        <4> QED BY <1>1, <1>2, <1>5, <3>1, <4>1
      <3> QED BY <3>2, <3>3
    <2> QED BY <2>1, <2>2
  <1>12. \A k \in 1..HeardCount' : \E i \in DOMAIN transcript' : transcript'[i] = Steered(k)
    <2> SUFFICES ASSUME NEW k \in 1..HeardCount' PROVE \E i \in DOMAIN transcript' : transcript'[i] = Steered(k)
      OBVIOUS
    <2>1. CASE k \in 1..HeardCount
      BY <1>1, <1>5, <2>1 DEF SteersInOrder
    <2>2. CASE k \notin 1..HeardCount
      <3>1. k - HeardCount \in 1..Len(queue) /\ HeardCount + (k - HeardCount) = k
        BY <1>1, <1>2, <2>2
      <3>2. Len(transcript) + (k - HeardCount) \in DOMAIN transcript'
        BY <1>1, <1>5, <3>1
      <3>3. transcript'[Len(transcript) + (k - HeardCount)] = Steered(k)
        BY <1>9, <3>1
      <3> QED BY <3>2, <3>3
    <2> QED BY <2>1, <2>2
  <1>13. Len(queue') <= admitted' /\ \A k \in DOMAIN queue' : queue'[k] = HeardCount' + k
    BY <1>2 DEF Typed
  <1> QED
    BY <1>11, <1>12, <1>10, <1>13 DEF SteersInOrder

LEMMA SteerAdmitted ==
  ASSUME Typed, SteersInOrder, Steer
  PROVE  SteersInOrder'
  <1>1. queue \in Seq(Nat) /\ Len(queue) \in Nat /\ admitted \in Nat /\ DOMAIN queue = 1..Len(queue)
    BY LenProperties DEF Typed
  <1>2. queue' = Append(queue, admitted + 1) /\ admitted' = admitted + 1 /\ transcript' = transcript
    BY DEF Steer
  <1>3. Len(queue') = Len(queue) + 1 /\ DOMAIN queue' = 1..(Len(queue) + 1) /\ queue'[Len(queue) + 1] = admitted + 1
        /\ \A k \in 1..Len(queue) : queue'[k] = queue[k]
    BY <1>1, <1>2
  <1>4. HeardCount' = HeardCount /\ HeardCount + Len(queue) = admitted /\ HeardCount \in Int
    BY <1>1, <1>2, <1>3 DEF HeardCount
  <1>5. ASSUME NEW k \in DOMAIN queue' PROVE queue'[k] = HeardCount' + k
    <2>1. CASE k \in 1..Len(queue)
      <3>1. queue[k] = HeardCount + k
        BY <1>1, <2>1 DEF SteersInOrder
      <3> QED BY <1>3, <1>4, <2>1, <3>1
    <2>2. CASE k \notin 1..Len(queue)
      <3>1. k = Len(queue) + 1
        BY <1>1, <1>3, <2>2
      <3> QED BY <1>1, <1>3, <1>4, <3>1
    <2> QED BY <2>1, <2>2
  <1>6. \A i \in DOMAIN transcript' : SteerAt(i)' <=> SteerAt(i)
    BY <1>2 DEF SteerAt
  <1> QED BY <1>1, <1>2, <1>3, <1>4, <1>5, <1>6 DEF SteersInOrder

\* Steers is what the proof carries: the steers' places, and a closed queue.
Steers == SteersInOrder /\ (closed => queue = <<>>) /\ ClosedAtEnd

LEMMA NextSteers ==
  ASSUME Typed, AnswerKnown, Steers, Next
  PROVE  Steers'
  <1> USE DEF Steers
  <1>1. CASE Steer
    <2>1. phase' = phase /\ answers' = answers /\ config' = config /\ closed' = closed /\ ~closed /\ config.steering /\ Turn' = Turn
      BY <1>1 DEF Steer, Turn
    <2> QED BY <1>1, <2>1, SteerAdmitted DEF ClosedAtEnd
  <1>2. ASSUME UNCHANGED <<transcript, queue, admitted>>, closed' = closed, config' = config, answers' = answers,
               phase' \in {"finish", "ended"} => phase \in {"finish", "ended"}
        PROVE  Steers'
    BY <1>2 DEF SteersInOrder, SteerAt, HeardCount, ClosedAtEnd, Turn
  <1>3. CASE Cancel \/ ModelStarts \/ End
    BY <1>2, <1>3 DEF Cancel, ModelStarts, End, steerVars
  <1>4. CASE \E b \in Batches, stop \in Stops : ModelAnswers(b, stop)
    <2>1. PICK b \in Batches, stop \in Stops : ModelAnswers(b, stop)
      BY <1>4
    <2>2. Answer(Turn + 1) \in Messages /\ Answer(Turn + 1).role = "assistant" /\ Turn \in Nat
      <3>1. Turn \in Nat
        BY LenProperties DEF Typed, Turn
      <3> QED BY <3>1 DEF Answer, Message, Messages
    <2>3. transcript' = transcript \o <<Answer(Turn + 1)>>
      BY <2>1, <2>2, OneMessage DEF ModelAnswers, Typed
    <2>4. SteersInOrder'
      <3>1. <<Answer(Turn + 1)>> \in Seq(Messages) /\ \A k \in DOMAIN <<Answer(Turn + 1)>> : <<Answer(Turn + 1)>>[k].role # "user"
        BY <2>2
      <3>2. queue' = queue /\ admitted' = admitted
        BY <2>1 DEF ModelAnswers, steerVars
      <3> QED BY <2>3, <3>1, <3>2, OthersSpeak
    <2>5. ClosedAtEnd'
      <3>1. Turn' = Turn + 1 /\ answers'[Turn + 1].stop = stop
        <4>1. Turn' = Turn + 1 /\ answers'[Turn + 1] = [calls |-> Len(b), stop |-> stop]
          BY <2>1, AnswerTyped
        <4> QED BY <4>1
      <3> QED BY <2>1, <3>1 DEF ClosedAtEnd, ModelAnswers
    <2> QED BY <2>1, <2>4, <2>5 DEF ModelAnswers, steerVars
  <1>5. CASE Executing \/ Returning \/ \E i \in Calls : Update(i)
    <2>1. UNCHANGED <<phase, answers, transcript, queue, closed, admitted, config>>
      BY <1>5, CallTyped DEF Executing, Returning
    <2> QED BY <1>2, <2>1
  <1>6. CASE EndTurn
    <2>1. Results \in Seq(Messages) /\ DOMAIN Results = 1..Len(batch) /\ \A k \in DOMAIN Results : Results[k].role # "user"
      <3>1. \A k \in 1..Len(batch) : Result(Turn, k).role # "user"
        BY DEF Result, Message
      <3>2. Results \in Seq(Messages) /\ DOMAIN Results = 1..Len(Results)
        BY ResultsTyped, LenProperties
      <3> QED BY <3>1, <3>2, ResultsTyped
    <2>2. SteersInOrder'
      BY <1>6, <2>1, OthersSpeak DEF EndTurn, steerVars
    <2> QED BY <1>6, <2>2 DEF EndTurn, ClosedAtEnd, steerVars
  <1>7. CASE Finish
    <2>1. SteersInOrder'
      BY <1>7 DEF Finish, SteersInOrder, SteerAt, HeardCount
    <2> QED BY <1>7, <2>1 DEF Finish, ClosedAtEnd
  <1>8. CASE Continue
    BY <1>8, QueueHeard DEF Continue, Hear, ClosedAtEnd
  <1>9. CASE Cut
    BY <1>9, QueueHeard DEF Cut, Hear, ClosedAtEnd
  <1> QED
    BY <1>1, <1>3, <1>4, <1>5, <1>6, <1>7, <1>8, <1>9 DEF Next, Model, Run

------------------------------------------------------------------------------
(* Calls and results.                                                      *)

\* The answer whose calls are being executed is the end of the transcript, and
\* the batch is its calls.
Executed ==
    phase = "batch" =>
      /\ answers[Turn].calls = Len(batch)
      /\ Len(transcript) > 0
      /\ \A i \in DOMAIN transcript : (transcript[i] = Answer(Turn)) <=> (i = Len(transcript))
      /\ \A i \in DOMAIN transcript : ~ToolOf(transcript[i], Turn)

\* Nothing is said of an answer that was not received.
NoneAhead == \A i \in DOMAIN transcript : transcript[i].role # "user" => transcript[i].turn <= Turn

\* Every answer the loop acted on and left behind has its results.
LeftPaired ==
    \A turn \in 1..Turn : ~Failed(answers[turn].stop) /\ (phase = "batch" => turn # Turn) => Paired(turn)

Pairing == Executed /\ NoneAhead /\ LeftPaired

\* What is said of other turns leaves an answer and its results where they are.
LEMMA PairedStays ==
  ASSUME Typed, NEW said \in Seq(Messages), transcript' = transcript \o said,
         NEW turn \in 1..Turn, answers'[turn] = answers[turn], Paired(turn),
         \A k \in DOMAIN said : said[k] # Answer(turn) /\ ~ToolOf(said[k], turn)
  PROVE  Paired(turn)'
  <1>1. PICK at \in DOMAIN transcript : PairedAt(at, turn, answers[turn].calls)
    BY DEF Paired
  <1>2. answers[turn].calls \in Nat
    <2>1. turn \in 1..Len(answers) /\ answers \in Seq([calls : Nat, stop : Stops])
      BY DEF Typed, Turn
    <2>2. answers[turn] \in [calls : Nat, stop : Stops]
      BY <2>1, ElementOfSeq
    <2> QED BY <2>2
  <1>3. /\ DOMAIN transcript = 1..Len(transcript) /\ Len(transcript) \in Nat /\ Len(said) \in Nat
        /\ Len(transcript') = Len(transcript) + Len(said)
        /\ \A i \in DOMAIN transcript : i \in DOMAIN transcript' /\ transcript'[i] = transcript[i]
        /\ \A i \in DOMAIN transcript' : i \in DOMAIN transcript \/ (transcript'[i] # Answer(turn) /\ ~ToolOf(transcript'[i], turn))
    BY AppendedMessages, LenProperties, SMTT(40) DEF Typed
  <1>4. PairedAt(at, turn, answers[turn].calls)'
    BY <1>1, <1>2, <1>3, SMTT(40) DEF PairedAt
  <1> QED BY <1>3, <1>4 DEF Paired

\* Steps that say nothing.
LEMMA SilentPairing ==
  ASSUME Pairing, UNCHANGED <<transcript, answers, batch>>, phase' = "batch" <=> phase = "batch"
  PROVE  Pairing'
  <1>1. Turn' = Turn /\ \A turn \in 1..Turn : Paired(turn)' <=> Paired(turn)
    BY DEF Turn, Paired, PairedAt
  <1> QED BY <1>1 DEF Pairing, Executed, NoneAhead, LeftPaired

\* What the user says pairs nothing and breaks no pair.
LEMMA UserPairing ==
  ASSUME Typed, Pairing, NEW said \in Seq(Messages), transcript' = transcript \o said, UNCHANGED <<answers, batch>>,
         phase # "batch", phase' # "batch", \A k \in DOMAIN said : said[k].role = "user"
  PROVE  Pairing'
  <1>1. Turn' = Turn
    BY DEF Turn
  <1>2. \A turn \in Nat : \A k \in DOMAIN said : said[k] # Answer(turn) /\ ~ToolOf(said[k], turn)
    BY DEF Answer, Message, ToolOf
  <1>3. LeftPaired'
    <2> SUFFICES ASSUME NEW turn \in 1..Turn, ~Failed(answers[turn].stop) PROVE Paired(turn)'
      BY <1>1 DEF LeftPaired
    <2>1. Paired(turn) /\ turn \in Nat /\ answers'[turn] = answers[turn]
      BY DEF Pairing, LeftPaired
    <2> QED BY <1>2, <2>1, PairedStays
  <1>4. NoneAhead'
    BY <1>1, AppendedMessages DEF Typed, Pairing, NoneAhead
  <1> QED BY <1>3, <1>4 DEF Pairing, Executed

LEMMA AnswerPairing ==
  ASSUME Typed, AnswerKnown, Pairing, NEW b \in Batches, NEW stop \in Stops, ModelAnswers(b, stop)
  PROVE  Pairing'
  <1> DEFINE said == <<Answer(Turn + 1)>>
  <1>1. /\ Turn \in Nat /\ Turn' = Turn + 1 /\ \A turn \in 1..Turn : answers'[turn] = answers[turn]
        /\ answers'[Turn + 1] = [calls |-> Len(b), stop |-> stop]
    BY AnswerTyped
  <1>2. Answer(Turn + 1) \in Messages
    BY <1>1 DEF Answer, Message, Messages
  <1>3. said \in Seq(Messages) /\ DOMAIN said = {1} /\ Len(said) = 1 /\ said[1] = Answer(Turn + 1) /\ transcript' = transcript \o said
    BY <1>2, OneMessage DEF Typed, ModelAnswers
  <1> HIDE DEF said
  <1>4. /\ DOMAIN transcript = 1..Len(transcript) /\ Len(transcript) \in Nat /\ DOMAIN transcript' = 1..(Len(transcript) + 1)
        /\ Len(transcript') = Len(transcript) + 1
        /\ \A i \in DOMAIN transcript : transcript'[i] = transcript[i]
        /\ transcript'[Len(transcript) + 1] = Answer(Turn + 1)
    <2>1. transcript \in Seq(Messages)
      BY DEF Typed
    <2>2. /\ DOMAIN (transcript \o said) = 1..(Len(transcript) + Len(said)) /\ Len(transcript \o said) = Len(transcript) + Len(said)
          /\ \A i \in DOMAIN transcript : (transcript \o said)[i] = transcript[i]
          /\ \A i \in DOMAIN said : (transcript \o said)[Len(transcript) + i] = said[i]
      BY <1>3, <2>1, AppendedMessages
    <2> QED BY <1>3, <2>1, <2>2, LenProperties
  <1>5. Answer(Turn + 1).role = "assistant" /\ Answer(Turn + 1).turn = Turn + 1
    BY DEF Answer, Message
  <1>6. \A i \in DOMAIN transcript : transcript[i] # Answer(Turn + 1) /\ ~ToolOf(transcript[i], Turn + 1)
    BY <1>1, <1>5 DEF Pairing, NoneAhead, ToolOf
  <1>7. NoneAhead'
    <2>1. \A i \in DOMAIN transcript : transcript[i] \in Messages /\ transcript[i].turn \in Nat
      <3>1. transcript \in Seq(Messages)
        BY DEF Typed
      <3>2. \A m \in Messages : m.turn \in Nat
        BY DEF Messages
      <3> QED BY <1>4, <3>1, <3>2, ElementOfSeq
    <2> QED BY <1>1, <1>4, <1>5, <2>1 DEF Pairing, NoneAhead
  <1>8. Executed'
    <2> SUFFICES ASSUME phase' = "batch" PROVE Executed'
      BY DEF Executed
    <2>1. batch' = b
      BY DEF ModelAnswers
    <2>2. answers'[Turn'].calls = Len(batch')
      BY <1>1, <2>1
    <2>3. \A i \in DOMAIN transcript' : (transcript'[i] = Answer(Turn')) <=> (i = Len(transcript'))
      BY <1>1, <1>4, <1>6
    <2>4. \A i \in DOMAIN transcript' : ~ToolOf(transcript'[i], Turn')
      BY <1>1, <1>4, <1>5, <1>6 DEF ToolOf
    <2> QED BY <1>4, <2>2, <2>3, <2>4 DEF Executed, ToolOf
  <1>9. LeftPaired'
    <2> SUFFICES ASSUME NEW turn \in 1..Turn', ~Failed(answers'[turn].stop), phase' = "batch" => turn # Turn' PROVE Paired(turn)'
      BY DEF LeftPaired
    <2>1. turn # Turn + 1
      <3>1. answers'[Turn + 1].stop = stop
        BY <1>1
      <3>2. ~Failed(stop) => phase' = "batch"
        BY DEF ModelAnswers
      <3> QED BY <1>1, <3>1, <3>2
    <2>2. turn \in 1..Turn /\ answers'[turn] = answers[turn]
      BY <1>1, <2>1
    <2>3. Paired(turn)
      BY <2>2 DEF Pairing, LeftPaired, ModelAnswers
    <2>4. \A k \in DOMAIN said : said[k] # Answer(turn) /\ ~ToolOf(said[k], turn)
      BY <1>1, <1>3, <1>5, <2>2 DEF Answer, Message, ToolOf
    <2> QED BY <1>3, <2>2, <2>3, <2>4, PairedStays
  <1> QED BY <1>7, <1>8, <1>9 DEF Pairing

LEMMA EndTurnPairing ==
  ASSUME Typed, AnswerKnown, Pairing, EndTurn
  PROVE  Pairing'
  <1>1. /\ Turn' = Turn /\ answers' = answers /\ batch' = batch /\ phase = "batch" /\ phase' # "batch"
        /\ Turn \in Nat /\ Len(batch) \in Nat /\ Turn \in 1..Turn /\ answers[Turn].calls = Len(batch)
    <2>1. answers # <<>> /\ answers \in Seq([calls : Nat, stop : Stops])
      BY DEF AnswerKnown, Typed, EndTurn
    <2>2. Turn \in Nat /\ Turn # 0
      BY <2>1, EmptySeq, LenProperties DEF Turn
    <2> QED BY <2>2, LenProperties DEF Typed, EndTurn, batchVars, Turn, Pairing, Executed
  <1>2. /\ Results \in Seq(Messages) /\ Len(Results) = Len(batch) /\ DOMAIN Results = 1..Len(batch)
        /\ \A k \in 1..Len(batch) : Results[k] = Result(Turn, k)
    BY ResultsTyped, LenProperties
  <1>3. \A k \in Nat : Result(Turn, k).role = "tool" /\ Result(Turn, k).turn = Turn
    BY DEF Result, Message
  <1>4. /\ DOMAIN transcript = 1..Len(transcript) /\ Len(transcript) \in Nat
        /\ DOMAIN transcript' = 1..(Len(transcript) + Len(batch)) /\ Len(transcript') = Len(transcript) + Len(batch)
        /\ \A i \in DOMAIN transcript : transcript'[i] = transcript[i]
        /\ \A k \in 1..Len(batch) : transcript'[Len(transcript) + k] = Result(Turn, k)
    <2>1. transcript \in Seq(Messages) /\ transcript' = transcript \o Results
      BY DEF Typed, EndTurn
    <2>2. /\ DOMAIN (transcript \o Results) = 1..(Len(transcript) + Len(Results)) /\ Len(transcript \o Results) = Len(transcript) + Len(Results)
          /\ \A i \in DOMAIN transcript : (transcript \o Results)[i] = transcript[i]
          /\ \A i \in DOMAIN Results : (transcript \o Results)[Len(transcript) + i] = Results[i]
      BY <1>2, <2>1, AppendedMessages
    <2> QED BY <1>2, <2>1, <2>2, LenProperties
  <1>5. \A i \in DOMAIN transcript' : i \in DOMAIN transcript \/ \E k \in 1..Len(batch) : i = Len(transcript) + k /\ transcript'[i] = Result(Turn, k)
    <2> SUFFICES ASSUME NEW i \in DOMAIN transcript', i \notin DOMAIN transcript
                 PROVE  \E k \in 1..Len(batch) : i = Len(transcript) + k /\ transcript'[i] = Result(Turn, k)
      OBVIOUS
    <2>1. i - Len(transcript) \in 1..Len(batch) /\ i = Len(transcript) + (i - Len(transcript))
      BY <1>1, <1>4
    <2> QED BY <1>4, <2>1
  <1>6. NoneAhead'
    BY <1>1, <1>3, <1>4, <1>5 DEF Pairing, NoneAhead
  <1>7. Paired(Turn)'
    <2>1. Len(transcript) \in DOMAIN transcript' /\ Len(transcript) > 0
      BY <1>1, <1>4 DEF Pairing, Executed
    <2>2. \A i \in DOMAIN transcript' : (transcript'[i] = Answer(Turn)) <=> (i = Len(transcript))
      BY <1>1, <1>3, <1>4, <1>5 DEF Pairing, Executed, Answer, Message
    <2>3. \A i \in DOMAIN transcript' : ToolOf(transcript'[i], Turn) => i \in (Len(transcript) + 1)..(Len(transcript) + Len(batch))
      BY <1>1, <1>4, <1>5 DEF Pairing, Executed, ToolOf
    <2>4. PICK at \in DOMAIN transcript', turn \in Nat, n \in Nat : at = Len(transcript) /\ turn = Turn /\ n = Len(batch)
      BY <1>1, <2>1
    <2>5. PairedAt(at, turn, n)'
      BY <1>1, <1>4, <2>2, <2>3, <2>4 DEF PairedAt
    <2> QED BY <1>1, <2>4, <2>5 DEF Paired
  <1>8. LeftPaired'
    <2> SUFFICES ASSUME NEW turn \in 1..Turn, turn # Turn, ~Failed(answers[turn].stop) PROVE Paired(turn)'
      BY <1>1, <1>7 DEF LeftPaired
    <2>1. Paired(turn) /\ answers'[turn] = answers[turn]
      BY <1>1 DEF Pairing, LeftPaired
    <2>2. \A k \in DOMAIN Results : Results[k] # Answer(turn) /\ ~ToolOf(Results[k], turn)
      BY <1>2, <1>3 DEF Answer, Message, ToolOf
    <2>3. transcript' = transcript \o Results
      BY DEF EndTurn
    <2> QED BY <1>2, <2>1, <2>2, <2>3, PairedStays
  <1> QED BY <1>1, <1>6, <1>8 DEF Pairing, Executed

LEMMA NextPairing ==
  ASSUME Typed, AnswerKnown, Pairing, Next
  PROVE  Pairing'
  <1>1. CASE Steer \/ Cancel \/ ModelStarts \/ Finish \/ End
    <2>1. UNCHANGED <<transcript, answers, batch>> /\ (phase' = "batch" <=> phase = "batch")
      BY <1>1 DEF Steer, Cancel, ModelStarts, Finish, End, batchVars, steerVars
    <2> QED BY <2>1, SilentPairing
  <1>2. CASE Executing \/ Returning \/ \E i \in Calls : Update(i)
    <2>1. UNCHANGED <<phase, transcript, answers, batch>>
      BY <1>2, CallTyped DEF Executing, Returning
    <2> QED BY <2>1, SilentPairing
  <1>3. CASE \E b \in Batches, stop \in Stops : ModelAnswers(b, stop)
    BY <1>3, AnswerPairing
  <1>4. CASE EndTurn
    BY <1>4, EndTurnPairing
  <1>5. CASE Continue \/ Cut
    <2>1. \A k \in DOMAIN Heard(queue) : Heard(queue)[k].role = "user"
      BY HeardQueue DEF Heard, Steered, Message
    <2>2. /\ transcript' = transcript \o Heard(queue) /\ UNCHANGED <<answers, batch>>
          /\ phase # "batch" /\ phase' # "batch"
      BY <1>5 DEF Continue, Cut, Hear, batchVars
    <2> QED BY <2>1, <2>2, HeardQueue, UserPairing
  <1> QED BY <1>1, <1>2, <1>3, <1>4, <1>5 DEF Next, Model, Run

------------------------------------------------------------------------------
(* The inductive invariant and what follows from it.                       *)

IInv == Typed /\ AnswerKnown /\ Steers /\ Pairing

LEMMA InitIInv == Init => IInv
  <1> SUFFICES ASSUME Init PROVE IInv
    OBVIOUS
  <1>1. Typed /\ AnswerKnown
    BY InitTyped
  <1>2. transcript = <<Steered(0)>> /\ Steered(0).role = "user" /\ Steered(0).n = 0 /\ queue = <<>> /\ admitted = 0 /\ Turn = 0
    BY DEF Init, Prompt, Steered, Message, Turn
  <1>3. Steers
    BY <1>2 DEF Init, Steers, SteersInOrder, SteerAt, HeardCount, ClosedAtEnd
  <1>4. Pairing
    BY <1>2 DEF Init, Pairing, Executed, NoneAhead, LeftPaired
  <1> QED BY <1>1, <1>3, <1>4 DEF IInv

LEMMA NextTyped == ASSUME Typed, AnswerKnown, Next PROVE Typed' /\ AnswerKnown'
  <1>1. CASE Steer \/ Cancel
    BY <1>1, UserTyped DEF AnswerKnown, Turn
  <1>2. CASE Run \/ ModelStarts
    BY <1>2, RunTyped
  <1>3. CASE \E b \in Batches, stop \in Stops : ModelAnswers(b, stop)
    BY <1>3, AnswerTyped
  <1>4. CASE Executing \/ Returning \/ \E i \in Calls : Update(i)
    BY <1>4, CallTyped DEF Executing, Returning, AnswerKnown, Turn
  <1> QED BY <1>1, <1>2, <1>3, <1>4 DEF Next, Model

LEMMA NextIInv == IInv /\ [Next]_vars => IInv'
  <1> SUFFICES ASSUME IInv, [Next]_vars PROVE IInv'
    OBVIOUS
  <1>1. CASE Next
    BY <1>1, NextTyped, NextSteers, NextPairing DEF IInv
  <1>2. CASE UNCHANGED vars
    BY <1>2, SilentPairing DEF IInv, Typed, AnswerKnown, Steers, SteersInOrder, SteerAt, HeardCount, ClosedAtEnd, Turn, vars, batchVars, steerVars
  <1> QED BY <1>1, <1>2

\* The strengthening holds in every reachable state of every run.
THEOREM LoopInvariance == Spec => []IInv
  BY InitIInv, NextIInv, PTL DEF Spec

\* steering.go:20-61: whatever the batches, the cancellations and the number of
\* steers, each admitted steer is in the transcript or queued, once and in
\* order, and only a failed model leaves one behind.
THEOREM SteersNeverLost == Spec => []SteersKept
  <1>1. IInv => SteersKept
    BY DEF IInv, Steers, SteersKept, ClosedAtEnd, Last, Turn
  <1> QED BY <1>1, LoopInvariance, PTL

\* loop.go:285: every answer the loop acted on is followed by one result for
\* each of its calls, in source order, whenever a request is sent or the run is
\* over, for batches of any length.
THEOREM EveryCallPaired == Spec => []CallsPaired
  <1>1. IInv => CallsPaired
    BY DEF IInv, Pairing, LeftPaired, CallsPaired
  <1> QED BY <1>1, LoopInvariance, PTL

==============================================================================
