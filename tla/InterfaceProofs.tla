--------------------------- MODULE InterfaceProofs --------------------------
(***************************************************************************)
(* Proofs about two parts of the terminal interface: the queue of prompts  *)
(* (PromptQueue) and the render loop (RenderLoop), for any prompts, shells,*)
(* goroutines that ask for a frame, and bounds.                            *)
(***************************************************************************)
EXTENDS PromptQueue, RenderLoop, SequenceTheorems, TLAPS

-----------------------------------------------------------------------------
(* The queue of prompts (internal/tui/chat.go).                             *)
InQ(q) == \E n \in 1..Len(queue) : queue[n] = q
InCopy(q) == \E n \in 1..Len(rebuild.queue) : rebuild.queue[n] = q

\* The interface's thread has a shell command at the head of the queue in hand.
HandsShell(q) == dispatching /\ steering = None /\ typing = q

\* A prompt is in one place, and only there, or a rebuild left it out.
Once(q) ==
  /\ \/ q \in rewritten \/ q \in fresh \/ InQ(q) \/ q \in timers \/ q \in starting \/ q = steering
     \/ q \in sent \/ q \in returned \/ q \in dropped
  /\ q \in fresh => ~(InQ(q) \/ InCopy(q) \/ q \in timers \/ q \in starting \/ q = steering
                      \/ q \in sent \/ q \in returned \/ q \in dropped)
  /\ InQ(q) => /\ ~(q \in timers \/ q \in starting \/ q = steering \/ q \in returned \/ q \in dropped)
               /\ q \in sent => HandsShell(q)
  /\ q \in timers => ~(q \in starting \/ q = steering \/ q \in sent \/ q \in returned \/ q \in dropped)
  /\ q \in starting => ~(q = steering \/ q \in sent \/ q \in returned \/ q \in dropped)
  /\ q = steering => ~(q \in returned \/ q \in dropped)
  /\ q \in sent => ~(q \in returned \/ q \in dropped)
  /\ q \in returned => q \notin dropped

Placed == \A q \in Prompts : Once(q)

Single == \A n, m \in 1..Len(queue) : queue[n] = queue[m] => n = m
CopySingle == \A n, m \in 1..Len(rebuild.queue) : rebuild.queue[n] = rebuild.queue[m] => n = m

\* What the interface's thread has in its hands: a steer, or a shell command at
\* the head of a queue that nobody else takes from meanwhile.
Handing ==
  /\ steering # None => typing = steering
  /\ dispatching => typing # None
  /\ dispatching /\ steering = None => queue # <<>> /\ Head(queue) = typing /\ typing \in Shells

Ran == consumers \subseteq sent /\ shells \subseteq sent

\* A busy view has a run or a command that will free it.
Freed == busy => \E p \in Prompts : p \in starting \/ p \in consumers \/ p \in shells \ beside

\* Until something crossed: who starts or runs has the view, and a command in
\* the place of a run has it alone.
Owned ==
  ~crossed =>
    /\ \A p \in starting \cup consumers : busy /\ active = p
    /\ \A p \in shells \ beside : busy /\ starting \cup consumers = {} /\ \A q \in shells \ beside : q = p

\* Until something crossed, or stopped it, a queue that is not held moves.
Moving ==
  ~crossed /\ stalled = "no" /\ queue # <<>> /\ ~held => busy \/ dispatching \/ timers # {} \/ starting # {}

Askers == {"none", "view", "run", "compact"}

QueueTyped ==
  /\ queue \in Seq(Prompts) /\ active \in OrNone /\ steering \in OrNone /\ run \in OrNone /\ typing \in OrNone
  /\ fresh \subseteq Prompts /\ timers \subseteq Prompts /\ starting \subseteq Prompts /\ over \subseteq Prompts
  /\ consumers \subseteq Prompts /\ sent \subseteq Prompts /\ returned \subseteq Prompts /\ dropped \subseteq Prompts
  /\ shells \subseteq Shells /\ beside \subseteq shells /\ moved \subseteq shells /\ rewritten \subseteq Prompts
  /\ held \in BOOLEAN /\ dispatching \in BOOLEAN /\ busy \in BOOLEAN /\ reverting \in BOOLEAN
  /\ shellCancel \in BOOLEAN /\ rowGone \in BOOLEAN /\ crossed \in BOOLEAN /\ stalled \in Reasons
  /\ rebuild \in [by : Askers, at : {"asked", "copied"}, queue : Seq(Prompts), held : BOOLEAN]

QueueInv == QueueTyped /\ Placed /\ Single /\ CopySingle /\ Handing /\ Ran /\ Freed /\ Owned /\ Moving

LEMMA QueueAppended ==
  ASSUME queue \in Seq(Prompts), Single, NEW p \in Prompts, ~InQ(p), queue' = Append(queue, p)
  PROVE  queue' \in Seq(Prompts) /\ Single' /\ queue' # <<>> /\ (queue # <<>> => Head(queue') = Head(queue))
         /\ \A q \in Prompts : InQ(q)' <=> (InQ(q) \/ q = p)
  <1>1. /\ queue' \in Seq(Prompts) /\ Len(queue') = Len(queue) + 1 /\ Len(queue) \in Nat
        /\ queue'[Len(queue) + 1] = p /\ queue' # <<>>
        /\ \A n \in 1..Len(queue) : queue'[n] = queue[n]
    OBVIOUS
  <1>2. 1..Len(queue') = 1..Len(queue) \cup {Len(queue) + 1}
    BY <1>1
  <1>3. Single'
    BY <1>1, <1>2 DEF Single, InQ
  <1>4. \A q \in Prompts : InQ(q)' <=> (InQ(q) \/ q = p)
    BY <1>1, <1>2, Zenon DEF InQ
  <1>5. ASSUME queue # <<>> PROVE Head(queue') = Head(queue)
    <2>1. 1 \in 1..Len(queue)
      BY <1>5, <1>1
    <2>2. Head(queue') = queue'[1] /\ Head(queue) = queue[1]
      BY <1>5, <1>1
    <2> QED BY <1>1, <2>1, <2>2
  <1> QED BY <1>1, <1>3, <1>4, <1>5

LEMMA QueuePopped ==
  ASSUME queue \in Seq(Prompts), Single, queue # <<>>, queue' = Tail(queue)
  PROVE  queue' \in Seq(Prompts) /\ Single' /\ Head(queue) \in Prompts /\ InQ(Head(queue))
         /\ \A q \in Prompts : InQ(q)' <=> (InQ(q) /\ q # Head(queue))
  <1>1. /\ queue' \in Seq(Prompts) /\ Head(queue) \in Prompts /\ Head(queue) = queue[1]
        /\ Len(queue') = Len(queue) - 1 /\ Len(queue) \in Nat /\ Len(queue) > 0
        /\ \A n \in 1..Len(queue') : queue'[n] = queue[n + 1]
    OBVIOUS
  <1>2. InQ(Head(queue))
    <2>1. 1 \in 1..Len(queue)
      BY <1>1
    <2> QED BY <1>1, <2>1 DEF InQ
  <1>3. Single'
    <2> SUFFICES ASSUME NEW n \in 1..Len(queue'), NEW m \in 1..Len(queue'), queue'[n] = queue'[m] PROVE n = m
      BY DEF Single
    <2>1. n + 1 \in 1..Len(queue) /\ m + 1 \in 1..Len(queue) /\ n \in Nat /\ m \in Nat
      BY <1>1
    <2>2. n + 1 = m + 1
      BY <1>1, <2>1 DEF Single
    <2> QED BY <2>1, <2>2
  <1>4. ASSUME NEW q \in Prompts PROVE InQ(q)' <=> (InQ(q) /\ q # Head(queue))
    <2>1. ASSUME InQ(q)' PROVE InQ(q) /\ q # Head(queue)
      <3>1. PICK n \in 1..Len(queue') : queue'[n] = q
        BY <2>1 DEF InQ
      <3>2. n + 1 \in 1..Len(queue) /\ n + 1 # 1 /\ 1 \in 1..Len(queue)
        BY <1>1
      <3>3. queue[n + 1] = q
        BY <1>1, <3>1
      <3> QED BY <1>1, <3>2, <3>3 DEF InQ, Single
    <2>2. ASSUME InQ(q), q # Head(queue) PROVE InQ(q)'
      <3>1. PICK n \in 1..Len(queue) : queue[n] = q
        BY <2>2 DEF InQ
      <3>2. n # 1 /\ n \in Nat
        BY <1>1, <2>2, <3>1
      <3>3. n - 1 \in 1..Len(queue') /\ (n - 1) + 1 = n
        BY <1>1, <3>2
      <3>4. queue'[n - 1] = q
        BY <1>1, <3>1, <3>3
      <3> QED BY <3>3, <3>4 DEF InQ
    <2> QED BY <2>1, <2>2
  <1> QED BY <1>1, <1>2, <1>3, <1>4

LEMMA QueuePoppedHead ==
  ASSUME queue \in Seq(Prompts), queue # <<>>
  PROVE  Head(queue) \in Prompts /\ InQ(Head(queue))
  <1>1. Head(queue) \in Prompts /\ Head(queue) = queue[1] /\ 1 \in 1..Len(queue)
    OBVIOUS
  <1> QED BY <1>1 DEF InQ

LEMMA QueueFronted ==
  ASSUME queue \in Seq(Prompts), Single, NEW p \in Prompts, ~InQ(p), queue' = <<p>> \o queue
  PROVE  queue' \in Seq(Prompts) /\ Single' /\ \A q \in Prompts : InQ(q)' <=> (InQ(q) \/ q = p)
  <1>1. /\ queue' \in Seq(Prompts) /\ Len(queue') = Len(queue) + 1 /\ Len(queue) \in Nat /\ queue'[1] = p
        /\ \A n \in 1..Len(queue) : queue'[n + 1] = queue[n]
    OBVIOUS
  <1>2. /\ \A n \in 1..Len(queue') : n = 1 \/ (n - 1 \in 1..Len(queue) /\ queue'[n] = queue[n - 1])
        /\ 1 \in 1..Len(queue') /\ \A n \in 1..Len(queue) : n + 1 \in 1..Len(queue')
    BY <1>1
  <1>3. Single'
    <2> SUFFICES ASSUME NEW n \in 1..Len(queue'), NEW m \in 1..Len(queue'), queue'[n] = queue'[m] PROVE n = m
      BY DEF Single
    <2>1. n \in Nat /\ m \in Nat
      BY <1>1
    <2>2. CASE n = 1
      BY <1>1, <1>2, <2>2 DEF InQ
    <2>3. CASE m = 1
      BY <1>1, <1>2, <2>3 DEF InQ
    <2>4. CASE n # 1 /\ m # 1
      <3>1. n - 1 = m - 1
        BY <1>2, <2>4 DEF Single
      <3> QED BY <2>1, <3>1
    <2> QED BY <2>2, <2>3, <2>4
  <1>4. ASSUME NEW q \in Prompts PROVE InQ(q)' <=> (InQ(q) \/ q = p)
    BY <1>1, <1>2 DEF InQ
  <1> QED BY <1>1, <1>3, <1>4

LEMMA QueueSame ==
  ASSUME UNCHANGED queue
  PROVE  (Single => Single') /\ \A q \in Prompts : InQ(q)' <=> InQ(q)
  BY DEF Single, InQ

LEMMA CopySame ==
  ASSUME UNCHANGED rebuild
  PROVE  (CopySingle => CopySingle') /\ \A q \in Prompts : InCopy(q)' <=> InCopy(q)
  BY DEF CopySingle, InCopy

\* An undo or a compaction that asks, or gives up, holds no copy.
LEMMA CopyNone ==
  ASSUME NEW by \in Askers, rebuild' = [NoRebuild EXCEPT !.by = by]
  PROVE  /\ CopySingle' /\ \A q \in Prompts : ~InCopy(q)'
         /\ rebuild' \in [by : Askers, at : {"asked", "copied"}, queue : Seq(Prompts), held : BOOLEAN]
  <1>1. NoRebuild \in [by : Askers, at : {"asked", "copied"}, queue : Seq(Prompts), held : BOOLEAN]
        /\ NoRebuild.queue = <<>>
    <2>1. <<>> \in Seq(Prompts)
      OBVIOUS
    <2> QED BY <2>1 DEF NoRebuild, Askers
  <1>2. rebuild'.queue = <<>> /\ Len(<<>>) = 0
    BY <1>1
  <1>3. CopySingle' /\ \A q \in Prompts : ~InCopy(q)'
    BY <1>2 DEF CopySingle, InCopy
  <1>4. rebuild' \in [by : Askers, at : {"asked", "copied"}, queue : Seq(Prompts), held : BOOLEAN]
    BY <1>1
  <1> QED BY <1>3, <1>4

LEMMA QueueStarts == QueueInit => QueueInv
  <1> SUFFICES ASSUME QueueInit PROVE QueueInv
    OBVIOUS
  <1>1. /\ fresh = Prompts /\ queue = <<>> /\ held = FALSE /\ dispatching = FALSE
        /\ busy = FALSE /\ active = None /\ reverting = FALSE
        /\ shellCancel = FALSE /\ shells = {} /\ beside = {} /\ moved = {}
        /\ timers = {} /\ starting = {} /\ steering = None /\ rowGone = FALSE /\ typing = None
        /\ rebuild = [by |-> "none", at |-> "asked", queue |-> <<>>, held |-> FALSE]
        /\ run = None /\ over = {} /\ consumers = {}
        /\ sent = {} /\ returned = {} /\ dropped = {} /\ rewritten = {} /\ stalled = "no" /\ crossed = FALSE
    BY DEF QueueInit, NoRebuild
  <1>2. QueueTyped
    <2>1. <<>> \in Seq(Prompts)
      OBVIOUS
    <2> QED BY <1>1, <2>1 DEF QueueTyped, OrNone, Reasons, Askers
  <1>3. rebuild.queue = <<>>
    BY <1>1
  <1>4. \A q \in Prompts : ~InQ(q) /\ ~InCopy(q) /\ q # None
    BY <1>1, <1>3, PromptAssumption DEF InQ, InCopy
  <1>5. Placed
    BY <1>1, <1>4 DEF Placed, Once
  <1>6. Single /\ CopySingle
    BY <1>1, <1>3 DEF Single, CopySingle
  <1> QED BY <1>1, <1>2, <1>5, <1>6 DEF QueueInv, Handing, Ran, Freed, Owned, Moving

\* What begins: a shell command is delivered, a prompt asks the session; either
\* takes a view that nobody had.
LEMMA BeginFacts ==
  ASSUME QueueTyped, Ran, NEW p \in Prompts, Begin(p), p \notin sent, UNCHANGED <<beside, moved, consumers>>
  PROVE  /\ busy' = TRUE /\ active' \in OrNone /\ shellCancel' \in BOOLEAN /\ stalled' = "no"
         /\ sent' \subseteq Prompts /\ starting' \subseteq Prompts /\ shells' \subseteq Shells
         /\ beside' \subseteq shells' /\ moved' \subseteq shells' /\ Ran' /\ Freed'
         /\ \/ /\ p \in Shells /\ shells' = shells \cup {p} /\ active' = None /\ p \notin beside'
               /\ sent' = sent \cup {p} /\ starting' = starting
            \/ /\ p \notin Shells /\ starting' = starting \cup {p} /\ active' = p
               /\ shells' = shells /\ sent' = sent
  <1>1. p \in OrNone /\ None \in OrNone /\ p \notin shells /\ p \notin beside
    BY DEF OrNone, QueueTyped, Ran
  <1>2. CASE p \in Shells
    <2>1. /\ busy' = TRUE /\ stalled' = "no" /\ shells' = shells \cup {p} /\ shellCancel' = TRUE /\ active' = None
          /\ sent' = sent \cup {p} /\ starting' = starting
      BY <1>2 DEF Begin
    <2>2. Ran' /\ Freed' /\ p \notin beside'
      BY <1>1, <2>1 DEF Ran, Freed
    <2> QED BY <1>1, <1>2, <2>1, <2>2 DEF QueueTyped
  <1>3. CASE p \notin Shells
    <2>1. /\ busy' = TRUE /\ stalled' = "no" /\ starting' = starting \cup {p} /\ active' = p
          /\ shells' = shells /\ shellCancel' = shellCancel /\ sent' = sent
      BY <1>3 DEF Begin
    <2>2. Ran' /\ Freed'
      BY <2>1 DEF Ran, Freed
    <2> QED BY <1>1, <1>3, <2>1, <2>2 DEF QueueTyped
  <1> QED BY <1>2, <1>3

\* A thread without a prompt in hand steers nothing and has no dispatch under way.
LEMMA FreeHands ==
  ASSUME QueueInv, typing = None
  PROVE  ~dispatching /\ steering = None
  BY DEF QueueInv, Handing

LEMMA submitMoves == \A p \in Prompts : QueueInv /\ submit(p) => QueueInv'
  <1> SUFFICES ASSUME NEW p \in Prompts, QueueInv, submit(p) PROVE QueueInv'
    OBVIOUS
  <1>1. /\ typing = None /\ p \in fresh /\ fresh' = fresh \ {p} /\ held' = FALSE
        /\ UNCHANGED <<dispatching, busy, active, reverting, shellCancel, shells, beside, moved, starting, steering, rowGone,
                       rebuild, run, over, consumers, sent, returned, dropped, rewritten, stalled, crossed>>
    BY DEF submit, Idle, view, commands, steer, session, settled, history
  <1>2. ~dispatching /\ steering = None /\ p # None
    BY <1>1, FreeHands, PromptAssumption
  <1> USE DEF QueueInv
  <1>3. Once(p) /\ ~InQ(p)
    BY <1>1 DEF Placed, Once
  <1>c. CopySingle' /\ \A q \in Prompts : InCopy(q)' <=> InCopy(q)
    BY <1>1, CopySame
  <1>4. CASE busy
    <2>1. queue' = Append(queue, p) /\ UNCHANGED <<timers, typing>>
      BY <1>4 DEF submit
    <2>2. /\ queue' \in Seq(Prompts) /\ Single'
          /\ \A q \in Prompts : InQ(q)' <=> (InQ(q) \/ q = p)
      BY <1>3, <2>1, QueueAppended DEF QueueTyped
    <2>3. QueueTyped'
      BY <1>1, <2>1, <2>2 DEF QueueTyped
    <2>4. Placed'
      <3> SUFFICES ASSUME NEW q \in Prompts PROVE Once(q)'
        BY DEF Placed
      <3> QED BY <1>1, <1>2, <1>3, <1>c, <2>1, <2>2 DEF Placed, Once, HandsShell
    <2>5. Handing' /\ Ran' /\ Freed' /\ Owned' /\ Moving'
      BY <1>1, <1>2, <1>4, <2>1 DEF Handing, Ran, Freed, Owned, Moving
    <2> QED BY <1>c, <2>2, <2>3, <2>4, <2>5
  <1>5. CASE ~busy
    <2>1. timers' = timers \cup {p} /\ typing' = p /\ UNCHANGED queue
      BY <1>5 DEF submit
    <2>2. Single' /\ \A q \in Prompts : InQ(q)' <=> InQ(q)
      BY <2>1, QueueSame
    <2>3. QueueTyped'
      <3>1. timers' \subseteq Prompts /\ typing' \in OrNone
        BY <2>1 DEF QueueTyped, OrNone
      <3> QED BY <1>1, <2>1, <3>1 DEF QueueTyped
    <2>4. Placed'
      <3> SUFFICES ASSUME NEW q \in Prompts PROVE Once(q)'
        BY DEF Placed
      <3> QED BY <1>1, <1>2, <1>3, <1>c, <2>1, <2>2 DEF Placed, Once, HandsShell
    <2>5. Handing' /\ Ran' /\ Freed' /\ Owned' /\ Moving'
      BY <1>1, <1>2, <2>1 DEF Handing, Ran, Freed, Owned, Moving
    <2> QED BY <1>c, <2>2, <2>3, <2>4, <2>5
  <1> QED BY <1>4, <1>5

LEMMA dispatchMoves == \A p \in Prompts : QueueInv /\ dispatch(p) => QueueInv'
  <1> SUFFICES ASSUME NEW p \in Prompts, QueueInv, dispatch(p) PROVE QueueInv'
    OBVIOUS
  <1> USE DEF QueueInv
  <1>1. /\ p \in timers /\ timers' = timers \ {p} /\ Begin(p) /\ crossed' = (crossed \/ busy)
        /\ typing' = (IF Typed(p) /\ p \in Shells THEN None ELSE typing)
        /\ UNCHANGED <<fresh, queue, held, dispatching, reverting, beside, moved, steering, rowGone, rebuild, run, over,
                       consumers, returned, dropped, rewritten>>
    BY DEF dispatch, waiting, steer, session, settled
  <1>b. crossed' \in BOOLEAN /\ (~crossed' => ~crossed /\ ~busy)
    BY <1>1, Zenon
  <1>t. typing' \in OrNone /\ (dispatching \/ steering # None => typing' = typing)
    BY <1>1 DEF Typed, OrNone, QueueTyped
  <1>2. Once(p) /\ p # None /\ p \notin sent
    BY <1>1, PromptAssumption DEF Placed, Once
  <1>3. Single' /\ \A q \in Prompts : InQ(q)' <=> InQ(q)
    BY <1>1, QueueSame
  <1>c. CopySingle' /\ \A q \in Prompts : InCopy(q)' <=> InCopy(q)
    BY <1>1, CopySame
  <1>f. /\ busy' = TRUE /\ active' \in OrNone /\ shellCancel' \in BOOLEAN /\ stalled' = "no"
        /\ sent' \subseteq Prompts /\ starting' \subseteq Prompts /\ shells' \subseteq Shells
        /\ beside' \subseteq shells' /\ moved' \subseteq shells' /\ Ran' /\ Freed'
        /\ \/ /\ p \in Shells /\ shells' = shells \cup {p} /\ active' = None /\ p \notin beside'
              /\ sent' = sent \cup {p} /\ starting' = starting
           \/ /\ p \notin Shells /\ starting' = starting \cup {p} /\ active' = p
              /\ shells' = shells /\ sent' = sent
    BY <1>1, <1>2, BeginFacts
  <1>4. QueueTyped'
    BY <1>1, <1>b, <1>t, <1>f DEF QueueTyped, Reasons
  <1>5. Placed'
    <2> SUFFICES ASSUME NEW q \in Prompts PROVE Once(q)'
      BY DEF Placed
    <2>1. Once(q) /\ (HandsShell(q) => HandsShell(q)')
      BY <1>1, <1>t DEF Placed, HandsShell
    <2>2. CASE q = p
      BY <1>1, <1>2, <1>3, <1>c, <1>f, <2>1, <2>2 DEF Once
    <2>3. CASE q # p
      BY <1>1, <1>3, <1>c, <1>f, <2>1, <2>3 DEF Once
    <2> QED BY <2>2, <2>3
  <1>6. Owned'
    <2>1. CASE crossed'
      BY <2>1 DEF Owned
    <2>2. CASE ~crossed'
      <3>1. starting = {} /\ consumers' = {} /\ shells \ beside = {}
        BY <1>1, <1>b, <2>2 DEF Owned
      <3> QED BY <1>1, <1>f, <3>1 DEF Owned
    <2> QED BY <2>1, <2>2
  <1>7. Handing' /\ Moving'
    BY <1>1, <1>t, <1>f DEF Handing, Moving
  <1> QED BY <1>3, <1>4, <1>5, <1>6, <1>7, <1>c, <1>f

LEMMA dispatchReturnedMoves == \A p \in Prompts : QueueInv /\ dispatchReturned(p) => QueueInv'
  <1> SUFFICES ASSUME NEW p \in Prompts, QueueInv, dispatchReturned(p) PROVE QueueInv'
    OBVIOUS
  <1> USE DEF QueueInv
  <1>1. /\ p \in timers /\ timers' = timers \ {p} /\ returned' = returned \cup {p} /\ stalled' = "model"
        /\ UNCHANGED <<fresh, queue, held, dispatching, busy, active, reverting, shellCancel, shells, beside, moved, starting,
                       steering, rowGone, typing, rebuild, run, over, consumers, sent, dropped, rewritten, crossed>>
    BY DEF dispatchReturned, NoModel, waiting, view, commands, steer, session
  <1>3. Single' /\ \A q \in Prompts : InQ(q)' <=> InQ(q)
    BY <1>1, QueueSame
  <1>c. CopySingle' /\ \A q \in Prompts : InCopy(q)' <=> InCopy(q)
    BY <1>1, CopySame
  <1>4. QueueTyped'
    BY <1>1 DEF QueueTyped, Reasons
  <1>5. Placed'
    <2> SUFFICES ASSUME NEW q \in Prompts PROVE Once(q)'
      BY DEF Placed
    <2> QED BY <1>1, <1>3, <1>c DEF Placed, Once, HandsShell
  <1>6. Handing' /\ Ran' /\ Freed' /\ Owned' /\ Moving'
    BY <1>1 DEF Handing, Ran, Freed, Owned, Moving
  <1> QED BY <1>3, <1>4, <1>5, <1>6, <1>c

LEMMA startMoves == \A p \in Prompts : QueueInv /\ StartAccepted(p) => QueueInv'
  <1> SUFFICES ASSUME NEW p \in Prompts, QueueInv, StartAccepted(p) PROVE QueueInv'
    OBVIOUS
  <1> USE DEF QueueInv
  <1>1. /\ p \in starting /\ starting' = starting \ {p} /\ typing' = (IF Typed(p) THEN None ELSE typing)
        /\ run' = p /\ over' = over \ {p} /\ consumers' = consumers \cup {p} /\ sent' = sent \cup {p}
        /\ crossed' = (crossed /\ ~Alone(p))
        /\ UNCHANGED <<fresh, queue, held, dispatching, busy, active, reverting, shellCancel, shells, beside, moved, timers,
                       steering, rowGone, rebuild, returned, dropped, rewritten, stalled>>
    BY DEF StartAccepted, waiting, view, commands, steer, settled
  <1>b. crossed' \in BOOLEAN /\ (~crossed' => ~crossed \/ Alone(p))
    BY <1>1, Zenon
  <1>t. typing' \in OrNone /\ (dispatching \/ steering # None => typing' = typing)
    BY <1>1 DEF Typed, OrNone, QueueTyped
  <1>2. Once(p) /\ p # None
    BY <1>1, PromptAssumption DEF Placed
  <1>3. Single' /\ \A q \in Prompts : InQ(q)' <=> InQ(q)
    BY <1>1, QueueSame
  <1>c. CopySingle' /\ \A q \in Prompts : InCopy(q)' <=> InCopy(q)
    BY <1>1, CopySame
  <1>4. QueueTyped'
    <2>1. run' \in OrNone /\ over' \subseteq Prompts
      BY <1>1 DEF QueueTyped, OrNone
    <2> QED BY <1>1, <1>b, <1>t, <2>1 DEF QueueTyped
  <1>5. Placed'
    <2> SUFFICES ASSUME NEW q \in Prompts PROVE Once(q)'
      BY DEF Placed
    <2>1. Once(q) /\ (HandsShell(q) => HandsShell(q)')
      BY <1>1, <1>t DEF Placed, HandsShell
    <2>2. CASE q = p
      BY <1>1, <1>2, <1>3, <1>c, <2>1, <2>2 DEF Once
    <2>3. CASE q # p
      BY <1>1, <1>3, <1>c, <2>1, <2>3 DEF Once
    <2> QED BY <2>2, <2>3
  <1>6. Owned'
    <2>1. CASE crossed'
      BY <2>1 DEF Owned
    <2>2. CASE ~crossed /\ ~crossed'
      BY <1>1, <2>2 DEF Owned
    <2>3. CASE Alone(p)
      BY <1>1, <2>3 DEF Owned, Alone
    <2> QED BY <1>b, <2>1, <2>2, <2>3
  <1>7. Moving'
    <2>1. ~crossed' => busy
      <3>1. CASE ~crossed
        BY <1>1, <3>1 DEF Owned
      <3>2. CASE Alone(p)
        BY <3>2 DEF Alone
      <3> QED BY <1>b, <3>1, <3>2
    <2> QED BY <1>1, <2>1 DEF Moving
  <1>8. Handing' /\ Ran' /\ Freed'
    BY <1>1, <1>t DEF Handing, Ran, Freed
  <1> QED BY <1>3, <1>4, <1>5, <1>6, <1>7, <1>8, <1>c

LEMMA failStartMoves == \A p \in Prompts : QueueInv /\ failStart(p) => QueueInv'
  <1> SUFFICES ASSUME NEW p \in Prompts, QueueInv, failStart(p) PROVE QueueInv'
    OBVIOUS
  <1> USE DEF QueueInv
  <1>1. /\ p \in starting /\ starting' = starting \ {p} /\ typing' = (IF Typed(p) THEN None ELSE typing)
        /\ active' = None /\ busy' = FALSE /\ stalled' = "refused" /\ returned' = returned \cup {p}
        /\ UNCHANGED <<fresh, queue, held, dispatching, reverting, shellCancel, shells, beside, moved, timers, steering,
                       rowGone, rebuild, run, over, consumers, sent, dropped, rewritten, crossed>>
    BY DEF failStart, waiting, commands, steer, session
  <1>t. typing' \in OrNone /\ (dispatching \/ steering # None => typing' = typing)
    BY <1>1 DEF Typed, OrNone, QueueTyped
  <1>2. Once(p) /\ p # None
    BY <1>1, PromptAssumption DEF Placed
  <1>3. Single' /\ \A q \in Prompts : InQ(q)' <=> InQ(q)
    BY <1>1, QueueSame
  <1>c. CopySingle' /\ \A q \in Prompts : InCopy(q)' <=> InCopy(q)
    BY <1>1, CopySame
  <1>4. QueueTyped'
    <2>1. active' \in OrNone /\ stalled' \in Reasons
      BY <1>1 DEF OrNone, Reasons
    <2> QED BY <1>1, <1>t, <2>1 DEF QueueTyped
  <1>5. Placed'
    <2> SUFFICES ASSUME NEW q \in Prompts PROVE Once(q)'
      BY DEF Placed
    <2>1. Once(q) /\ (HandsShell(q) => HandsShell(q)')
      BY <1>1, <1>t DEF Placed, HandsShell
    <2>2. CASE q = p
      BY <1>1, <1>2, <1>3, <1>c, <2>1, <2>2 DEF Once
    <2>3. CASE q # p
      BY <1>1, <1>3, <1>c, <2>1, <2>3 DEF Once
    <2> QED BY <2>2, <2>3
  <1>6. Owned'
    <2>1. CASE crossed
      BY <1>1, <2>1 DEF Owned
    <2>2. CASE ~crossed
      <3>1. \A q \in starting \cup consumers : q = p
        BY <1>1, <2>2 DEF Owned
      <3>2. starting' = {} /\ consumers = {} /\ shells \ beside = {}
        BY <1>1, <1>2, <2>2, <3>1 DEF Owned, Ran, Once
      <3> QED BY <1>1, <3>2 DEF Owned
    <2> QED BY <2>1, <2>2
  <1>8. Handing' /\ Ran' /\ Freed' /\ Moving'
    BY <1>1, <1>t DEF Handing, Ran, Freed, Moving
  <1> QED BY <1>3, <1>4, <1>5, <1>6, <1>8, <1>c

\* What changes no place and takes the view from nobody.
LEMMA plainMoves ==
  ASSUME QueueInv, RunOver \/ RunFreed \/ escape \/ undo \/ NothingUndone \/ compact
  PROVE  QueueInv'
  <1> USE DEF QueueInv
  <1>1. /\ UNCHANGED <<fresh, queue, dispatching, busy, active, shellCancel, shells, beside, moved, timers, starting, steering,
                       rowGone, typing, consumers, sent, returned, dropped, rewritten, stalled, crossed>>
        /\ held' \in BOOLEAN /\ (held => held') /\ reverting' \in BOOLEAN /\ run' \in OrNone /\ over' \subseteq Prompts
        /\ \/ UNCHANGED rebuild
           \/ \E by \in Askers : rebuild' = [NoRebuild EXCEPT !.by = by]
    <2>1. CASE RunOver
      BY <2>1 DEF RunOver, waiting, view, commands, steer, settled, history, QueueTyped
    <2>2. CASE RunFreed
      BY <2>2 DEF RunFreed, waiting, view, commands, steer, settled, history, QueueTyped, OrNone
    <2>3. CASE escape
      BY <2>3 DEF escape, view, commands, steer, session, settled, history, QueueTyped
    <2>4. CASE undo
      <3>1. reverting' \in BOOLEAN /\ held' \in BOOLEAN /\ (held => held')
        BY <2>4, Zenon DEF undo
      <3>2. UNCHANGED rebuild \/ RebuildAsked("view")
        BY <2>4, Zenon DEF undo
      <3>3. UNCHANGED rebuild \/ rebuild' = [NoRebuild EXCEPT !.by = "view"]
        BY <3>2 DEF RebuildAsked
      <3>4. UNCHANGED <<fresh, queue, dispatching, busy, active, commands, timers, starting, steer, typing, session, sent,
                        settled, history>>
        BY <2>4 DEF undo
      <3> QED BY <3>1, <3>3, <3>4 DEF Askers, commands, steer, session, settled, history, QueueTyped
    <2>5. CASE NothingUndone
      <3>1. NoRebuild = [NoRebuild EXCEPT !.by = "none"]
        BY DEF NoRebuild
      <3> QED BY <2>5, <3>1 DEF NothingUndone, Askers, waiting, view, commands, steer, session, settled, history, QueueTyped
    <2>6. CASE compact
      BY <2>6 DEF compact, Askers, RebuildAsked, waiting, view, commands, steer, session, settled, history, QueueTyped
    <2> QED BY <2>1, <2>2, <2>3, <2>4, <2>5, <2>6
  <1>3. Single' /\ \A q \in Prompts : InQ(q)' <=> InQ(q)
    BY <1>1, QueueSame
  <1>c. /\ CopySingle' /\ \A q \in Prompts : InCopy(q)' => InCopy(q)
        /\ rebuild' \in [by : Askers, at : {"asked", "copied"}, queue : Seq(Prompts), held : BOOLEAN]
    <2>1. CASE UNCHANGED rebuild
      BY <2>1, CopySame DEF QueueTyped
    <2>2. ASSUME NEW by \in Askers, rebuild' = [NoRebuild EXCEPT !.by = by]
          PROVE  /\ CopySingle' /\ \A q \in Prompts : InCopy(q)' => InCopy(q)
                 /\ rebuild' \in [by : Askers, at : {"asked", "copied"}, queue : Seq(Prompts),
                                  held : BOOLEAN]
      BY <2>2, CopyNone
    <2> QED BY <1>1, <2>1, <2>2
  <1>4. QueueTyped'
    BY <1>1, <1>c DEF QueueTyped
  <1>5. Placed'
    <2> SUFFICES ASSUME NEW q \in Prompts PROVE Once(q)'
      BY DEF Placed
    <2> QED BY <1>1, <1>3, <1>c DEF Placed, Once, HandsShell
  <1>8. Handing' /\ Ran' /\ Freed' /\ Owned' /\ Moving'
    BY <1>1 DEF Handing, Ran, Freed, Owned, Moving
  <1> QED BY <1>3, <1>4, <1>5, <1>8, <1>c

LEMMA SetTranscriptMoves == QueueInv /\ SetTranscript => QueueInv'
  <1> SUFFICES ASSUME QueueInv, SetTranscript PROVE QueueInv'
    OBVIOUS
  <1> USE DEF QueueInv
  <1>1. /\ rebuild' = [rebuild EXCEPT !.at = "copied", !.queue = queue, !.held = held]
        /\ UNCHANGED <<fresh, queue, held, dispatching, busy, active, reverting, shellCancel, shells, beside, moved, timers,
                       starting, steering, rowGone, typing, run, over, consumers, sent, returned, dropped, rewritten, stalled,
                       crossed>>
    BY DEF SetTranscript, waiting, view, commands, steer, session, settled, history
  <1>2. /\ rebuild' \in [by : Askers, at : {"asked", "copied"}, queue : Seq(Prompts), held : BOOLEAN]
        /\ rebuild'.queue = queue
    BY <1>1 DEF QueueTyped
  <1>3. Single' /\ \A q \in Prompts : InQ(q)' <=> InQ(q)
    BY <1>1, QueueSame
  <1>c. CopySingle' /\ \A q \in Prompts : InCopy(q)' <=> InQ(q)
    BY <1>2 DEF CopySingle, Single, InCopy, InQ
  <1>4. QueueTyped'
    BY <1>1, <1>2 DEF QueueTyped
  <1>5. Placed'
    <2> SUFFICES ASSUME NEW q \in Prompts PROVE Once(q)'
      BY DEF Placed
    <2> QED BY <1>1, <1>3, <1>c DEF Placed, Once, HandsShell
  <1>8. Handing' /\ Ran' /\ Freed' /\ Owned' /\ Moving'
    BY <1>1 DEF Handing, Ran, Freed, Owned, Moving
  <1> QED BY <1>3, <1>4, <1>5, <1>8, <1>c

\* What the copy brings back leaves the place it went to; what it leaves out is
\* counted as rewritten.
LEMMA SetSessionMoves == QueueInv /\ SetSession => QueueInv'
  <1> SUFFICES ASSUME QueueInv, SetSession PROVE QueueInv'
    OBVIOUS
  <1> USE DEF QueueInv
  <1>1. /\ queue' = rebuild.queue /\ held' = rebuild.held /\ active' = None /\ moved' \subseteq shells
        /\ rebuild' = NoRebuild
        /\ sent' = sent \ BroughtBack /\ returned' = returned \ BroughtBack /\ dropped' = dropped \ BroughtBack
        /\ rewritten' = rewritten \cup BroughtBack \cup LeftOut
        /\ UNCHANGED <<fresh, dispatching, busy, reverting, shellCancel, shells, beside, timers, starting, steering,
                       typing, run, over, consumers, stalled>>
    BY DEF SetSession, session
  <1>b. /\ rowGone' \in BOOLEAN /\ crossed' \in BOOLEAN
        /\ ~crossed' => ~crossed /\ starting \cup consumers = {} /\ queue = rebuild.queue /\ held = rebuild.held
    BY Zenon DEF SetSession
  <1>g. dispatching /\ steering = None => queue' = queue
    BY <1>1 DEF SetSession
  <1>2. /\ rebuild.queue \in Seq(Prompts) /\ rebuild.held \in BOOLEAN
        /\ ToSet(queue) = {q \in Prompts : InQ(q)} /\ ToSet(rebuild.queue) = {q \in Prompts : InCopy(q)}
    BY DEF QueueTyped, ToSet, InQ, InCopy
  <1>3. \A q \in Prompts : /\ q \in BroughtBack <=> InCopy(q) /\ ~InQ(q)
                           /\ q \in LeftOut <=> InQ(q) /\ ~InCopy(q)
    BY <1>2 DEF BroughtBack, LeftOut
  <1>4. /\ BroughtBack \subseteq Prompts /\ LeftOut \subseteq Prompts
        /\ \A q \in BroughtBack : q \notin timers /\ q \notin starting /\ q \notin consumers /\ q \notin shells /\ q # steering
    BY <1>2 DEF BroughtBack, LeftOut, SetSession
  <1>5. Single' /\ \A q \in Prompts : InQ(q)' <=> InCopy(q)
    BY <1>1 DEF CopySingle, Single, InCopy, InQ
  <1>c. /\ CopySingle' /\ \A q \in Prompts : ~InCopy(q)'
        /\ rebuild' \in [by : Askers, at : {"asked", "copied"}, queue : Seq(Prompts), held : BOOLEAN]
    <2>1. NoRebuild = [NoRebuild EXCEPT !.by = "none"] /\ "none" \in Askers
      BY DEF NoRebuild, Askers
    <2> QED BY <1>1, <2>1, CopyNone
  <1>6. QueueTyped'
    <2>1. active' \in OrNone
      BY <1>1 DEF OrNone
    <2> QED BY <1>1, <1>b, <1>2, <1>4, <1>c, <2>1 DEF QueueTyped
  <1>7. Placed'
    <2> SUFFICES ASSUME NEW q \in Prompts PROVE Once(q)'
      BY DEF Placed
    <2>1. Once(q) /\ (HandsShell(q) => HandsShell(q)')
      BY <1>1 DEF Placed, HandsShell
    <2>2. CASE InCopy(q) /\ ~InQ(q)
      <3>1. q \in BroughtBack
        BY <1>3, <2>2
      <3>2. q \notin timers' /\ q \notin starting' /\ q # steering' /\ q \notin sent' /\ q \notin returned' /\ q \notin dropped'
        BY <1>1, <1>4, <3>1
      <3>3. q \notin fresh' /\ InQ(q)' /\ ~InCopy(q)'
        BY <1>1, <1>5, <1>c, <2>1, <2>2 DEF Once
      <3> QED BY <3>2, <3>3 DEF Once
    <2>3. CASE ~(InCopy(q) /\ ~InQ(q))
      <3>1. q \notin BroughtBack
        BY <1>3, <2>3
      <3>2. /\ q \in fresh' <=> q \in fresh
            /\ q \in timers' <=> q \in timers
            /\ q \in starting' <=> q \in starting
            /\ q \in sent' <=> q \in sent
            /\ q \in returned' <=> q \in returned
            /\ q \in dropped' <=> q \in dropped
            /\ steering' = steering
        BY <1>1, <3>1
      <3>3. /\ InQ(q)' => InQ(q)
            /\ InQ(q) /\ ~InQ(q)' => q \in rewritten'
            /\ q \in rewritten => q \in rewritten'
        BY <1>1, <1>3, <1>5, <2>3
      <3> QED BY <1>c, <2>1, <3>2, <3>3 DEF Once
    <2> QED BY <2>2, <2>3
  <1>8. Handing'
    BY <1>1, <1>g DEF Handing
  <1>9. Ran'
    BY <1>1, <1>4 DEF Ran
  <1>10. Freed' /\ Owned' /\ Moving'
    BY <1>1, <1>b DEF Freed, Owned, Moving
  <1> QED BY <1>5, <1>6, <1>7, <1>8, <1>9, <1>10, <1>c

\* The end of a run or a shell takes the head of the queue, or nothing.
LEMMA TakeFacts ==
  ASSUME QueueTyped, Single, TakeNext
  PROVE  /\ queue' \in Seq(Prompts) /\ Single' /\ Next1 \subseteq Prompts
         /\ \A q \in Next1 : InQ(q) /\ ~dispatching
         /\ \A q \in Prompts : InQ(q)' <=> (InQ(q) /\ q \notin Next1)
         /\ (dispatching => queue' = queue) /\ (queue # <<>> /\ ~held /\ ~dispatching => Next1 # {})
         /\ (queue' # <<>> => queue # <<>>)
  <1>1. CASE queue # <<>> /\ ~held /\ ~dispatching
    <2>1. Next1 = {Head(queue)} /\ queue' = Tail(queue)
      BY <1>1 DEF Next1, TakeNext
    <2>2. /\ queue' \in Seq(Prompts) /\ Single' /\ Head(queue) \in Prompts /\ InQ(Head(queue))
          /\ \A q \in Prompts : InQ(q)' <=> (InQ(q) /\ q # Head(queue))
      BY <1>1, <2>1, QueuePopped DEF QueueTyped
    <2> QED BY <1>1, <2>1, <2>2
  <1>2. CASE ~(queue # <<>> /\ ~held /\ ~dispatching)
    <2>1. Next1 = {} /\ queue' = queue
      BY <1>2 DEF Next1, TakeNext
    <2> QED BY <1>2, <2>1, QueueSame DEF QueueTyped
  <1> QED BY <1>1, <1>2

LEMMA finishRunMoves == \A p \in Prompts : QueueInv /\ finishRun(p) => QueueInv'
  <1> SUFFICES ASSUME NEW p \in Prompts, QueueInv, finishRun(p) PROVE QueueInv'
    OBVIOUS
  <1> USE DEF QueueInv
  <1>1. /\ p \in consumers /\ consumers' = consumers \ {p}
        /\ UNCHANGED <<fresh, held, dispatching, shellCancel, shells, beside, moved, starting, steering, rowGone, typing, run,
                       over, sent, returned, rewritten, crossed>>
    BY DEF finishRun, RunEnds, commands, steer
  <1>2. CASE ~busy
    <2>1. UNCHANGED <<queue, busy, active, reverting, timers, dropped, stalled, rebuild>>
      BY <1>2 DEF finishRun, RunEnds, view
    <2>2. Single' /\ \A q \in Prompts : InQ(q)' <=> InQ(q)
      BY <2>1, QueueSame
    <2>c. CopySingle' /\ \A q \in Prompts : InCopy(q)' <=> InCopy(q)
      BY <2>1, CopySame
    <2>3. QueueTyped'
      BY <1>1, <2>1 DEF QueueTyped
    <2>4. Placed'
      <3> SUFFICES ASSUME NEW q \in Prompts PROVE Once(q)'
        BY DEF Placed
      <3> QED BY <1>1, <2>1, <2>2, <2>c DEF Placed, Once, HandsShell
    <2>5. Handing' /\ Ran' /\ Freed' /\ Owned' /\ Moving'
      BY <1>1, <1>2, <2>1 DEF Handing, Ran, Freed, Owned, Moving
    <2> QED BY <2>2, <2>3, <2>4, <2>5, <2>c
  <1>3. CASE busy
    <2>1. /\ busy' = FALSE /\ active' = None /\ reverting' = FALSE /\ TakeNext
          /\ \/ /\ dropped' = dropped \cup Next1 /\ timers' = timers /\ rebuild' = [NoRebuild EXCEPT !.by = "run"]
                /\ stalled' = IF Next1 = {} THEN stalled ELSE "undone"
             \/ timers' = timers \cup Next1 /\ UNCHANGED <<dropped, stalled, rebuild>>
      BY <1>3 DEF finishRun, RunEnds, RebuildAsked
    <2>2. /\ queue' \in Seq(Prompts) /\ Single' /\ Next1 \subseteq Prompts
          /\ \A q \in Next1 : InQ(q) /\ ~dispatching
          /\ \A q \in Prompts : InQ(q)' <=> (InQ(q) /\ q \notin Next1)
          /\ (dispatching => queue' = queue) /\ (queue # <<>> /\ ~held /\ ~dispatching => Next1 # {})
          /\ (queue' # <<>> => queue # <<>>)
      BY <2>1, TakeFacts
    <2>c. /\ CopySingle' /\ \A q \in Prompts : InCopy(q)' => InCopy(q)
          /\ rebuild' \in [by : Askers, at : {"asked", "copied"}, queue : Seq(Prompts), held : BOOLEAN]
      <3>1. CASE UNCHANGED rebuild
        BY <3>1, CopySame DEF QueueTyped
      <3>2. CASE rebuild' = [NoRebuild EXCEPT !.by = "run"]
        <4>1. "run" \in Askers
          BY DEF Askers
        <4> QED BY <3>2, <4>1, CopyNone
      <3> QED BY <2>1, <3>1, <3>2
    <2>s. stalled' \in Reasons /\ timers' \subseteq Prompts /\ dropped' \subseteq Prompts /\ active' \in OrNone
      BY <2>1, <2>2 DEF QueueTyped, Reasons, OrNone
    <2>3. QueueTyped'
      BY <1>1, <2>1, <2>2, <2>c, <2>s DEF QueueTyped
    <2>4. Placed'
      <3> SUFFICES ASSUME NEW q \in Prompts PROVE Once(q)'
        BY DEF Placed
      <3>1. Once(q) /\ (HandsShell(q)' <=> HandsShell(q))
        BY <1>1 DEF Placed, HandsShell
      <3>2. CASE q \in Next1
        <4>1. InQ(q) /\ ~InQ(q)' /\ ~HandsShell(q)
          BY <2>2, <3>2 DEF HandsShell
        <4> QED BY <1>1, <2>1, <2>c, <3>1, <3>2, <4>1 DEF Once
      <3>3. CASE q \notin Next1
        <4>1. /\ InQ(q)' <=> InQ(q)
              /\ q \in timers' <=> q \in timers
              /\ q \in dropped' <=> q \in dropped
          BY <2>1, <2>2, <3>3
        <4> QED BY <1>1, <2>c, <3>1, <4>1 DEF Once
      <3> QED BY <3>2, <3>3
    <2>5. Handing' /\ Ran' /\ Freed'
      BY <1>1, <2>1, <2>2 DEF Handing, Ran, Freed
    <2>6. Moving'
      <3>1. CASE stalled' = stalled /\ timers' = timers \cup Next1
        BY <1>1, <2>1, <2>2, <3>1 DEF Moving
      <3>2. CASE Next1 # {} /\ stalled' = "undone"
        BY <3>2 DEF Moving
      <3>3. CASE Next1 = {}
        BY <1>1, <2>2, <3>3 DEF Moving
      <3> QED BY <2>1, <3>1, <3>2, <3>3
    <2>7. Owned'
      <3>1. CASE crossed
        BY <1>1, <3>1 DEF Owned
      <3>2. CASE ~crossed
        <4>1. p \in sent /\ Once(p)
          BY <1>1 DEF Ran, Placed
        <4>2. \A q \in starting \cup consumers : q = p
          BY <1>1, <3>2 DEF Owned
        <4>3. starting = {} /\ consumers' = {} /\ shells \ beside = {}
          BY <1>1, <3>2, <4>1, <4>2 DEF Once, Owned
        <4> QED BY <1>1, <4>3 DEF Owned
      <3> QED BY <3>1, <3>2
    <2> QED BY <2>2, <2>3, <2>4, <2>5, <2>6, <2>7, <2>c
  <1> QED BY <1>2, <1>3

LEMMA finishShellMoves == \A p \in Prompts : QueueInv /\ finishShell(p) => QueueInv'
  <1> SUFFICES ASSUME NEW p \in Prompts, QueueInv, finishShell(p) PROVE QueueInv'
    OBVIOUS
  <1> USE DEF QueueInv
  <1>1. /\ p \in shells /\ shellCancel' = FALSE /\ shells' = shells \ {p} /\ beside' = beside \ {p} /\ moved' = moved \ {p}
        /\ UNCHANGED <<fresh, held, dispatching, reverting, starting, steering, rowGone, typing, rebuild, run, over, consumers,
                       sent, returned, dropped, rewritten, crossed>>
    BY DEF finishShell, steer, session, settled
  <1>c. CopySingle' /\ \A q \in Prompts : InCopy(q)' <=> InCopy(q)
    BY <1>1, CopySame
  <1>o. ~crossed /\ p \notin beside => starting \cup consumers = {} /\ shells' \ beside' = {}
    BY <1>1 DEF Owned
  <1>2. CASE UNCHANGED <<queue, timers>> /\ (p \in beside \/ stalled' = "row")
    <2>1. \/ p \in beside /\ UNCHANGED <<busy, active, stalled>>
          \/ p \notin beside /\ busy' = FALSE /\ stalled' = "row" /\ active' \in OrNone
      <3>1. stalled' = "row" /\ p \notin beside => busy' = FALSE /\ active' \in {active, None}
        BY DEF finishShell
      <3>2. p \in beside => UNCHANGED <<busy, active, stalled>>
        BY DEF finishShell
      <3> QED BY <1>2, <3>1, <3>2 DEF QueueTyped, OrNone
    <2>2. Single' /\ \A q \in Prompts : InQ(q)' <=> InQ(q)
      BY <1>2, QueueSame
    <2>3. QueueTyped'
      <3>1. busy' \in BOOLEAN /\ active' \in OrNone /\ stalled' \in Reasons
        BY <2>1 DEF QueueTyped, Reasons
      <3> QED BY <1>1, <1>2, <3>1 DEF QueueTyped
    <2>4. Placed'
      <3> SUFFICES ASSUME NEW q \in Prompts PROVE Once(q)'
        BY DEF Placed
      <3> QED BY <1>1, <1>2, <1>c, <2>2 DEF Placed, Once, HandsShell
    <2>5. Handing' /\ Ran'
      BY <1>1, <1>2 DEF Handing, Ran
    <2>6. CASE p \in beside
      <3>1. shells' \ beside' = shells \ beside
        BY <1>1, <2>6
      <3>2. Freed' /\ Owned' /\ Moving'
        BY <1>1, <1>2, <2>1, <2>6, <3>1 DEF Freed, Owned, Moving
      <3> QED BY <1>c, <2>2, <2>3, <2>4, <2>5, <3>2
    <2>7. CASE p \notin beside
      <3>1. Freed' /\ Owned' /\ Moving'
        BY <1>1, <1>o, <2>1, <2>7 DEF Freed, Owned, Moving
      <3> QED BY <1>c, <2>2, <2>3, <2>4, <2>5, <3>1
    <2> QED BY <2>6, <2>7
  <1>3. CASE p \notin moved \cup beside
    <2>1. busy' = FALSE /\ active' = None /\ TakeNext /\ timers' = timers \cup Next1 /\ stalled' = stalled
      BY <1>3 DEF finishShell
    <2>2. /\ queue' \in Seq(Prompts) /\ Single' /\ Next1 \subseteq Prompts
          /\ \A q \in Next1 : InQ(q) /\ ~dispatching
          /\ \A q \in Prompts : InQ(q)' <=> (InQ(q) /\ q \notin Next1)
          /\ (dispatching => queue' = queue) /\ (queue # <<>> /\ ~held /\ ~dispatching => Next1 # {})
          /\ (queue' # <<>> => queue # <<>>)
      BY <2>1, TakeFacts
    <2>3. QueueTyped'
      <3>1. timers' \subseteq Prompts /\ active' \in OrNone
        BY <2>1, <2>2 DEF QueueTyped, OrNone
      <3> QED BY <1>1, <2>1, <2>2, <3>1 DEF QueueTyped
    <2>4. Placed'
      <3> SUFFICES ASSUME NEW q \in Prompts PROVE Once(q)'
        BY DEF Placed
      <3>1. Once(q) /\ (HandsShell(q)' <=> HandsShell(q))
        BY <1>1 DEF Placed, HandsShell
      <3>2. CASE q \in Next1
        <4>1. InQ(q) /\ ~InQ(q)' /\ ~HandsShell(q)
          BY <2>2, <3>2 DEF HandsShell
        <4> QED BY <1>1, <1>c, <2>1, <3>1, <3>2, <4>1 DEF Once
      <3>3. CASE q \notin Next1
        <4>1. (InQ(q)' <=> InQ(q)) /\ (q \in timers' <=> q \in timers)
          BY <2>1, <2>2, <3>3
        <4> QED BY <1>1, <1>c, <3>1, <4>1 DEF Once
      <3> QED BY <3>2, <3>3
    <2>5. Handing' /\ Ran' /\ Freed'
      BY <1>1, <2>1, <2>2 DEF Handing, Ran, Freed
    <2>6. Moving'
      BY <1>1, <2>1, <2>2 DEF Moving
    <2>7. Owned'
      BY <1>1, <1>3, <1>o DEF Owned
    <2> QED BY <1>c, <2>2, <2>3, <2>4, <2>5, <2>6, <2>7
  <1>4. CASE p \in moved \/ p \in beside
    BY <1>2, <1>4 DEF finishShell
  <1> QED BY <1>3, <1>4

\* A shell command that starts while the view is busy takes nothing from it.
LEMMA ParallelFacts ==
  ASSUME QueueTyped, Ran, Freed, Owned, NEW p \in Prompts, p \in Shells, p \notin sent, ParallelShell(p),
         UNCHANGED <<starting, consumers, moved, crossed>>
  PROVE  /\ shells' \subseteq Shells /\ shellCancel' \in BOOLEAN /\ beside' \subseteq shells' /\ moved' \subseteq shells'
         /\ busy' = TRUE /\ active' \in OrNone /\ stalled' \in Reasons
         /\ sent' = sent \cup {p} /\ Ran' /\ Freed' /\ Owned'
  <1>1. /\ shells' = shells \cup {p} /\ shellCancel' = TRUE /\ sent' = sent \cup {p} /\ busy' = TRUE
        /\ beside' = (IF busy THEN beside \cup {p} ELSE beside)
        /\ active' = (IF busy THEN active ELSE None) /\ stalled' = (IF busy THEN stalled ELSE "no")
    BY DEF ParallelShell
  <1>2. p \notin shells /\ p \notin beside
    BY DEF Ran, QueueTyped
  <1>3. active' \in OrNone /\ stalled' \in Reasons
    BY <1>1 DEF QueueTyped, OrNone, Reasons
  <1>4. CASE busy
    <2>1. shells' \ beside' = shells \ beside
      BY <1>1, <1>2, <1>4
    <2>2. Ran' /\ Freed' /\ Owned'
      BY <1>1, <1>4, <2>1 DEF Ran, Freed, Owned
    <2> QED BY <1>1, <1>3, <1>4, <2>2 DEF QueueTyped
  <1>5. CASE ~busy
    <2>1. Ran' /\ Freed' /\ Owned'
      BY <1>1, <1>2, <1>5 DEF Ran, Freed, Owned
    <2> QED BY <1>1, <1>3, <1>5, <2>1 DEF QueueTyped
  <1> QED BY <1>4, <1>5

LEMMA steerShellMoves == \A p \in Prompts : QueueInv /\ steerShell(p) => QueueInv'
  <1> SUFFICES ASSUME NEW p \in Prompts, QueueInv, steerShell(p) PROVE QueueInv'
    OBVIOUS
  <1> USE DEF QueueInv
  <1>1. /\ typing = None /\ typing' = p
        /\ UNCHANGED <<fresh, queue, held, dispatching, busy, active, reverting, shellCancel, shells, beside, moved, timers,
                       starting, steering, rowGone, rebuild, run, over, consumers, sent, returned, dropped, rewritten, stalled,
                       crossed>>
    BY DEF steerShell, Idle, waiting, view, commands, steer, session, settled, history
  <1>2. ~dispatching /\ steering = None
    BY <1>1, FreeHands
  <1>3. Single' /\ \A q \in Prompts : InQ(q)' <=> InQ(q)
    BY <1>1, QueueSame
  <1>c. CopySingle' /\ \A q \in Prompts : InCopy(q)' <=> InCopy(q)
    BY <1>1, CopySame
  <1>4. QueueTyped'
    <2>1. typing' \in OrNone
      BY <1>1 DEF OrNone
    <2> QED BY <1>1, <2>1 DEF QueueTyped
  <1>5. Placed'
    <2> SUFFICES ASSUME NEW q \in Prompts PROVE Once(q)'
      BY DEF Placed
    <2> QED BY <1>1, <1>2, <1>3, <1>c DEF Placed, Once, HandsShell
  <1>8. Handing' /\ Ran' /\ Freed' /\ Owned' /\ Moving'
    BY <1>1, <1>2 DEF Handing, Ran, Freed, Owned, Moving
  <1> QED BY <1>3, <1>4, <1>5, <1>8, <1>c

LEMMA steerShellStartsMoves == \A p \in Prompts : QueueInv /\ steerShellStarts(p) => QueueInv'
  <1> SUFFICES ASSUME NEW p \in Prompts, QueueInv, steerShellStarts(p) PROVE QueueInv'
    OBVIOUS
  <1> USE DEF QueueInv
  <1>1. /\ typing = p /\ p \in fresh /\ p \in Shells /\ typing' = None
        /\ UNCHANGED <<queue, held, dispatching, reverting, moved, timers, starting, steering, rowGone, rebuild, run, over,
                       consumers, returned, dropped, rewritten, crossed>>
    BY DEF steerShellStarts, waiting, steer, session, settled
  <1>2. Once(p) /\ p # None /\ ~InQ(p) /\ p \notin sent /\ p # steering
    BY <1>1, PromptAssumption DEF Placed, Once
  <1>d. ~dispatching /\ steering = None
    <2>1. steering = None
      BY <1>1, <1>2 DEF Handing
    <2>2. dispatching => queue # <<>> /\ Head(queue) = p
      BY <1>1, <2>1 DEF Handing
    <2> QED BY <1>2, <2>1, <2>2, QueuePoppedHead DEF QueueTyped
  <1>3. Single' /\ \A q \in Prompts : InQ(q)' <=> InQ(q)
    BY <1>1, QueueSame
  <1>c. CopySingle' /\ \A q \in Prompts : InCopy(q)' <=> InCopy(q)
    BY <1>1, CopySame
  <1>t. typing' \in OrNone
    BY <1>1 DEF OrNone
  <1>4. CASE shellCancel
    <2>1. UNCHANGED <<fresh, shellCancel, shells, beside, busy, active, sent, stalled>>
      BY <1>4 DEF steerShellStarts
    <2>3. QueueTyped'
      BY <1>1, <1>t, <2>1 DEF QueueTyped
    <2>4. Placed'
      <3> SUFFICES ASSUME NEW q \in Prompts PROVE Once(q)'
        BY DEF Placed
      <3> QED BY <1>1, <1>3, <1>c, <1>d, <2>1 DEF Placed, Once, HandsShell
    <2>5. Handing' /\ Ran' /\ Freed' /\ Owned' /\ Moving'
      BY <1>1, <1>d, <2>1 DEF Handing, Ran, Freed, Owned, Moving
    <2> QED BY <1>3, <1>c, <2>3, <2>4, <2>5
  <1>5. CASE ~shellCancel
    <2>1. fresh' = fresh \ {p} /\ ParallelShell(p)
      BY <1>5 DEF steerShellStarts
    <2>2. /\ shells' \subseteq Shells /\ shellCancel' \in BOOLEAN /\ beside' \subseteq shells' /\ moved' \subseteq shells'
          /\ busy' = TRUE /\ active' \in OrNone /\ stalled' \in Reasons
          /\ sent' = sent \cup {p} /\ Ran' /\ Freed' /\ Owned'
      BY <1>1, <1>2, <2>1, ParallelFacts
    <2>3. QueueTyped'
      BY <1>1, <1>t, <2>1, <2>2 DEF QueueTyped
    <2>4. Placed'
      <3> SUFFICES ASSUME NEW q \in Prompts PROVE Once(q)'
        BY DEF Placed
      <3>1. Once(q)
        BY DEF Placed
      <3>2. CASE q = p
        BY <1>1, <1>2, <1>3, <1>c, <2>1, <2>2, <3>1, <3>2 DEF Once
      <3>3. CASE q # p
        BY <1>1, <1>3, <1>c, <1>d, <2>1, <2>2, <3>1, <3>3 DEF Once, HandsShell
      <3> QED BY <3>2, <3>3
    <2>5. Handing' /\ Moving'
      BY <1>1, <1>d, <2>2 DEF Handing, Moving
    <2> QED BY <1>3, <1>c, <2>2, <2>3, <2>4, <2>5
  <1> QED BY <1>4, <1>5

LEMMA steerTypedMoves == \A p \in Prompts : QueueInv /\ steerTyped(p) => QueueInv'
  <1> SUFFICES ASSUME NEW p \in Prompts, QueueInv, steerTyped(p) PROVE QueueInv'
    OBVIOUS
  <1> USE DEF QueueInv
  <1>1. /\ typing = None /\ busy /\ p \in fresh /\ fresh' = fresh \ {p} /\ steering' = p /\ rowGone' = FALSE /\ typing' = p
        /\ UNCHANGED <<queue, held, dispatching, busy, active, reverting, shellCancel, shells, beside, moved, timers, starting,
                       rebuild, run, over, consumers, sent, returned, dropped, rewritten, stalled, crossed>>
    BY DEF steerTyped, Idle, waiting, view, commands, session, settled, history
  <1>2. ~dispatching /\ steering = None /\ Once(p) /\ p # None
    BY <1>1, FreeHands, PromptAssumption DEF Placed
  <1>3. Single' /\ \A q \in Prompts : InQ(q)' <=> InQ(q)
    BY <1>1, QueueSame
  <1>c. CopySingle' /\ \A q \in Prompts : InCopy(q)' <=> InCopy(q)
    BY <1>1, CopySame
  <1>4. QueueTyped'
    <2>1. typing' \in OrNone /\ steering' \in OrNone /\ rowGone' \in BOOLEAN
      BY <1>1 DEF OrNone
    <2> QED BY <1>1, <2>1 DEF QueueTyped
  <1>5. Placed'
    <2> SUFFICES ASSUME NEW q \in Prompts PROVE Once(q)'
      BY DEF Placed
    <2>1. Once(q) /\ q # None
      BY PromptAssumption DEF Placed
    <2>2. CASE q = p
      BY <1>1, <1>2, <1>3, <1>c, <2>1, <2>2 DEF Once
    <2>3. CASE q # p
      BY <1>1, <1>2, <1>3, <1>c, <2>1, <2>3 DEF Once, HandsShell
    <2> QED BY <2>2, <2>3
  <1>8. Handing' /\ Ran' /\ Freed' /\ Owned' /\ Moving'
    BY <1>1, <1>2 DEF Handing, Ran, Freed, Owned, Moving
  <1> QED BY <1>3, <1>4, <1>5, <1>8, <1>c

LEMMA steerTakenMoves == QueueInv /\ steerTaken => QueueInv'
  <1> SUFFICES ASSUME QueueInv, steerTaken PROVE QueueInv'
    OBVIOUS
  <1> USE DEF QueueInv
  <1>1. /\ steering # None /\ steering \in Prompts /\ sent' = sent \cup {steering}
        /\ UNCHANGED <<fresh, queue, held, dispatching, busy, active, reverting, shellCancel, shells, beside, moved, timers,
                       starting, steering, rowGone, typing, rebuild, run, over, consumers, returned, dropped, rewritten,
                       stalled, crossed>>
    BY DEF steerTaken, waiting, view, commands, steer, session, settled, history, QueueTyped, OrNone
  <1>3. Single' /\ \A q \in Prompts : InQ(q)' <=> InQ(q)
    BY <1>1, QueueSame
  <1>c. CopySingle' /\ \A q \in Prompts : InCopy(q)' <=> InCopy(q)
    BY <1>1, CopySame
  <1>4. QueueTyped'
    BY <1>1 DEF QueueTyped
  <1>5. Placed'
    <2> SUFFICES ASSUME NEW q \in Prompts PROVE Once(q)'
      BY DEF Placed
    <2>1. Once(q)
      BY DEF Placed
    <2>2. CASE q = steering
      BY <1>1, <1>3, <1>c, <2>1, <2>2 DEF Once
    <2>3. CASE q # steering
      BY <1>1, <1>3, <1>c, <2>1, <2>3 DEF Once, HandsShell
    <2> QED BY <2>2, <2>3
  <1>8. Handing' /\ Ran' /\ Freed' /\ Owned' /\ Moving'
    BY <1>1 DEF Handing, Ran, Freed, Owned, Moving
  <1> QED BY <1>3, <1>4, <1>5, <1>8, <1>c

LEMMA steerAnsweredMoves == \A p \in Prompts : QueueInv /\ steerAnswered(p) => QueueInv'
  <1> SUFFICES ASSUME NEW p \in Prompts, QueueInv, steerAnswered(p) PROVE QueueInv'
    OBVIOUS
  <1> USE DEF QueueInv
  <1>1. /\ steering = p /\ ~dispatching /\ steering' = None /\ rowGone' = FALSE
        /\ UNCHANGED <<fresh, dispatching, busy, active, reverting, shellCancel, shells, beside, moved, starting, rebuild, run,
                       over, consumers, sent, rewritten, crossed>>
    BY DEF steerAnswered, view, commands, session
  <1>2. p # None /\ Once(p) /\ ~InQ(p) /\ typing = p
    BY <1>1, PromptAssumption DEF Placed, Once, Handing
  <1>c. CopySingle' /\ \A q \in Prompts : InCopy(q)' <=> InCopy(q)
    BY <1>1, CopySame
  <1>t. steering' \in OrNone /\ rowGone' \in BOOLEAN /\ None \in OrNone
    BY <1>1 DEF OrNone
  <1>3. CASE p \in sent \/ rowGone
    <2>1. typing' = None /\ dropped' = dropped \cup ({p} \ sent) /\ UNCHANGED <<queue, held, timers, returned, stalled>>
      BY <1>3 DEF steerAnswered
    <2>2. Single' /\ \A q \in Prompts : InQ(q)' <=> InQ(q)
      BY <2>1, QueueSame
    <2>3. QueueTyped'
      BY <1>1, <1>t, <2>1 DEF QueueTyped
    <2>4. Placed'
      <3> SUFFICES ASSUME NEW q \in Prompts PROVE Once(q)'
        BY DEF Placed
      <3>1. Once(q) /\ q # None
        BY PromptAssumption DEF Placed
      <3>2. CASE q = p
        BY <1>1, <1>2, <1>c, <2>1, <2>2, <3>1, <3>2 DEF Once
      <3>3. CASE q # p
        BY <1>1, <1>c, <2>1, <2>2, <3>1, <3>3 DEF Once, HandsShell
      <3> QED BY <3>2, <3>3
    <2>5. Handing' /\ Ran' /\ Freed' /\ Owned' /\ Moving'
      BY <1>1, <2>1 DEF Handing, Ran, Freed, Owned, Moving
    <2> QED BY <1>c, <2>2, <2>3, <2>4, <2>5
  <1>4. CASE p \notin sent /\ ~rowGone /\ busy
    <2>1. held' = FALSE /\ queue' = Append(queue, p) /\ typing' = None /\ UNCHANGED <<timers, dropped, returned, stalled>>
      BY <1>4 DEF steerAnswered
    <2>2. queue' \in Seq(Prompts) /\ Single' /\ \A q \in Prompts : InQ(q)' <=> (InQ(q) \/ q = p)
      BY <1>2, <2>1, QueueAppended DEF QueueTyped
    <2>3. QueueTyped'
      BY <1>1, <1>t, <2>1, <2>2 DEF QueueTyped
    <2>4. Placed'
      <3> SUFFICES ASSUME NEW q \in Prompts PROVE Once(q)'
        BY DEF Placed
      <3>1. Once(q) /\ q # None
        BY PromptAssumption DEF Placed
      <3>2. CASE q = p
        BY <1>1, <1>2, <1>4, <1>c, <2>1, <2>2, <3>1, <3>2 DEF Once
      <3>3. CASE q # p
        BY <1>1, <1>c, <2>1, <2>2, <3>1, <3>3 DEF Once, HandsShell
      <3> QED BY <3>2, <3>3
    <2>5. Handing' /\ Ran' /\ Freed' /\ Owned' /\ Moving'
      BY <1>1, <1>4, <2>1 DEF Handing, Ran, Freed, Owned, Moving
    <2> QED BY <1>c, <2>2, <2>3, <2>4, <2>5
  <1>5. CASE p \notin sent /\ ~rowGone /\ ~busy
    <2>1. /\ UNCHANGED <<queue, dropped>> /\ held' \in BOOLEAN
          /\ \/ timers' = timers \cup {p} /\ UNCHANGED <<typing, returned, stalled>>
             \/ returned' = returned \cup {p} /\ stalled' = "model" /\ typing' = None /\ UNCHANGED timers
      BY <1>5 DEF steerAnswered, NoModel, QueueTyped
    <2>2. Single' /\ \A q \in Prompts : InQ(q)' <=> InQ(q)
      BY <2>1, QueueSame
    <2>3. QueueTyped'
      <3>1. timers' \subseteq Prompts /\ returned' \subseteq Prompts /\ typing' \in OrNone /\ stalled' \in Reasons
        BY <1>t, <2>1 DEF QueueTyped, Reasons
      <3> QED BY <1>1, <1>t, <2>1, <3>1 DEF QueueTyped
    <2>4. Placed'
      <3> SUFFICES ASSUME NEW q \in Prompts PROVE Once(q)'
        BY DEF Placed
      <3>1. Once(q) /\ q # None /\ ~HandsShell(q)
        BY <1>1, <1>2, PromptAssumption DEF Placed, HandsShell
      <3>2. CASE q = p
        BY <1>1, <1>2, <1>5, <1>c, <2>1, <2>2, <3>1, <3>2 DEF Once
      <3>3. CASE q # p
        <4>1. (q \in timers' <=> q \in timers) /\ (q \in returned' <=> q \in returned)
          BY <2>1, <3>3
        <4> QED BY <1>1, <1>c, <2>1, <2>2, <3>1, <3>3, <4>1 DEF Once
      <3> QED BY <3>2, <3>3
    <2>5. Handing' /\ Ran' /\ Freed' /\ Owned' /\ Moving'
      BY <1>1, <2>1 DEF Handing, Ran, Freed, Owned, Moving
    <2> QED BY <1>c, <2>2, <2>3, <2>4, <2>5
  <1> QED BY <1>3, <1>4, <1>5

\* A thread with nothing in hand finds the head of the queue waiting, and only there.
LEMMA HeadWaits ==
  ASSUME QueueInv, typing = None, queue # <<>>
  PROVE  /\ Head(queue) \in Prompts /\ Head(queue) # None /\ InQ(Head(queue)) /\ Once(Head(queue))
         /\ Head(queue) \notin sent /\ ~dispatching /\ steering = None
  <1>1. Head(queue) \in Prompts /\ InQ(Head(queue)) /\ Head(queue) # None
    BY QueuePoppedHead, PromptAssumption DEF QueueInv, QueueTyped
  <1>2. ~dispatching /\ steering = None
    BY FreeHands
  <1> QED BY <1>1, <1>2 DEF QueueInv, Placed, Once, HandsShell

LEMMA steerQueuedIdleMoves == QueueInv /\ steerQueuedIdle => QueueInv'
  <1> SUFFICES ASSUME QueueInv, steerQueuedIdle PROVE QueueInv'
    OBVIOUS
  <1> USE DEF QueueInv
  <1> DEFINE p == Head(queue)
  <1>1. /\ typing = None /\ ~busy /\ queue # <<>> /\ queue' = Tail(queue) /\ held' = FALSE
        /\ UNCHANGED <<fresh, dispatching, busy, active, reverting, shellCancel, shells, beside, moved, starting, steering,
                       rowGone, rebuild, run, over, consumers, sent, dropped, rewritten, crossed>>
        /\ \/ timers' = timers \cup {p} /\ typing' = p /\ UNCHANGED <<returned, stalled>>
           \/ returned' = returned \cup {p} /\ stalled' = "model" /\ UNCHANGED <<timers, typing>>
    BY DEF steerQueuedIdle, NoModel, Idle, view, commands, steer, session
  <1>2. p \in Prompts /\ Once(p) /\ InQ(p) /\ p \notin sent /\ ~dispatching /\ steering = None /\ p # None
    BY <1>1, HeadWaits
  <1>3. queue' \in Seq(Prompts) /\ Single' /\ \A q \in Prompts : InQ(q)' <=> (InQ(q) /\ q # p)
    BY <1>1, QueuePopped DEF QueueTyped
  <1>c. CopySingle' /\ \A q \in Prompts : InCopy(q)' <=> InCopy(q)
    BY <1>1, CopySame
  <1> HIDE DEF p
  <1>4. QueueTyped'
    <2>1. /\ timers' \subseteq Prompts /\ returned' \subseteq Prompts /\ typing' \in OrNone /\ stalled' \in Reasons
      BY <1>1, <1>2 DEF QueueTyped, OrNone, Reasons
    <2> QED BY <1>1, <1>3, <2>1 DEF QueueTyped
  <1>5. Placed'
    <2> SUFFICES ASSUME NEW q \in Prompts PROVE Once(q)'
      BY DEF Placed
    <2>1. Once(q) /\ q # None
      BY PromptAssumption DEF Placed
    <2>2. CASE q = p
      BY <1>1, <1>2, <1>3, <1>c, <2>1, <2>2 DEF Once
    <2>3. CASE q # p
      <3>1. (q \in timers' <=> q \in timers) /\ (q \in returned' <=> q \in returned)
        BY <1>1, <2>3
      <3> QED BY <1>1, <1>2, <1>3, <1>c, <2>1, <2>3, <3>1 DEF Once, HandsShell
    <2> QED BY <2>2, <2>3
  <1>8. Handing' /\ Ran' /\ Freed' /\ Owned' /\ Moving'
    BY <1>1, <1>2 DEF Handing, Ran, Freed, Owned, Moving
  <1> QED BY <1>3, <1>4, <1>5, <1>8, <1>c

LEMMA steerQueuedMoves == QueueInv /\ steerQueued => QueueInv'
  <1> SUFFICES ASSUME QueueInv, steerQueued PROVE QueueInv'
    OBVIOUS
  <1> USE DEF QueueInv
  <1> DEFINE p == Head(queue)
  <1>1. /\ typing = None /\ busy /\ queue # <<>> /\ queue' = Tail(queue) /\ dispatching' = TRUE
        /\ steering' = p /\ rowGone' = FALSE /\ typing' = p
        /\ UNCHANGED <<fresh, held, busy, active, reverting, shellCancel, shells, beside, moved, timers, starting, rebuild, run,
                       over, consumers, sent, returned, dropped, rewritten, stalled, crossed>>
    BY DEF steerQueued, Idle, view, commands, session, settled, history
  <1>2. p \in Prompts /\ Once(p) /\ InQ(p) /\ p \notin sent /\ ~dispatching /\ steering = None /\ p # None
    BY <1>1, HeadWaits
  <1>3. queue' \in Seq(Prompts) /\ Single' /\ \A q \in Prompts : InQ(q)' <=> (InQ(q) /\ q # p)
    BY <1>1, QueuePopped DEF QueueTyped
  <1>c. CopySingle' /\ \A q \in Prompts : InCopy(q)' <=> InCopy(q)
    BY <1>1, CopySame
  <1> HIDE DEF p
  <1>4. QueueTyped'
    <2>1. typing' \in OrNone /\ steering' \in OrNone /\ dispatching' \in BOOLEAN /\ rowGone' \in BOOLEAN
      BY <1>1, <1>2 DEF OrNone
    <2> QED BY <1>1, <1>3, <2>1 DEF QueueTyped
  <1>5. Placed'
    <2> SUFFICES ASSUME NEW q \in Prompts PROVE Once(q)'
      BY DEF Placed
    <2>1. Once(q) /\ q # None
      BY PromptAssumption DEF Placed
    <2>2. CASE q = p
      BY <1>1, <1>2, <1>3, <1>c, <2>1, <2>2 DEF Once
    <2>3. CASE q # p
      BY <1>1, <1>2, <1>3, <1>c, <2>1, <2>3 DEF Once, HandsShell
    <2> QED BY <2>2, <2>3
  <1>8. Handing' /\ Ran' /\ Freed' /\ Owned' /\ Moving'
    BY <1>1, <1>2 DEF Handing, Ran, Freed, Owned, Moving
  <1> QED BY <1>3, <1>4, <1>5, <1>8, <1>c

LEMMA steerQueuedShellMoves == QueueInv /\ steerQueuedShell => QueueInv'
  <1> SUFFICES ASSUME QueueInv, steerQueuedShell PROVE QueueInv'
    OBVIOUS
  <1> USE DEF QueueInv
  <1>1. /\ typing = None /\ busy /\ queue # <<>> /\ Head(queue) \in Shells /\ dispatching' = TRUE /\ typing' = Head(queue)
        /\ UNCHANGED <<fresh, queue, held, busy, active, reverting, shellCancel, shells, beside, moved, timers, starting,
                       steering, rowGone, rebuild, run, over, consumers, sent, returned, dropped, rewritten, stalled, crossed>>
    BY DEF steerQueuedShell, Idle, view, commands, steer, session, settled, history
  <1>2. /\ Head(queue) \in Prompts /\ InQ(Head(queue)) /\ Head(queue) \notin sent
        /\ ~dispatching /\ steering = None /\ Head(queue) # None
    BY <1>1, HeadWaits
  <1>3. Single' /\ \A q \in Prompts : InQ(q)' <=> InQ(q)
    BY <1>1, QueueSame
  <1>c. CopySingle' /\ \A q \in Prompts : InCopy(q)' <=> InCopy(q)
    BY <1>1, CopySame
  <1>4. QueueTyped'
    <2>1. typing' \in OrNone /\ dispatching' \in BOOLEAN
      BY <1>1, <1>2 DEF OrNone
    <2> QED BY <1>1, <2>1 DEF QueueTyped
  <1>5. Placed'
    <2> SUFFICES ASSUME NEW q \in Prompts PROVE Once(q)'
      BY DEF Placed
    <2>1. Once(q) /\ ~HandsShell(q)
      BY <1>2 DEF Placed, HandsShell
    <2> QED BY <1>1, <1>3, <1>c, <2>1 DEF Once
  <1>8. Handing' /\ Ran' /\ Freed' /\ Owned' /\ Moving'
    BY <1>1, <1>2 DEF Handing, Ran, Freed, Owned, Moving
  <1> QED BY <1>3, <1>4, <1>5, <1>8, <1>c

\* The steer from the queue is through, and a view that is not busy has met it.
LEMMA UndispatchedFacts ==
  ASSUME QueueTyped, Undispatched
  PROVE  dispatching' = FALSE /\ typing' = None /\ typing' \in OrNone /\ stalled' \in Reasons
         /\ ((busy /\ stalled' = stalled) \/ (~busy /\ stalled' = "steered"))
  <1>1. dispatching' = FALSE /\ typing' = None /\ stalled' = (IF busy THEN stalled ELSE "steered")
    BY DEF Undispatched
  <1>2. stalled \in Reasons /\ "steered" \in Reasons /\ typing' \in OrNone
    BY <1>1 DEF QueueTyped, Reasons, OrNone
  <1>3. (busy /\ stalled' = stalled) \/ (~busy /\ stalled' = "steered")
    <2>1. CASE busy
      BY <1>1, <2>1
    <2>2. CASE ~busy
      BY <1>1, <2>2
    <2> QED BY <2>1, <2>2
  <1>4. stalled' \in Reasons
    BY <1>2, <1>3
  <1> QED BY <1>1, <1>2, <1>3, <1>4, Zenon

LEMMA startParallelMoves == \A p \in Prompts : QueueInv /\ startParallelShell(p) => QueueInv'
  <1> SUFFICES ASSUME NEW p \in Prompts, QueueInv, startParallelShell(p) PROVE QueueInv'
    OBVIOUS
  <1> USE DEF QueueInv
  <1>1. /\ typing = p /\ dispatching /\ steering = None /\ p \notin sent
        /\ UNCHANGED <<fresh, queue, held, reverting, moved, timers, starting, steering, rowGone, rebuild, run, over, consumers,
                       returned, dropped, rewritten, crossed>>
    BY DEF startParallelShell, steer, session, settled
  <1>2. p # None /\ Once(p) /\ InQ(p) /\ p \in Shells
    BY <1>1, PromptAssumption, QueuePoppedHead DEF Placed, Handing, QueueTyped
  <1>3. Single' /\ \A q \in Prompts : InQ(q)' <=> InQ(q)
    BY <1>1, QueueSame
  <1>c. CopySingle' /\ \A q \in Prompts : InCopy(q)' <=> InCopy(q)
    BY <1>1, CopySame
  <1>4. CASE shellCancel
    <2>1. Undispatched /\ UNCHANGED <<shellCancel, shells, beside, busy, active, sent>>
      BY <1>4 DEF startParallelShell
    <2>2. /\ dispatching' = FALSE /\ typing' = None /\ typing' \in OrNone /\ stalled' \in Reasons
          /\ ((busy /\ stalled' = stalled) \/ (~busy /\ stalled' = "steered"))
      BY <2>1, UndispatchedFacts
    <2>3. QueueTyped'
      BY <1>1, <2>1, <2>2 DEF QueueTyped
    <2>4. Placed'
      <3> SUFFICES ASSUME NEW q \in Prompts PROVE Once(q)'
        BY DEF Placed
      <3>1. Once(q) /\ (HandsShell(q) => q \notin sent)
        BY <1>1 DEF Placed, HandsShell
      <3> QED BY <1>1, <1>3, <1>c, <2>1, <3>1 DEF Once
    <2>5. Handing' /\ Ran' /\ Freed' /\ Owned' /\ Moving'
      BY <1>1, <2>1, <2>2 DEF Handing, Ran, Freed, Owned, Moving
    <2> QED BY <1>3, <1>c, <2>3, <2>4, <2>5
  <1>5. CASE ~shellCancel
    <2>1. ParallelShell(p) /\ UNCHANGED <<dispatching, typing>>
      BY <1>5 DEF startParallelShell
    <2>2. /\ shells' \subseteq Shells /\ shellCancel' \in BOOLEAN /\ beside' \subseteq shells' /\ moved' \subseteq shells'
          /\ busy' = TRUE /\ active' \in OrNone /\ stalled' \in Reasons
          /\ sent' = sent \cup {p} /\ Ran' /\ Freed' /\ Owned'
      BY <1>1, <1>2, <2>1, ParallelFacts
    <2>3. QueueTyped'
      BY <1>1, <2>1, <2>2 DEF QueueTyped
    <2>4. Placed'
      <3> SUFFICES ASSUME NEW q \in Prompts PROVE Once(q)'
        BY DEF Placed
      <3>1. Once(q) /\ (HandsShell(q)' <=> HandsShell(q)) /\ HandsShell(p)
        BY <1>1, <2>1 DEF Placed, HandsShell
      <3>2. CASE q = p
        BY <1>1, <1>2, <1>3, <1>c, <2>2, <3>1, <3>2 DEF Once
      <3>3. CASE q # p
        BY <1>1, <1>3, <1>c, <2>2, <3>1, <3>3 DEF Once
      <3> QED BY <3>2, <3>3
    <2>5. Handing' /\ Moving'
      BY <1>1, <2>1, <2>2 DEF Handing, Moving
    <2> QED BY <1>3, <1>c, <2>2, <2>3, <2>4, <2>5
  <1> QED BY <1>4, <1>5

LEMMA dequeueShellMoves == \A p \in Prompts : QueueInv /\ dequeueShell(p) => QueueInv'
  <1> SUFFICES ASSUME NEW p \in Prompts, QueueInv, dequeueShell(p) PROVE QueueInv'
    OBVIOUS
  <1> USE DEF QueueInv
  <1>1. /\ typing = p /\ dispatching /\ steering = None /\ p \in sent /\ Undispatched
        /\ UNCHANGED <<fresh, held, busy, active, reverting, shellCancel, shells, beside, moved, timers, starting, steering,
                       rowGone, rebuild, run, over, consumers, sent, returned, dropped, rewritten, crossed>>
    BY DEF dequeueShell, view, commands, steer, session, settled
  <1>2. queue # <<>> /\ Head(queue) = p /\ queue' = Tail(queue)
    BY <1>1 DEF Handing, dequeueShell
  <1>3. queue' \in Seq(Prompts) /\ Single' /\ \A q \in Prompts : InQ(q)' <=> (InQ(q) /\ q # p)
    BY <1>2, QueuePopped DEF QueueTyped
  <1>c. CopySingle' /\ \A q \in Prompts : InCopy(q)' <=> InCopy(q)
    BY <1>1, CopySame
  <1>u. /\ dispatching' = FALSE /\ typing' = None /\ typing' \in OrNone /\ stalled' \in Reasons
        /\ ((busy /\ stalled' = stalled) \/ (~busy /\ stalled' = "steered"))
    BY <1>1, UndispatchedFacts
  <1>4. QueueTyped'
    BY <1>1, <1>3, <1>u DEF QueueTyped
  <1>5. Placed'
    <2> SUFFICES ASSUME NEW q \in Prompts PROVE Once(q)'
      BY DEF Placed
    <2>1. Once(q) /\ (HandsShell(q) => q = p)
      BY <1>1 DEF Placed, HandsShell
    <2> QED BY <1>1, <1>3, <1>c, <2>1 DEF Once
  <1>8. Handing' /\ Ran' /\ Freed' /\ Owned' /\ Moving'
    BY <1>1, <1>u DEF Handing, Ran, Freed, Owned, Moving
  <1> QED BY <1>3, <1>4, <1>5, <1>8, <1>c

LEMMA steerQueuedAnsweredMoves == \A p \in Prompts : QueueInv /\ steerQueuedAnswered(p) => QueueInv'
  <1> SUFFICES ASSUME NEW p \in Prompts, QueueInv, steerQueuedAnswered(p) PROVE QueueInv'
    OBVIOUS
  <1> USE DEF QueueInv
  <1>1. /\ steering = p /\ dispatching /\ steering' = None /\ rowGone' = FALSE
        /\ UNCHANGED <<fresh, busy, active, reverting, shellCancel, shells, beside, moved, starting, rebuild, run, over,
                       consumers, sent, rewritten, crossed>>
    BY DEF steerQueuedAnswered, view, commands, session
  <1>2. p # None /\ Once(p) /\ ~InQ(p) /\ typing = p
    BY <1>1, PromptAssumption DEF Placed, Once, Handing
  <1>c. CopySingle' /\ \A q \in Prompts : InCopy(q)' <=> InCopy(q)
    BY <1>1, CopySame
  <1>t. steering' \in OrNone /\ rowGone' \in BOOLEAN /\ None \in OrNone
    BY <1>1 DEF OrNone
  <1>3. CASE p \in sent \/ rowGone
    <2>1. Undispatched /\ dropped' = dropped \cup ({p} \ sent) /\ UNCHANGED <<queue, held, timers, returned>>
      BY <1>3 DEF steerQueuedAnswered
    <2>u. /\ dispatching' = FALSE /\ typing' = None /\ typing' \in OrNone /\ stalled' \in Reasons
          /\ ((busy /\ stalled' = stalled) \/ (~busy /\ stalled' = "steered"))
      BY <2>1, UndispatchedFacts
    <2>2. Single' /\ \A q \in Prompts : InQ(q)' <=> InQ(q)
      BY <2>1, QueueSame
    <2>3. QueueTyped'
      BY <1>1, <1>t, <2>1, <2>u DEF QueueTyped
    <2>4. Placed'
      <3> SUFFICES ASSUME NEW q \in Prompts PROVE Once(q)'
        BY DEF Placed
      <3>1. Once(q) /\ q # None /\ ~HandsShell(q)
        BY <1>1, <1>2, PromptAssumption DEF Placed, HandsShell
      <3>2. CASE q = p
        BY <1>1, <1>2, <1>c, <2>1, <2>2, <3>1, <3>2 DEF Once
      <3>3. CASE q # p
        BY <1>1, <1>c, <2>1, <2>2, <3>1, <3>3 DEF Once
      <3> QED BY <3>2, <3>3
    <2>5. Handing' /\ Ran' /\ Freed' /\ Owned' /\ Moving'
      BY <1>1, <2>1, <2>u DEF Handing, Ran, Freed, Owned, Moving
    <2> QED BY <1>c, <2>2, <2>3, <2>4, <2>5
  <1>4. CASE p \notin sent /\ ~rowGone /\ busy
    <2>1. Undispatched /\ queue' = <<p>> \o queue /\ UNCHANGED <<held, timers, returned, dropped>>
      BY <1>4 DEF steerQueuedAnswered
    <2>u. /\ dispatching' = FALSE /\ typing' = None /\ typing' \in OrNone /\ stalled' \in Reasons
          /\ ((busy /\ stalled' = stalled) \/ (~busy /\ stalled' = "steered"))
      BY <2>1, UndispatchedFacts
    <2>2. queue' \in Seq(Prompts) /\ Single' /\ \A q \in Prompts : InQ(q)' <=> (InQ(q) \/ q = p)
      BY <1>2, <2>1, QueueFronted DEF QueueTyped
    <2>3. QueueTyped'
      BY <1>1, <1>t, <2>1, <2>2, <2>u DEF QueueTyped
    <2>4. Placed'
      <3> SUFFICES ASSUME NEW q \in Prompts PROVE Once(q)'
        BY DEF Placed
      <3>1. Once(q) /\ q # None /\ ~HandsShell(q)
        BY <1>1, <1>2, PromptAssumption DEF Placed, HandsShell
      <3>2. CASE q = p
        BY <1>1, <1>2, <1>4, <1>c, <2>1, <2>2, <3>1, <3>2 DEF Once
      <3>3. CASE q # p
        BY <1>1, <1>c, <2>1, <2>2, <3>1, <3>3 DEF Once
      <3> QED BY <3>2, <3>3
    <2>5. Handing' /\ Ran' /\ Freed' /\ Owned' /\ Moving'
      BY <1>1, <1>4, <2>1, <2>u DEF Handing, Ran, Freed, Owned, Moving
    <2> QED BY <1>c, <2>2, <2>3, <2>4, <2>5
  <1>5. CASE p \notin sent /\ ~rowGone /\ ~busy
    <2>1. /\ held' = FALSE /\ dispatching' = FALSE /\ UNCHANGED <<queue, dropped>>
          /\ \/ timers' = timers \cup {p} /\ UNCHANGED <<typing, returned, stalled>>
             \/ returned' = returned \cup {p} /\ stalled' = "model" /\ typing' = None /\ UNCHANGED timers
      BY <1>5 DEF steerQueuedAnswered, NoModel
    <2>2. Single' /\ \A q \in Prompts : InQ(q)' <=> InQ(q)
      BY <2>1, QueueSame
    <2>3. QueueTyped'
      <3>1. timers' \subseteq Prompts /\ returned' \subseteq Prompts /\ typing' \in OrNone /\ stalled' \in Reasons
        BY <1>t, <2>1 DEF QueueTyped, Reasons
      <3> QED BY <1>1, <1>t, <2>1, <3>1 DEF QueueTyped
    <2>4. Placed'
      <3> SUFFICES ASSUME NEW q \in Prompts PROVE Once(q)'
        BY DEF Placed
      <3>1. Once(q) /\ q # None /\ ~HandsShell(q)
        BY <1>1, <1>2, PromptAssumption DEF Placed, HandsShell
      <3>2. CASE q = p
        BY <1>1, <1>2, <1>5, <1>c, <2>1, <2>2, <3>1, <3>2 DEF Once
      <3>3. CASE q # p
        <4>1. (q \in timers' <=> q \in timers) /\ (q \in returned' <=> q \in returned)
          BY <2>1, <3>3
        <4> QED BY <1>1, <1>c, <2>1, <2>2, <3>1, <3>3, <4>1 DEF Once
      <3> QED BY <3>2, <3>3
    <2>5. Handing' /\ Ran' /\ Freed' /\ Owned' /\ Moving'
      BY <1>1, <2>1 DEF Handing, Ran, Freed, Owned, Moving
    <2> QED BY <1>c, <2>2, <2>3, <2>4, <2>5
  <1> QED BY <1>3, <1>4, <1>5

LEMMA QueueStutters == QueueInv /\ UNCHANGED queueVars => QueueInv'
  <1> SUFFICES ASSUME QueueInv, UNCHANGED queueVars PROVE QueueInv'
    OBVIOUS
  <1>1. UNCHANGED <<fresh, queue, held, dispatching, busy, active, reverting, shellCancel, shells, beside, moved, timers,
                    starting, steering, rowGone, typing, rebuild, run, over, consumers, sent, returned, dropped, rewritten,
                    stalled, crossed>>
    BY DEF queueVars, waiting, view, commands, steer, session, settled, history
  <1>2. Single' /\ \A q \in Prompts : InQ(q)' <=> InQ(q)
    BY <1>1, QueueSame DEF QueueInv
  <1>c. CopySingle' /\ \A q \in Prompts : InCopy(q)' <=> InCopy(q)
    BY <1>1, CopySame DEF QueueInv
  <1>3. Placed'
    <2> SUFFICES ASSUME NEW q \in Prompts PROVE Once(q)'
      BY DEF Placed
    <2> QED BY <1>1, <1>2, <1>c DEF QueueInv, Placed, Once, HandsShell
  <1>4. QueueTyped' /\ Handing' /\ Ran' /\ Freed' /\ Owned' /\ Moving'
    BY <1>1 DEF QueueInv, QueueTyped, Handing, Ran, Freed, Owned, Moving
  <1> QED BY <1>2, <1>3, <1>4, <1>c DEF QueueInv

LEMMA QueueStep == QueueInv /\ [QueueNext]_queueVars => QueueInv'
  BY submitMoves, dispatchMoves, dispatchReturnedMoves, startMoves, failStartMoves, plainMoves, SetTranscriptMoves,
     SetSessionMoves, finishRunMoves, finishShellMoves, steerShellMoves, steerShellStartsMoves, steerTypedMoves,
     steerTakenMoves, steerAnsweredMoves, steerQueuedIdleMoves, steerQueuedMoves, steerQueuedShellMoves, startParallelMoves,
     dequeueShellMoves, steerQueuedAnsweredMoves, QueueStutters DEF QueueNext

\* What is waiting, on its way or done with is what PromptKept counts.
LEMMA QueueImplied == QueueInv => QueueKept
  <1> SUFFICES ASSUME QueueInv PROVE QueueKept
    OBVIOUS
  <1> USE DEF QueueInv
  <1>1. QueueMoves
    <2>1. busy => starting \cup consumers \cup (shells \ beside) # {}
      BY DEF Freed
    <2>2. ~crossed => /\ run # None /\ run \in consumers => busy /\ active = run
                      /\ shells \ beside # {} => busy
      BY DEF Owned
    <2>3. ~crossed /\ stalled = "no" => Taken
      BY DEF Moving, Taken
    <2> QED BY <2>1, <2>2, <2>3 DEF QueueMoves
  <1>2. IsInjective(queue)
    BY DEF Single, IsInjective, QueueTyped
  <1> DEFINE Waiting == ToSet(queue) \ (IF dispatching /\ typing \in sent THEN {typing} ELSE {})
             Going == timers \cup starting \cup ({steering} \ (sent \cup {None}))
             Places == <<fresh, Waiting, Going, sent, returned, dropped>>
  <1>3. ToSet(queue) = {q \in Prompts : InQ(q)}
    BY DEF ToSet, InQ, QueueTyped
  <1>4. \A q \in Prompts : q \in Waiting <=> InQ(q) /\ q \notin sent
    <2> SUFFICES ASSUME NEW q \in Prompts PROVE q \in Waiting <=> InQ(q) /\ q \notin sent
      OBVIOUS
    <2>1. InQ(q) /\ q \in sent => HandsShell(q)
      BY DEF Placed, Once
    <2> QED BY <1>3, <2>1 DEF HandsShell
  <1>5. \A q \in Prompts : q \in Going <=> (q \in timers \/ q \in starting \/ (q = steering /\ q \notin sent))
    BY PromptAssumption
  <1>6. Waiting \subseteq Prompts /\ Going \subseteq Prompts
    BY <1>3 DEF QueueTyped, OrNone
  <1> HIDE DEF Waiting, Going
  <1>7. Prompts \subseteq (UNION {fresh, Waiting, Going, sent, returned, dropped}) \cup rewritten
    <2>1. Prompts \subseteq fresh \cup Waiting \cup Going \cup sent \cup returned \cup dropped \cup rewritten
      BY <1>4, <1>5 DEF Placed, Once
    <2>2. UNION {fresh, Waiting, Going, sent, returned, dropped} = fresh \cup Waiting \cup Going \cup sent \cup returned \cup dropped
      OBVIOUS
    <2> QED BY <2>1, <2>2
  <1>p. \A q \in Prompts :
          /\ ~(q \in fresh /\ q \in Waiting) /\ ~(q \in fresh /\ q \in Going) /\ ~(q \in fresh /\ q \in sent)
          /\ ~(q \in fresh /\ q \in returned) /\ ~(q \in fresh /\ q \in dropped) /\ ~(q \in Waiting /\ q \in Going)
          /\ ~(q \in Waiting /\ q \in sent) /\ ~(q \in Waiting /\ q \in returned) /\ ~(q \in Waiting /\ q \in dropped)
          /\ ~(q \in Going /\ q \in sent) /\ ~(q \in Going /\ q \in returned) /\ ~(q \in Going /\ q \in dropped)
          /\ ~(q \in sent /\ q \in returned) /\ ~(q \in sent /\ q \in dropped) /\ ~(q \in returned /\ q \in dropped)
    <2> SUFFICES ASSUME NEW q \in Prompts PROVE
          /\ ~(q \in fresh /\ q \in Waiting) /\ ~(q \in fresh /\ q \in Going) /\ ~(q \in fresh /\ q \in sent)
          /\ ~(q \in fresh /\ q \in returned) /\ ~(q \in fresh /\ q \in dropped) /\ ~(q \in Waiting /\ q \in Going)
          /\ ~(q \in Waiting /\ q \in sent) /\ ~(q \in Waiting /\ q \in returned) /\ ~(q \in Waiting /\ q \in dropped)
          /\ ~(q \in Going /\ q \in sent) /\ ~(q \in Going /\ q \in returned) /\ ~(q \in Going /\ q \in dropped)
          /\ ~(q \in sent /\ q \in returned) /\ ~(q \in sent /\ q \in dropped) /\ ~(q \in returned /\ q \in dropped)
      OBVIOUS
    <2>1. Once(q) /\ (q \in Waiting <=> InQ(q) /\ q \notin sent)
          /\ (q \in Going <=> (q \in timers \/ q \in starting \/ (q = steering /\ q \notin sent)))
      BY <1>4, <1>5 DEF Placed
    <2> QED BY <2>1 DEF Once
  <1>s. fresh \subseteq Prompts /\ sent \subseteq Prompts /\ returned \subseteq Prompts /\ dropped \subseteq Prompts
    BY DEF QueueTyped
  <1>8. /\ fresh \cap Waiting = {} /\ fresh \cap Going = {} /\ fresh \cap sent = {} /\ fresh \cap returned = {} /\ fresh \cap dropped = {}
        /\ Waiting \cap Going = {} /\ Waiting \cap sent = {} /\ Waiting \cap returned = {} /\ Waiting \cap dropped = {}
        /\ Going \cap sent = {} /\ Going \cap returned = {} /\ Going \cap dropped = {}
        /\ sent \cap returned = {} /\ sent \cap dropped = {} /\ returned \cap dropped = {}
    BY <1>6, <1>p, <1>s
  <1>9. Range(Places) = {fresh, Waiting, Going, sent, returned, dropped}
    BY DEF Range
  <1>10. \A i, j \in 1..6 : i # j => Places[i] \cap Places[j] = {}
    BY <1>8
  <1> QED BY <1>1, <1>2, <1>7, <1>9, <1>10 DEF QueueKept, PromptKept, Waiting, Going

\* Every prompt the user typed (internal/tui/chat.go) is in one place, or was sent
\* once, handed back or dropped, or a rebuild's old copy of the queue left it out;
\* a busy view has a run or a command that frees it; and until something crossed or
\* stopped the queue, a run that goes on has the view and a queue that nobody holds
\* has someone to take it.
THEOREM QueueIsKept == QueueSpec => []QueueKept
  BY QueueStarts, QueueStep, QueueImplied, PTL DEF QueueSpec

-----------------------------------------------------------------------------
(* The render loop (internal/tui/base.go).                                  *)
\* A callback of a kind waits in the loop's queue.
InQueue(kind) == \E n \in 1..Len(callbacks) : callbacks[n] = kind

\* What leads from a set flag to a frame.
Coming ==
  \/ \E r \in Requesters : asking[r] # "no"
  \/ InQueue("schedule") \/ InQueue("immediate") \/ InQueue("fired")
  \/ doing \in {"schedule", "immediate", "fired", "drawTimed", "recheck"} \/ armed # {}

\* A change that no frame shows yet was asked for.
Asked == stale /\ ~stopped => doing \in {"render", "renderTimed"} \/ requested

\* The flag of a request is never set with nothing on its way: whoever found it
\* set relies on the one who set it.
Promised == requested /\ ~stopped => Coming

\* Nor is the flag of an urgent request, ...
Urgent ==
  immediate /\ ~stopped =>
    (\E r \in Requesters : asking[r] = "immediate") \/ InQueue("immediate") \/ doing = "immediate"

\* ... nor the handle of a timer: it runs, or its callback is on its way.
Timed == handle # 0 /\ ~stopped => armed # {} \/ InQueue("fired") \/ doing = "fired"

\* The loop is stopped only after the interface was.
LoopLast == loopStopped => stopped

RenderInv == RenderTypeOK /\ Asked /\ Promised /\ Urgent /\ Timed /\ LoopLast /\ QuietWhenStopped

LEMMA QueueAppend ==
  ASSUME callbacks \in Seq(Callbacks), NEW c \in Callbacks, callbacks' = Append(callbacks, c)
  PROVE  /\ callbacks' \in Seq(Callbacks) /\ InQueue(c)'
         /\ \A kind \in Callbacks : InQueue(kind) => InQueue(kind)'
  <1>1. callbacks' \in Seq(Callbacks) /\ Len(callbacks') = Len(callbacks) + 1 /\ Len(callbacks) \in Nat
        /\ callbacks'[Len(callbacks) + 1] = c
        /\ \A n \in 1..Len(callbacks) : callbacks'[n] = callbacks[n]
    OBVIOUS
  <1>2. Len(callbacks) + 1 \in 1..Len(callbacks') /\ 1..Len(callbacks) \subseteq 1..Len(callbacks')
    BY <1>1
  <1> QED BY <1>1, <1>2, Zenon DEF InQueue

LEMMA QueueTail ==
  ASSUME callbacks \in Seq(Callbacks), callbacks # <<>>, callbacks' = Tail(callbacks)
  PROVE  /\ callbacks' \in Seq(Callbacks) /\ Head(callbacks) \in Callbacks
         /\ \A kind \in Callbacks : InQueue(kind) => InQueue(kind)' \/ Head(callbacks) = kind
  <1>1. /\ callbacks' \in Seq(Callbacks) /\ Head(callbacks) \in Callbacks /\ Head(callbacks) = callbacks[1]
        /\ Len(callbacks') = Len(callbacks) - 1 /\ Len(callbacks) \in Nat
        /\ \A n \in 1..Len(callbacks') : callbacks'[n] = callbacks[n + 1]
    OBVIOUS
  <1>2. ASSUME NEW kind \in Callbacks, NEW n \in 1..Len(callbacks), callbacks[n] = kind, Head(callbacks) # kind
        PROVE  InQueue(kind)'
    <2>1. n # 1 /\ n \in Nat
      BY <1>1, <1>2
    <2>2. n - 1 \in 1..Len(callbacks') /\ (n - 1) + 1 = n
      BY <1>1, <1>2, <2>1
    <2> QED BY <1>1, <1>2, <2>2 DEF InQueue
  <1> QED BY <1>1, <1>2 DEF InQueue

LEMMA QueueKeeps ==
  ASSUME UNCHANGED callbacks
  PROVE  \A kind \in Callbacks : InQueue(kind) => InQueue(kind)'
  BY DEF InQueue

LEMMA QueuedFacts ==
  ASSUME callbacks \in Seq(Callbacks), NEW c \in Callbacks, Queued(c)
  PROVE  /\ callbacks' \in Seq(Callbacks) /\ (~loopStopped => InQueue(c)')
         /\ \A kind \in Callbacks : InQueue(kind) => InQueue(kind)'
  <1>1. CASE loopStopped
    BY <1>1, QueueKeeps DEF Queued
  <1>2. CASE ~loopStopped
    BY <1>2, QueueAppend DEF Queued
  <1> QED BY <1>1, <1>2

LEMMA AskingSet ==
  ASSUME asking \in [Requesters -> {"no", "schedule", "immediate"}], NEW r \in Requesters,
         NEW v \in {"no", "schedule", "immediate"}, asking' = [asking EXCEPT ![r] = v]
  PROVE  /\ asking' \in [Requesters -> {"no", "schedule", "immediate"}] /\ asking'[r] = v
         /\ \A q \in Requesters : q # r => asking'[q] = asking[q]
  OBVIOUS

LEMMA RenderStarts == RenderInit => RenderInv
  <1> SUFFICES ASSUME RenderInit PROVE RenderInv
    OBVIOUS
  <1>1. RenderTypeOK
    <2>1. 0 \in 0..MaxTimers
      BY RenderAssumption
    <2>2. asking \in [Requesters -> {"no", "schedule", "immediate"}]
      BY DEF RenderInit
    <2>3. <<>> \in Seq(Callbacks)
      OBVIOUS
    <2> QED BY <2>1, <2>2, <2>3 DEF RenderInit, RenderTypeOK
  <1> QED BY <1>1 DEF RenderInit, RenderInv, Asked, Promised, Urgent, Timed, LoopLast, QuietWhenStopped, stopped

LEMMA RenderMoves == RenderInv /\ [RenderNext]_renderVars => RenderInv'
  <1> SUFFICES ASSUME RenderInv, [RenderNext]_renderVars PROVE RenderInv'
    OBVIOUS
  <1> USE DEF RenderInv
  <1>t. /\ requested \in BOOLEAN /\ immediate \in BOOLEAN /\ armed \subseteq Timers /\ handle \in 0..MaxTimers
        /\ callbacks \in Seq(Callbacks) /\ loopStopped \in BOOLEAN
        /\ doing \in Callbacks \cup {"nothing", "render", "draw", "renderTimed", "drawTimed", "recheck", "exited"}
        /\ asking \in [Requesters -> {"no", "schedule", "immediate"}]
        /\ stopping \in {"no", "marked", "waiting", "done"} /\ stale \in BOOLEAN /\ gaveUp \in BOOLEAN
    BY DEF RenderTypeOK
  <1>k. "schedule" \in Callbacks /\ "immediate" \in Callbacks /\ "fired" \in Callbacks /\ "input" \in Callbacks
    BY DEF Callbacks
  <1>z. 0 \in 0..MaxTimers /\ Timers \subseteq 0..MaxTimers
    BY RenderAssumption DEF Timers
  <1>1. CASE PostInput
    <2>1. callbacks' \in Seq(Callbacks) /\ \A kind \in Callbacks : InQueue(kind) => InQueue(kind)'
      BY <1>1, <1>t, <1>k, QueuedFacts DEF PostInput
    <2>2. UNCHANGED <<requested, immediate, armed, handle, loopStopped, doing, asking, stopping, stale, gaveUp>>
      BY <1>1 DEF PostInput
    <2>3. RenderTypeOK'
      BY <1>t, <2>1, <2>2 DEF RenderTypeOK
    <2> QED BY <1>k, <2>1, <2>2, <2>3 DEF Asked, Promised, Coming, Urgent, Timed, LoopLast, QuietWhenStopped, stopped
  <1>2. CASE runLoop
    <2>2. UNCHANGED <<requested, immediate, armed, handle, loopStopped, asking, stopping, stale, gaveUp>> /\ doing = "nothing"
      BY <1>2 DEF runLoop
    <2>3. CASE loopStopped
      <3>1. doing' = "exited" /\ UNCHANGED callbacks
        BY <1>2, <2>3 DEF runLoop
      <3>2. RenderTypeOK'
        BY <1>t, <2>2, <3>1 DEF RenderTypeOK
      <3>3. stopped'
        BY <2>2, <2>3 DEF LoopLast, stopped
      <3> QED BY <2>2, <3>1, <3>2, <3>3 DEF Asked, Promised, Urgent, Timed, LoopLast, QuietWhenStopped
    <2>4. CASE ~loopStopped
      <3>1. callbacks # <<>> /\ doing' = Head(callbacks) /\ callbacks' = Tail(callbacks)
        BY <1>2, <2>4 DEF runLoop
      <3>2. /\ callbacks' \in Seq(Callbacks) /\ doing' \in Callbacks
            /\ \A kind \in Callbacks : InQueue(kind) => InQueue(kind)' \/ doing' = kind
        BY <3>1, <1>t, QueueTail
      <3>3. RenderTypeOK'
        BY <1>t, <2>2, <3>2 DEF RenderTypeOK
      <3>4. doing' \notin {"draw", "drawTimed"}
        BY <3>2 DEF Callbacks
      <3>5. Asked' /\ LoopLast' /\ QuietWhenStopped'
        BY <2>2, <3>4 DEF Asked, LoopLast, QuietWhenStopped, stopped
      <3>6. Promised'
        BY <1>k, <2>2, <3>2 DEF Promised, Coming, stopped
      <3>7. Urgent' /\ Timed'
        BY <1>k, <2>2, <3>2 DEF Urgent, Timed, stopped
      <3> QED BY <3>3, <3>5, <3>6, <3>7
    <2> QED BY <2>3, <2>4
  <1>3. CASE Schedule
    <2>1. /\ doing \in {"schedule", "recheck"} /\ doing' = "nothing"
          /\ UNCHANGED <<requested, immediate, callbacks, loopStopped, asking, stopping, stale, gaveUp>>
      BY <1>3 DEF Schedule, Rest
    <2>2. \/ (stopped \/ handle # 0 \/ ~requested) /\ UNCHANGED <<armed, handle>>
          \/ \E i \in Timers \ armed : armed' = armed \cup {i} /\ handle' = i
      BY <1>3 DEF Schedule, scheduleRender
    <2>3. RenderTypeOK'
      <3>1. armed' \subseteq Timers /\ handle' \in 0..MaxTimers
        BY <1>t, <1>z, <2>2
      <3> QED BY <1>t, <2>1, <3>1 DEF RenderTypeOK
    <2>4. armed \subseteq armed' /\ (handle' # 0 => armed' # {} \/ handle' = handle) /\ \A kind \in Callbacks : InQueue(kind) => InQueue(kind)'
      BY <2>1, <2>2, QueueKeeps
    <2>5. Timed'
      BY <1>k, <2>1, <2>4 DEF Timed, stopped
    <2>6. requested /\ ~stopped => armed' # {} \/ InQueue("fired")'
      BY <1>k, <2>1, <2>2, <2>4 DEF Timed
    <2>7. Promised' /\ Asked'
      BY <2>1, <2>6 DEF Promised, Asked, Coming, stopped
    <2>8. Urgent' /\ LoopLast' /\ QuietWhenStopped'
      BY <1>k, <2>1, <2>4 DEF Urgent, LoopLast, QuietWhenStopped, stopped
    <2> QED BY <2>3, <2>5, <2>7, <2>8
  <1>4. CASE Immediate
    <2>1. doing = "immediate" /\ immediate' = FALSE /\ UNCHANGED <<callbacks, loopStopped, asking, stopping, stale, gaveUp>>
      BY <1>4 DEF Immediate, Rest
    <2>2. \/ (stopped \/ ~requested) /\ doing' = "nothing" /\ UNCHANGED <<requested, armed, handle>>
          \/ ~stopped /\ armed' = armed \ {handle} /\ handle' = 0 /\ requested' = FALSE /\ doing' = "render"
      BY <1>4 DEF Immediate, cancelRenderTimer
    <2>3. \A kind \in Callbacks : InQueue(kind) => InQueue(kind)'
      BY <2>1, QueueKeeps
    <2>4. RenderTypeOK'
      BY <1>t, <1>z, <2>1, <2>2 DEF RenderTypeOK
    <2>5. Asked' /\ LoopLast' /\ QuietWhenStopped' /\ Urgent'
      BY <2>1, <2>2 DEF Asked, LoopLast, QuietWhenStopped, stopped, Urgent
    <2>6. Promised' /\ Timed'
      BY <1>k, <2>1, <2>2, <2>3 DEF Promised, Timed, stopped
    <2> QED BY <2>4, <2>5, <2>6
  <1>5. CASE Fired
    <2>1. doing = "fired" /\ handle' = 0 /\ UNCHANGED <<immediate, armed, callbacks, loopStopped, asking, stopping, stale, gaveUp>>
      BY <1>5 DEF Fired, Rest
    <2>2. \/ (stopped \/ ~requested) /\ doing' = "nothing" /\ UNCHANGED requested
          \/ ~stopped /\ requested' = FALSE /\ doing' = "renderTimed"
      BY <1>5 DEF Fired
    <2>3. \A kind \in Callbacks : InQueue(kind) => InQueue(kind)'
      BY <2>1, QueueKeeps
    <2>4. RenderTypeOK'
      BY <1>t, <1>z, <2>1, <2>2 DEF RenderTypeOK
    <2>5. Asked' /\ LoopLast' /\ QuietWhenStopped' /\ Promised' /\ Timed'
      BY <2>1, <2>2 DEF Asked, LoopLast, QuietWhenStopped, stopped, Promised, Timed
    <2>6. Urgent'
      BY <1>k, <2>1, <2>2, <2>3 DEF Urgent, stopped
    <2> QED BY <2>4, <2>5, <2>6
  <1>6. CASE BeginFrame
    <2>1. /\ doing \in {"render", "renderTimed"} /\ stale' = (stale /\ stopped)
          /\ UNCHANGED <<requested, immediate, armed, handle, callbacks, loopStopped, asking, stopping, gaveUp>>
      BY <1>6 DEF BeginFrame
    <2>2. \/ stopped /\ doing' \in {"nothing", "recheck"}
          \/ ~stopped /\ doing' \in {"draw", "drawTimed"}
      BY <1>6 DEF BeginFrame
    <2>3. \A kind \in Callbacks : InQueue(kind) => InQueue(kind)'
      BY <2>1, QueueKeeps
    <2>s. stopped' = stopped
      BY <2>1 DEF stopped
    <2>b. stale' \in BOOLEAN /\ (stale' => stopped)
      BY <2>1, Zenon
    <2>4. RenderTypeOK'
      BY <1>t, <2>1, <2>2, <2>b DEF RenderTypeOK
    <2>5. Asked' /\ LoopLast'
      BY <2>1, <2>b, <2>s DEF Asked, LoopLast
    <2>6. QuietWhenStopped'
      BY <2>1, <2>2 DEF QuietWhenStopped, stopped
    <2>7. Promised'
      BY <1>k, <2>1, <2>s, <2>3 DEF Promised, Coming
    <2>8. Urgent' /\ Timed'
      BY <1>k, <2>1, <2>s, <2>3 DEF Urgent, Timed
    <2> QED BY <2>4, <2>5, <2>6, <2>7, <2>8
  <1>7. CASE Drawn
    <2>1. /\ doing \in {"draw", "drawTimed"} /\ doing' = (IF doing = "draw" THEN "nothing" ELSE "recheck")
          /\ UNCHANGED <<requested, immediate, armed, handle, callbacks, loopStopped, asking, stopping, stale, gaveUp>>
      BY <1>7 DEF Drawn, Rest
    <2>3. \A kind \in Callbacks : InQueue(kind) => InQueue(kind)'
      BY <2>1, QueueKeeps
    <2>4. RenderTypeOK'
      BY <1>t, <2>1 DEF RenderTypeOK
    <2>5. Asked' /\ LoopLast' /\ QuietWhenStopped'
      BY <2>1 DEF Asked, LoopLast, stopped, QuietWhenStopped
    <2>7. Promised'
      BY <1>k, <2>1, <2>3 DEF Promised, Coming, stopped
    <2>8. Urgent' /\ Timed'
      BY <1>k, <2>1, <2>3 DEF Urgent, Timed, stopped
    <2> QED BY <2>4, <2>5, <2>7, <2>8
  <1>8. CASE Input
    <2>1. /\ doing = "input" /\ doing' = "nothing" /\ stale' = TRUE /\ requested' = TRUE /\ immediate' = TRUE
          /\ armed' = armed \ {handle} /\ handle' = 0
          /\ UNCHANGED <<loopStopped, asking, stopping, gaveUp>>
          /\ IF immediate THEN UNCHANGED callbacks ELSE Queued("immediate")
      BY <1>8 DEF Input, cancelRenderTimer
    <2>2. /\ callbacks' \in Seq(Callbacks) /\ (~immediate /\ ~loopStopped => InQueue("immediate")')
          /\ \A kind \in Callbacks : InQueue(kind) => InQueue(kind)'
      BY <1>t, <1>k, <2>1, QueueKeeps, QueuedFacts
    <2>3. RenderTypeOK'
      BY <1>t, <1>z, <2>1, <2>2 DEF RenderTypeOK
    <2>4. Urgent'
      <3>1. CASE immediate
        BY <3>1, <1>k, <2>1, <2>2 DEF Urgent, stopped
      <3>2. CASE ~immediate
        BY <3>2, <2>1, <2>2 DEF Urgent, stopped, LoopLast
      <3> QED BY <3>1, <3>2
    <2>5. Promised'
      BY <2>1, <2>4 DEF Urgent, Promised, Coming
    <2>6. Asked' /\ LoopLast' /\ QuietWhenStopped' /\ Timed'
      BY <2>1 DEF Asked, LoopLast, stopped, QuietWhenStopped, Timed
    <2> QED BY <2>3, <2>4, <2>5, <2>6
  <1>9. CASE StopBase \/ StopLoop \/ TornDown
    <2>1. stopped' /\ (loopStopped' => stopped')
      BY <1>9 DEF StopBase, StopLoop, TornDown, stopped
    <2>2. QuietWhenStopped'
      BY <1>9 DEF StopBase, StopLoop, TornDown, QuietWhenStopped
    <2>3. RenderTypeOK'
      <3>1. CASE StopBase
        BY <3>1, <1>t, <1>z DEF StopBase, cancelRenderTimer, RenderTypeOK
      <3>2. CASE StopLoop
        BY <3>2, <1>t DEF StopLoop, RenderTypeOK
      <3>3. CASE TornDown
        <4>1. gaveUp' \in BOOLEAN
          BY <3>3, Zenon DEF TornDown
        <4> QED BY <3>3, <4>1, <1>t DEF TornDown, RenderTypeOK
      <3> QED BY <1>9, <3>1, <3>2, <3>3
    <2> QED BY <2>1, <2>2, <2>3 DEF Asked, Promised, Urgent, Timed, LoopLast
  <1>10. ASSUME NEW r \in Requesters, RequestRender(r) PROVE RenderInv'
    <2>1. /\ asking[r] = "no" /\ stale' = TRUE /\ requested' = TRUE
          /\ asking' = [asking EXCEPT ![r] = IF requested THEN "no" ELSE "schedule"]
          /\ UNCHANGED <<immediate, armed, handle, callbacks, loopStopped, doing, stopping, gaveUp>>
      BY <1>10 DEF RequestRender
    <2>2. /\ asking' \in [Requesters -> {"no", "schedule", "immediate"}]
          /\ asking'[r] = (IF requested THEN "no" ELSE "schedule")
          /\ \A q \in Requesters : q # r => asking'[q] = asking[q]
      BY <1>t, <2>1, AskingSet
    <2>3. \A kind \in Callbacks : InQueue(kind) => InQueue(kind)'
      BY <2>1, QueueKeeps
    <2>4. RenderTypeOK'
      BY <1>t, <2>1, <2>2 DEF RenderTypeOK
    <2>5. Promised'
      BY <1>k, <2>1, <2>2, <2>3 DEF Promised, Coming, stopped
    <2>6. Urgent'
      BY <1>k, <2>1, <2>2, <2>3 DEF Urgent, stopped
    <2>7. Asked' /\ LoopLast' /\ QuietWhenStopped' /\ Timed'
      BY <1>k, <2>1, <2>3 DEF Asked, LoopLast, stopped, QuietWhenStopped, Timed
    <2> QED BY <2>4, <2>5, <2>6, <2>7
  <1>11. ASSUME NEW r \in Requesters, requestImmediateRender(r) PROVE RenderInv'
    <2>1. /\ asking[r] = "no" /\ stale' = TRUE /\ requested' = TRUE /\ immediate' = TRUE
          /\ armed' = armed \ {handle} /\ handle' = 0
          /\ asking' = [asking EXCEPT ![r] = IF immediate THEN "no" ELSE "immediate"]
          /\ UNCHANGED <<callbacks, loopStopped, doing, stopping, gaveUp>>
      BY <1>11 DEF requestImmediateRender, cancelRenderTimer
    <2>2. /\ asking' \in [Requesters -> {"no", "schedule", "immediate"}]
          /\ asking'[r] = (IF immediate THEN "no" ELSE "immediate")
          /\ \A q \in Requesters : q # r => asking'[q] = asking[q]
      BY <1>t, <2>1, AskingSet
    <2>3. \A kind \in Callbacks : InQueue(kind) => InQueue(kind)'
      BY <2>1, QueueKeeps
    <2>4. RenderTypeOK'
      BY <1>t, <1>z, <2>1, <2>2 DEF RenderTypeOK
    <2>6. Urgent'
      BY <1>k, <2>1, <2>2, <2>3 DEF Urgent, stopped
    <2>5. Promised'
      BY <2>1, <2>6 DEF Urgent, Promised, Coming
    <2>7. Asked' /\ LoopLast' /\ QuietWhenStopped' /\ Timed'
      BY <2>1 DEF Asked, LoopLast, stopped, QuietWhenStopped, Timed
    <2> QED BY <2>4, <2>5, <2>6, <2>7
  <1>12. ASSUME NEW r \in Requesters, Defer(r) PROVE RenderInv'
    <2>1. /\ asking[r] # "no" /\ Queued(asking[r]) /\ asking' = [asking EXCEPT ![r] = "no"]
          /\ UNCHANGED <<requested, immediate, armed, handle, loopStopped, doing, stopping, stale, gaveUp>>
      BY <1>12 DEF Defer
    <2>2. asking[r] \in {"schedule", "immediate"} /\ asking[r] \in Callbacks
      BY <1>t, <1>k, <2>1
    <2>3. /\ asking' \in [Requesters -> {"no", "schedule", "immediate"}] /\ asking'[r] = "no"
          /\ \A q \in Requesters : q # r => asking'[q] = asking[q]
      BY <1>t, <2>1, AskingSet
    <2>4. /\ callbacks' \in Seq(Callbacks)
          /\ \A kind \in Callbacks : InQueue(kind) => InQueue(kind)'
      BY <1>t, <2>1, <2>2, QueuedFacts
    <2>5. ~loopStopped => \/ asking[r] = "schedule" /\ InQueue("schedule")'
                          \/ asking[r] = "immediate" /\ InQueue("immediate")'
      <3>1. CASE asking[r] = "schedule"
        <4>1. Queued("schedule")
          BY <2>1, <3>1
        <4> QED BY <1>t, <1>k, <3>1, <4>1, QueuedFacts
      <3>2. CASE asking[r] = "immediate"
        <4>1. Queued("immediate")
          BY <2>1, <3>2
        <4> QED BY <1>t, <1>k, <3>2, <4>1, QueuedFacts
      <3> QED BY <2>2, <3>1, <3>2
    <2>6. RenderTypeOK'
      BY <1>t, <2>1, <2>3, <2>4 DEF RenderTypeOK
    <2>7. Promised'
      BY <1>k, <2>1, <2>5 DEF Promised, Coming, stopped, LoopLast
    <2>8. Urgent'
      BY <1>k, <2>1, <2>3, <2>4, <2>5 DEF Urgent, stopped, LoopLast
    <2>9. Asked' /\ LoopLast' /\ QuietWhenStopped' /\ Timed'
      BY <1>k, <2>1, <2>4 DEF Asked, LoopLast, stopped, QuietWhenStopped, Timed
    <2> QED BY <2>6, <2>7, <2>8, <2>9
  <1>13. ASSUME NEW i \in Timers, Fire(i) PROVE RenderInv'
    <2>1. /\ i \in armed /\ armed' = armed \ {i} /\ Queued("fired")
          /\ UNCHANGED <<requested, immediate, handle, loopStopped, doing, asking, stopping, stale, gaveUp>>
      BY <1>13 DEF Fire
    <2>2. /\ callbacks' \in Seq(Callbacks) /\ (~loopStopped => InQueue("fired")')
          /\ \A kind \in Callbacks : InQueue(kind) => InQueue(kind)'
      BY <1>t, <1>k, <2>1, QueuedFacts
    <2>3. RenderTypeOK'
      BY <1>t, <2>1, <2>2 DEF RenderTypeOK
    <2>4. Promised' /\ Timed'
      BY <2>1, <2>2 DEF Promised, Coming, Timed, stopped, LoopLast
    <2>5. Urgent'
      BY <1>k, <2>1, <2>2 DEF Urgent, stopped
    <2>6. Asked' /\ LoopLast' /\ QuietWhenStopped'
      BY <2>1 DEF Asked, LoopLast, stopped, QuietWhenStopped
    <2> QED BY <2>3, <2>4, <2>5, <2>6
  <1>14. CASE UNCHANGED renderVars
    <2>1. UNCHANGED <<requested, immediate, armed, handle, callbacks, loopStopped, doing, asking, stopping, stale, gaveUp>>
      BY <1>14 DEF renderVars
    <2>2. RenderTypeOK'
      BY <1>t, <2>1 DEF RenderTypeOK
    <2>3. Asked' /\ Promised' /\ Urgent' /\ Timed' /\ LoopLast' /\ QuietWhenStopped'
      BY <2>1 DEF Asked, Promised, Coming, Urgent, Timed, LoopLast, QuietWhenStopped, stopped, InQueue
    <2> QED BY <2>2, <2>3
  <1> QED
    BY <1>1, <1>2, <1>3, <1>4, <1>5, <1>6, <1>7, <1>8, <1>9, <1>10, <1>11, <1>12, <1>13, <1>14 DEF RenderNext

\* A change that was asked for has a frame on its way (internal/tui/base.go),
\* however requests, timers and callbacks interleave, and nothing is drawn once
\* the terminal was given back.
THEOREM FramesAreDrawn == RenderSpec => []FramesKept
  <1>1. RenderInv => FramesKept
    <2> SUFFICES ASSUME RenderInv PROVE FramesKept
      OBVIOUS
    <2> QED BY DEF RenderInv, Asked, Promised, Coming, InQueue, FramesKept, ChangeDrawn
  <1> QED BY <1>1, RenderStarts, RenderMoves, PTL DEF RenderSpec
=============================================================================
