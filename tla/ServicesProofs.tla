--------------------------- MODULE ServicesProofs ---------------------------
(***************************************************************************)
(* Proofs about the services that run beside a chat: the cache warmer, the  *)
(* remote screen, the saved credentials, the goal, the files of sessions, and *)
(* their titles and shell commands, and dictation.                          *)
(***************************************************************************)
EXTENDS MCServices, ConnectionProofs, SequenceTheorems, FunctionTheorems, FiniteSetTheorems, NaturalsInduction, WellFoundedInduction, TLAPS

-----------------------------------------------------------------------------
(* Sequences that grow and shrink.                                          *)
LEMMA AppendRange ==
  ASSUME NEW S, NEW s \in Seq(S), NEW e \in S
  PROVE  /\ Append(s, e) \in Seq(S) /\ Range(Append(s, e)) = Range(s) \cup {e}
         /\ DOMAIN Append(s, e) = DOMAIN s \cup {Len(s) + 1} /\ Append(s, e)[Len(s) + 1] = e
         /\ \A i \in DOMAIN s : i # Len(s) + 1 /\ Append(s, e)[i] = s[i]
  <1>1. /\ Append(s, e) \in Seq(S) /\ DOMAIN s = 1..Len(s) /\ DOMAIN Append(s, e) = 1..(Len(s) + 1) /\ Len(s) \in Nat
        /\ Append(s, e)[Len(s) + 1] = e /\ \A i \in DOMAIN s : Append(s, e)[i] = s[i]
    OBVIOUS
  <1>2. DOMAIN Append(s, e) = DOMAIN s \cup {Len(s) + 1} /\ \A i \in DOMAIN s : i # Len(s) + 1
    BY <1>1
  <1>3. Range(Append(s, e)) = Range(s) \cup {e}
    BY <1>1, <1>2 DEF Range
  <1> QED BY <1>1, <1>2, <1>3

\* What is left of a sequence without one of its places.
LEMMA RemoveAtFacts ==
  ASSUME NEW S, NEW s \in Seq(S), NEW i \in DOMAIN s
  PROVE  /\ RemoveAt(s, i) \in Seq(S) /\ Len(RemoveAt(s, i)) = Len(s) - 1 /\ Len(s) \in Nat \ {0} /\ i \in 1..Len(s)
         /\ DOMAIN RemoveAt(s, i) = 1..(Len(s) - 1)
         /\ \A j \in 1..(Len(s) - 1) : RemoveAt(s, i)[j] = IF j < i THEN s[j] ELSE s[j + 1]
  <1> DEFINE n == Len(s)
             front == SubSeq(s, 1, i - 1)
             back == SubSeq(s, i + 1, n)
             rest == RemoveAt(s, i)
  <1>1. n \in Nat /\ i \in 1..n /\ DOMAIN s = 1..n /\ \A j \in 1..n : s[j] \in S
    OBVIOUS
  <1>2. front \in Seq(S) /\ Len(front) = i - 1 /\ \A j \in 1..(i - 1) : front[j] = s[j]
    BY <1>1, SubSeqProperties
  <1>3. back \in Seq(S) /\ Len(back) = n - i /\ \A j \in 1..(n - i) : back[j] = s[j + i]
    <2>1. back \in Seq(S) /\ Len(back) = (IF i + 1 <= n THEN n - (i + 1) + 1 ELSE 0)
          /\ \A j \in 1..Len(back) : back[j] = s[(i + 1) + j - 1]
      BY <1>1, SubSeqProperties
    <2>2. Len(back) = n - i
      BY <1>1, <2>1
    <2>3. \A j \in 1..(n - i) : (i + 1) + j - 1 = j + i
      BY <1>1
    <2> QED BY <2>1, <2>2, <2>3
  <1>4. rest = front \o back
    BY DEF RemoveAt
  <1> HIDE DEF front, back, rest
  <1>5. rest \in Seq(S) /\ Len(rest) = n - 1 /\ DOMAIN rest = 1..(n - 1)
        /\ \A j \in 1..(n - 1) : rest[j] = IF j < i THEN s[j] ELSE s[j + 1]
    <2>0. rest \in Seq(S) /\ Len(rest) = Len(front) + Len(back)
          /\ \A j \in 1..(Len(front) + Len(back)) : rest[j] = IF j <= Len(front) THEN front[j] ELSE back[j - Len(front)]
      BY <1>2, <1>3, <1>4, ConcatProperties
    <2>1. rest \in Seq(S) /\ Len(rest) = n - 1 /\ DOMAIN rest = 1..(n - 1)
      BY <1>1, <1>2, <1>3, <2>0
    <2>2. ASSUME NEW j \in 1..(n - 1) PROVE rest[j] = IF j < i THEN s[j] ELSE s[j + 1]
      <3>1. rest[j] = IF j <= i - 1 THEN front[j] ELSE back[j - (i - 1)]
        BY <1>1, <1>2, <1>3, <2>0
      <3>2. CASE j < i
        BY <1>1, <1>2, <3>1, <3>2
      <3>3. CASE ~(j < i)
        <4>1. j - (i - 1) \in 1..(n - i) /\ (j - (i - 1)) + i = j + 1
          BY <1>1, <3>3
        <4> QED BY <1>1, <1>3, <3>1, <3>3, <4>1
      <3> QED BY <3>2, <3>3
    <2> QED BY <1>1, <2>1, <2>2
  <1> QED BY <1>1, <1>5 DEF rest

-----------------------------------------------------------------------------
(* The cache warmer.                                                        *)
\* The refreshes that no stop made stale: fired, or calling the provider.
Chain == {r \in Refreshes : refresh[r] \in {"fired", "calling"} /\ Current(r)}

\* A serial is given when the timer is set, so none is ahead of the warmer's;
\* a set timer has the latest, and a closed warmer has no timer.
SerialsBehind ==
  /\ scheduled <= serial
  /\ \A r \in Refreshes : given[r] <= serial
  /\ timer # "none" => scheduled = serial /\ ~closed

\* Making the serial stale cancels what calls the provider: a refresh that
\* calls it uncancelled is current.
CallsCurrent == \A r \in Calling : Current(r)

\* The armed timer and the current refreshes are one chain.
OneAtATime ==
  /\ \A q, r \in Chain : q = r
  /\ timer = "armed" => Chain = {}

\* A request of the loop's run finds the chain cut, and nobody but an
\* abandoned run starts another one beside it.
CutByRequest ==
  loop["current"] = "streaming" /\ ~superseded => Chain = {} /\ timer = "none"

WarmerInv == /\ WarmerTypeOK
        /\ SerialsBehind
        /\ CallsCurrent
        /\ OneAtATime
        /\ Calling \subseteq {cancel}
        /\ CutByRequest

LEMMA InitWarmer == WarmerInit => WarmerInv
  <1> SUFFICES ASSUME WarmerInit PROVE WarmerInv
    OBVIOUS
  <1>1. WarmerTypeOK
    BY DEF WarmerInit, WarmerTypeOK
  <1>2. Chain = {} /\ Calling = {}
    BY DEF WarmerInit, Chain, Calling
  <1>3. SerialsBehind
    BY DEF WarmerInit, SerialsBehind
  <1> QED
    BY <1>1, <1>2, <1>3 DEF WarmerInv, CallsCurrent, OneAtATime, CutByRequest, WarmerInit

\* A step that raises the serial, or closes the warmer with it, and stops what
\* is in flight, leaves no chain and nothing calling.
LEMMA Invalidated ==
  ASSUME WarmerInv, serial' = serial + 1, cancel' = 0, live' = live \ {cancel}, Goroutines' = Goroutines
  PROVE  Chain' = {} /\ Calling' = {} /\ \A r \in Refreshes : given'[r] <= serial'
  <1>1. \A r \in Refreshes : given[r] <= serial /\ given[r] \in Nat /\ serial \in Nat
    BY DEF WarmerInv, WarmerTypeOK, SerialsBehind
  <1>2. \A r \in Refreshes : given'[r] = given[r] /\ given'[r] < serial' /\ given'[r] # serial'
    BY <1>1 DEF Goroutines
  <1>3. Chain' = {}
    BY <1>2 DEF Chain, Current
  <1>4. Calling' = {}
    BY DEF WarmerInv, Calling, Goroutines
  <1> QED BY <1>1, <1>2, <1>3, <1>4

\* Invalidating steps of the loop and of the owner, whatever they do to the
\* loop's runs.
LEMMA InvalidateInv ==
  ASSUME WarmerInv, Invalidate, Goroutines' = Goroutines, scheduled' = scheduled,
         closed' \in BOOLEAN, idle' \in BOOLEAN, superseded' \in BOOLEAN,
         loop' \in [Loops -> {"none", "between", "streaming"}]
  PROVE  WarmerInv'
  <1>1. Chain' = {} /\ Calling' = {} /\ \A r \in Refreshes : given'[r] <= serial'
    BY Invalidated DEF Invalidate, stopLocked
  <1>2. WarmerTypeOK'
    BY DEF WarmerInv, WarmerTypeOK, Invalidate, stopLocked, Goroutines
  <1>3. SerialsBehind'
    BY <1>1 DEF WarmerInv, WarmerTypeOK, SerialsBehind, Invalidate, stopLocked
  <1> QED
    BY <1>1, <1>2, <1>3 DEF WarmerInv, CallsCurrent, OneAtATime, CutByRequest, Invalidate, stopLocked

LEMMA BeginRequestInv == ASSUME WarmerInv, BeginRequest PROVE WarmerInv'
  <1>1. loop' \in [Loops -> {"none", "between", "streaming"}] /\ closed' \in BOOLEAN /\ idle' \in BOOLEAN
    BY DEF WarmerInv, WarmerTypeOK, BeginRequest
  <1> QED BY <1>1, InvalidateInv DEF BeginRequest, Goroutines

LEMMA NotWarmedInv == ASSUME WarmerInv, NEW l \in Loops, NotWarmed(l) PROVE WarmerInv'
  <1>1. /\ loop' \in [Loops -> {"none", "between", "streaming"}]
        /\ closed' \in BOOLEAN /\ idle' \in BOOLEAN /\ superseded' \in BOOLEAN
    BY DEF WarmerInv, WarmerTypeOK, NotWarmed
  <1> QED BY <1>1, InvalidateInv DEF NotWarmed, Goroutines

LEMMA StopInv == ASSUME WarmerInv, Stop PROVE WarmerInv'
  <1>1. /\ loop' \in [Loops -> {"none", "between", "streaming"}]
        /\ closed' \in BOOLEAN /\ idle' \in BOOLEAN /\ superseded' \in BOOLEAN
    BY DEF WarmerInv, WarmerTypeOK, Stop
  <1> QED BY <1>1, InvalidateInv DEF Stop, Goroutines

LEMMA CloseInv == ASSUME WarmerInv, Close PROVE WarmerInv'
  <1>1. /\ loop' \in [Loops -> {"none", "between", "streaming"}]
        /\ closed' \in BOOLEAN /\ idle' \in BOOLEAN /\ superseded' \in BOOLEAN
    BY DEF WarmerInv, WarmerTypeOK, Close
  <1> QED BY <1>1, InvalidateInv DEF Close, Goroutines

\* A run that only changes its own place.
LEMMA LoopStepInv ==
  ASSUME WarmerInv, UNCHANGED <<timer, scheduled, cancel, serial, closed, Goroutines, live, superseded>>, idle' \in BOOLEAN,
         loop' \in [Loops -> {"none", "between", "streaming"}],
         loop'["current"] = "streaming" => loop["current"] = "streaming"
  PROVE  WarmerInv'
  <1>1. WarmerTypeOK'
    BY DEF WarmerInv, WarmerTypeOK, Goroutines
  <1>2. Chain' = Chain /\ Calling' = Calling /\ (\A r \in Refreshes : Current(r)' <=> Current(r))
    BY DEF Chain, Calling, Current, Goroutines
  <1>3. SerialsBehind' /\ OneAtATime' /\ CutByRequest'
    BY <1>2 DEF WarmerInv, SerialsBehind, OneAtATime, CutByRequest, Goroutines
  <1>4. CallsCurrent'
    BY <1>2 DEF WarmerInv, CallsCurrent, Calling, Current, Goroutines
  <1> QED BY <1>1, <1>2, <1>3, <1>4 DEF WarmerInv

LEMMA AbandonInv == ASSUME WarmerInv, Abandon PROVE WarmerInv'
  <1>1. loop' \in [Loops -> {"none", "between", "streaming"}] /\ loop'["current"] = "none" /\ idle' \in BOOLEAN
    BY DEF WarmerInv, WarmerTypeOK, Abandon, Loops
  <1> QED BY <1>1, LoopStepInv DEF Abandon, Goroutines

LEMMA RequestFailsInv == ASSUME WarmerInv, NEW l \in Loops, RequestFails(l) PROVE WarmerInv'
  <1>1. /\ loop' \in [Loops -> {"none", "between", "streaming"}] /\ idle' \in BOOLEAN
        /\ loop'["current"] = "streaming" => loop["current"] = "streaming"
    BY DEF WarmerInv, WarmerTypeOK, RequestFails, Loops
  <1> QED BY <1>1, LoopStepInv DEF RequestFails, Goroutines

LEMMA settleInv == ASSUME WarmerInv, NEW l \in Loops, settle(l) PROVE WarmerInv'
  <1>1. /\ loop' \in [Loops -> {"none", "between", "streaming"}]
        /\ closed' \in BOOLEAN /\ idle' \in BOOLEAN /\ superseded' \in BOOLEAN
        /\ loop'["current"] = "streaming" => loop["current"] = "streaming"
    BY DEF WarmerInv, WarmerTypeOK, settle, Loops
  <1>2. CASE Invalidate
    BY <1>1, <1>2, InvalidateInv DEF settle, Goroutines
  <1>3. CASE UNCHANGED <<timer, cancel, serial, live>>
    BY <1>1, <1>3, LoopStepInv DEF settle, Goroutines
  <1> QED BY <1>2, <1>3 DEF settle

\* start: what was in flight is cancelled, and at most a timer follows it.
LEMMA startInv == ASSUME WarmerInv, NEW l \in Loops, start(l) PROVE WarmerInv'
  <1>1. /\ loop' \in [Loops -> {"none", "between", "streaming"}]
        /\ loop'["current"] = "streaming" => loop["current"] = "streaming"
    BY DEF WarmerInv, WarmerTypeOK, start, Loops
  <1>2. CASE stopLocked /\ UNCHANGED <<scheduled, serial, idle, superseded>>
    <2>1. WarmerTypeOK'
      BY <1>1, <1>2 DEF WarmerInv, WarmerTypeOK, start, stopLocked, Goroutines
    <2>2. Chain' = Chain /\ Calling' = {}
      BY <1>2 DEF WarmerInv, Chain, Calling, Current, start, stopLocked, Goroutines
    <2>3. SerialsBehind'
      BY <1>2 DEF WarmerInv, SerialsBehind, start, stopLocked, Goroutines
    <2> QED
      BY <1>1, <1>2, <2>1, <2>2, <2>3 DEF WarmerInv, CallsCurrent, OneAtATime, CutByRequest, stopLocked
  <1>3. CASE /\ ~closed /\ serial' = serial + 1 /\ idle' = FALSE /\ cancel' = 0 /\ live' = live \ {cancel}
             /\ scheduleFresh(serial + 1) /\ superseded' = (superseded \/ loop'["current"] = "streaming")
    <2>1. Chain' = {} /\ Calling' = {} /\ \A r \in Refreshes : given'[r] <= serial'
      BY <1>3, Invalidated DEF start, Goroutines
    <2>2. WarmerTypeOK'
      <3>1. superseded' \in BOOLEAN
        BY <1>3, Zenon
      <3>2. timer' \in {"none", "armed", "fired"} /\ scheduled' \in Nat /\ serial' \in Nat
        BY <1>3 DEF WarmerInv, WarmerTypeOK, scheduleFresh
      <3> QED
        BY <1>1, <1>3, <3>1, <3>2 DEF WarmerInv, WarmerTypeOK, start, Goroutines
    <2>3. SerialsBehind'
      BY <1>3, <2>1 DEF WarmerInv, WarmerTypeOK, SerialsBehind, start, scheduleFresh
    <2>4. CutByRequest'
      BY <1>3 DEF CutByRequest
    <2> QED
      BY <2>1, <2>2, <2>3, <2>4 DEF WarmerInv, CallsCurrent, OneAtATime
  <1> QED BY <1>2, <1>3 DEF start

\* The timer's function is the chain from here on.
LEMMA FireInv == ASSUME WarmerInv, NEW r \in Refreshes, Fire(r) PROVE WarmerInv'
  <1>1. WarmerTypeOK'
    BY DEF WarmerInv, WarmerTypeOK, Fire
  <1>2. Chain' \subseteq {r} /\ Calling' = Calling
    BY DEF WarmerInv, WarmerTypeOK, OneAtATime, Chain, Calling, Current, Fire
  <1>3. SerialsBehind'
    BY DEF WarmerInv, WarmerTypeOK, SerialsBehind, Fire
  <1>4. CallsCurrent'
    BY DEF WarmerInv, WarmerTypeOK, CallsCurrent, Calling, Current, Fire
  <1>5. CutByRequest'
    BY DEF WarmerInv, CutByRequest, Fire
  <1> QED
    BY <1>1, <1>2, <1>3, <1>4, <1>5 DEF WarmerInv, OneAtATime, Fire

LEMMA StaleInv == ASSUME WarmerInv, NEW r \in Refreshes, Stale(r) PROVE WarmerInv'
  <1>1. WarmerTypeOK'
    BY DEF WarmerInv, WarmerTypeOK, Stale
  <1>2. Chain' = Chain /\ Calling' \subseteq Calling
    BY DEF WarmerInv, WarmerTypeOK, Chain, Calling, Current, Stale
  <1>3. SerialsBehind' /\ CallsCurrent'
    BY <1>2 DEF WarmerInv, SerialsBehind, CallsCurrent, Current, Stale
  <1> QED
    BY <1>1, <1>2, <1>3 DEF WarmerInv, OneAtATime, CutByRequest, Stale

\* Nothing else calls the provider when the one current refresh begins to.
LEMMA CallInv == ASSUME WarmerInv, NEW r \in Refreshes, Call(r) PROVE WarmerInv'
  <1>1. WarmerTypeOK'
    BY DEF WarmerInv, WarmerTypeOK, Call
  <1>2. r \in Chain /\ r \notin Calling
    BY DEF Chain, Calling, Call
  <1>3. Calling \subseteq Chain
    BY DEF WarmerInv, WarmerTypeOK, CallsCurrent, Chain, Calling
  <1>4. Calling = {}
    BY <1>2, <1>3 DEF WarmerInv, OneAtATime
  <1>5. Chain' = Chain /\ Calling' \subseteq {r} /\ Current(r)'
    BY <1>4 DEF WarmerInv, WarmerTypeOK, Chain, Calling, Current, Call
  <1>6. SerialsBehind'
    BY DEF WarmerInv, SerialsBehind, Call
  <1>7. OneAtATime' /\ CutByRequest'
    BY <1>2, <1>5 DEF WarmerInv, OneAtATime, CutByRequest, Call
  <1> QED
    BY <1>1, <1>5, <1>6, <1>7 DEF WarmerInv, CallsCurrent, Call

LEMMA RefuseInv == ASSUME WarmerInv, NEW r \in Refreshes, Refuse(r) PROVE WarmerInv'
  <1>1. WarmerTypeOK'
    BY DEF WarmerInv, WarmerTypeOK, Refuse, stopLocked
  <1>2. Chain' \subseteq Chain /\ Calling' = {}
    BY DEF WarmerInv, WarmerTypeOK, Chain, Calling, Current, Refuse, stopLocked
  <1>3. SerialsBehind'
    BY DEF WarmerInv, SerialsBehind, Refuse, stopLocked
  <1> QED
    BY <1>1, <1>2, <1>3 DEF WarmerInv, CallsCurrent, OneAtATime, CutByRequest, Refuse, stopLocked

\* The refresh that ends was the whole chain, so what it arms is alone.
LEMMA RescheduleInv == ASSUME WarmerInv, NEW r \in Refreshes, Reschedule(r) PROVE WarmerInv'
  <1>1. WarmerTypeOK'
    BY DEF WarmerInv, WarmerTypeOK, Reschedule, scheduleFresh
  <1>2. r \in Chain /\ Chain' = Chain \ {r} /\ Calling' \subseteq Calling \ {r}
    BY DEF WarmerInv, WarmerTypeOK, Chain, Calling, Current, Reschedule
  <1>3. Chain' = {} /\ Calling \subseteq Chain
    BY <1>2 DEF WarmerInv, WarmerTypeOK, OneAtATime, CallsCurrent, Chain, Calling
  <1>4. Calling' = {}
    BY <1>2, <1>3 DEF WarmerInv, OneAtATime
  <1>5. SerialsBehind'
    BY DEF WarmerInv, WarmerTypeOK, SerialsBehind, Current, Reschedule, scheduleFresh
  <1>6. CutByRequest'
    BY <1>2 DEF WarmerInv, CutByRequest, Reschedule
  <1> QED
    BY <1>1, <1>3, <1>4, <1>5, <1>6 DEF WarmerInv, CallsCurrent, OneAtATime

LEMMA NextWarmer == WarmerInv /\ [WarmerNext]_warmerVars => WarmerInv'
  <1> SUFFICES ASSUME WarmerInv, [WarmerNext]_warmerVars PROVE WarmerInv'
    OBVIOUS
  <1>1. CASE BeginRequest BY <1>1, BeginRequestInv
  <1>2. CASE Abandon BY <1>2, AbandonInv
  <1>3. CASE Stop BY <1>3, StopInv
  <1>4. CASE Close BY <1>4, CloseInv
  <1>5. CASE \E l \in Loops : RequestFails(l) \/ NotWarmed(l) \/ start(l) \/ settle(l)
    BY <1>5, RequestFailsInv, NotWarmedInv, startInv, settleInv
  <1>6. CASE \E r \in Refreshes : Fire(r) \/ Stale(r) \/ Call(r) \/ Refuse(r) \/ Reschedule(r)
    BY <1>6, FireInv, StaleInv, CallInv, RefuseInv, RescheduleInv
  <1>7. CASE UNCHANGED warmerVars
    <2>1. loop' = loop /\ idle' \in BOOLEAN /\ loop' \in [Loops -> {"none", "between", "streaming"}]
      BY <1>7 DEF WarmerInv, WarmerTypeOK, warmerVars
    <2> QED BY <1>7, <2>1, LoopStepInv DEF warmerVars, Goroutines
  <1> QED BY <1>1, <1>2, <1>3, <1>4, <1>5, <1>6, <1>7 DEF WarmerNext

\* The strengthening holds in every reachable state.
THEOREM WarmerInvariance == WarmerSpec => []WarmerInv
  BY InitWarmer, NextWarmer, PTL DEF WarmerSpec

\* Type correctness, whatever the numbers of refreshes and serials.
THEOREM WarmerTyped == WarmerSpec => []WarmerTypeOK
  <1>1. WarmerInv => WarmerTypeOK
    BY DEF WarmerInv
  <1> QED BY <1>1, WarmerInvariance, PTL

\* cache_warmer.go:25-27: the warmer keeps the latest prefix alive, once, and
\* nothing beside a real request or after Close: what a stale refresh does
\* late never undoes what the warmer was last told.
THEOREM LatestPrefixOnly == WarmerSpec => []RefreshesAsTold
  <1>1. WarmerInv => RefreshesAsTold
    <2> SUFFICES ASSUME WarmerInv PROVE RefreshesAsTold
      OBVIOUS
    <2>1. OneChain
      BY DEF WarmerInv, OneAtATime, OneChain, Chain
    <2>2. Calling \subseteq Chain
      BY DEF WarmerInv, WarmerTypeOK, CallsCurrent, Chain, Calling
    <2>3. ASSUME closed PROVE Chain = {} /\ timer = "none"
      BY <2>3 DEF WarmerInv, SerialsBehind, Chain, Current
    <2>4. (loop["current"] = "streaming" /\ ~superseded) \/ closed => Chain = {} /\ timer = "none"
      BY <2>3 DEF WarmerInv, CutByRequest
    <2>5. QuietWhenReplaced
      BY <2>2, <2>4 DEF QuietWhenReplaced, Chain
    <2> QED BY <2>1, <2>5 DEF RefreshesAsTold
  <1> QED BY <1>1, WarmerInvariance, PTL

Writes == [ScreenRows -> Nat]
ClientRecords == [at : {"gone", "attached", "left"}, size : ScreenSizes, queue : Seq(Writes), shows : Writes, partial : BOOLEAN]

\* The terminal and its renderer: types, and queues within their limit.
TerminalTyped ==
  /\ term \in [clients : [1..MaxClients -> ClientRecords], active : 0..MaxClients, next : Nat \ {0}, local : ScreenSizes]
  /\ \A c \in 1..MaxClients : Len(term.clients[c].queue) <= ClientQueue
  /\ page \in Writes /\ drawn \in [rows : Writes, size : ScreenSizes]
  /\ frame \in [wanted : BOOLEAN, size : ScreenSizes \cup {NoSize}]

\* Somebody is active exactly when somebody is attached, and it is one of them.
ActiveAttached ==
  /\ term.active = 0 => Attached = {}
  /\ term.active # 0 => term.active \in Attached

\* A frame that was not asked for anew has the size that is in use, the one
\* under way like the last one, which shows the page.
FrameCurrent ==
  ~frame.wanted =>
    IF frame.size = NoSize THEN drawn.size = SizeOf(term) /\ drawn.rows = page ELSE frame.size = SizeOf(term)

\* The last thing a browser is told of a row, read or still waiting, is the
\* row as it was drawn last.
ToldLast(client, r) ==
  \E i \in 0..Len(client.queue) :
    /\ (IF i = 0 THEN client.shows ELSE client.queue[i])[r] = drawn.rows[r] + 1
    /\ \A j \in i + 1..Len(client.queue) : client.queue[j][r] = 0 /\ client.queue[j] # BlankPage
RowsTold == \A c \in Attached : ~term.clients[c].partial => \A r \in ScreenRows : ToldLast(term.clients[c], r)

TerminalInv == TerminalTyped /\ ActiveAttached /\ FrameCurrent /\ RowsTold

LEMMA RecordFacts ==
  ASSUME TerminalTyped
  PROVE  /\ BlankPage \in Writes /\ Gone \in ClientRecords
         /\ \A c \in 1..MaxClients : term.clients[c] \in ClientRecords
         /\ SizeOf(term) \in ScreenSizes
  <1>1. BlankPage \in Writes
    BY DEF BlankPage, Writes
  <1>2. Gone \in ClientRecords
    BY <1>1, EmptySeq, RemoteAssumption DEF Gone, ClientRecords
  <1>3. \A c \in 1..MaxClients : term.clients[c] \in ClientRecords /\ term.clients[c].size \in ScreenSizes
    BY DEF TerminalTyped, ClientRecords
  <1>4. term.active # 0 => term.active \in 1..MaxClients
    BY RemoteAssumption DEF TerminalTyped
  <1>5. term.local \in ScreenSizes
    BY DEF TerminalTyped
  <1>6. SizeOf(term) \in ScreenSizes
    BY <1>3, <1>4, <1>5 DEF SizeOf
  <1> QED BY <1>1, <1>2, <1>3, <1>6

LEMMA InitTerminal == RemoteInit => TerminalInv
  <1> SUFFICES ASSUME RemoteInit PROVE TerminalInv
    OBVIOUS
  <1>1. BlankPage \in Writes
    BY DEF BlankPage, Writes
  <1>2. Gone \in ClientRecords /\ Gone.at = "gone" /\ Gone.queue = <<>>
    BY <1>1, EmptySeq, RemoteAssumption DEF Gone, ClientRecords
  <1>3. PICK size \in ScreenSizes :
          /\ term = [clients |-> [c \in 1..MaxClients |-> Gone], active |-> 0, next |-> 1, local |-> size]
          /\ drawn = [rows |-> BlankPage, size |-> size]
    BY DEF RemoteInit
  <1>4. page = BlankPage /\ frame = [wanted |-> FALSE, size |-> NoSize]
    BY DEF RemoteInit
  <1>5. TerminalTyped
    BY <1>1, <1>2, <1>3, <1>4, RemoteAssumption, EmptySeq DEF TerminalTyped
  <1>6. Attached = {}
    BY <1>2, <1>3 DEF Attached
  <1>7. FrameCurrent
    BY <1>3, <1>4 DEF FrameCurrent, SizeOf
  <1> QED
    BY <1>3, <1>5, <1>6, <1>7 DEF TerminalInv, ActiveAttached, RowsTold

\* What was drawn and what a browser was told stay when its record does.
LEMMA RowsStay ==
  ASSUME RowsTold, drawn' = drawn,
         \A c \in Attached' : term'.clients[c].partial
           \/ (c \in Attached /\ /\ term'.clients[c].queue = term.clients[c].queue
                                 /\ term'.clients[c].shows = term.clients[c].shows
                                 /\ term'.clients[c].partial = term.clients[c].partial)
  PROVE  RowsTold'
  <1>1. SUFFICES ASSUME NEW c \in Attached', ~term'.clients[c].partial, NEW r \in ScreenRows
                 PROVE  ToldLast(term.clients[c], r)'
    BY DEF RowsTold
  <1>2. /\ c \in Attached /\ ~term.clients[c].partial
        /\ term'.clients[c].queue = term.clients[c].queue /\ term'.clients[c].shows = term.clients[c].shows
    BY <1>1
  <1>3. ToldLast(term.clients[c], r)
    BY <1>2 DEF RowsTold
  <1> QED BY <1>2, <1>3 DEF ToldLast

LEMMA AttachInv == ASSUME TerminalInv, Attach PROVE TerminalInv'
  <1> DEFINE new == [Gone EXCEPT !.at = "attached", !.queue = <<BlankPage>>, !.partial = TRUE]
             n == term.next
  <1>1. n \in 1..MaxClients /\ TerminalTyped
    BY DEF Attach, TerminalInv, TerminalTyped
  <1>2. new \in ClientRecords /\ Len(new.queue) = 1 /\ new.at = "attached" /\ new.partial
    <2>1. <<BlankPage>> \in Seq(Writes) /\ Len(<<BlankPage>>) = 1
      BY <1>1, RecordFacts
    <2> QED BY <1>1, <2>1, RecordFacts DEF ClientRecords, Gone
  <1> HIDE DEF new
  <1>3. /\ term' = [term EXCEPT !.clients[term.next] = new, !.active = term.next, !.next = @ + 1]
        /\ frame' = [frame EXCEPT !.wanted = TRUE] /\ UNCHANGED <<page, drawn>>
    BY DEF Attach, RequestRender, new
  <1>4. /\ term'.clients = [term.clients EXCEPT ![n] = new] /\ term'.active = n
        /\ term'.clients[n] = new /\ \A c \in 1..MaxClients \ {n} : term'.clients[c] = term.clients[c]
    BY <1>1, <1>3 DEF TerminalTyped
  <1>5. TerminalTyped'
    <2>1. term' \in [clients : [1..MaxClients -> ClientRecords], active : 0..MaxClients, next : Nat \ {0}, local : ScreenSizes]
      <3>1. term' = [clients |-> [term.clients EXCEPT ![n] = new], active |-> n, next |-> n + 1, local |-> term.local]
        BY <1>1, <1>3 DEF TerminalTyped
      <3>2. [term.clients EXCEPT ![n] = new] \in [1..MaxClients -> ClientRecords]
        BY <1>1, <1>2 DEF TerminalTyped
      <3>3. n \in 0..MaxClients /\ n + 1 \in Nat \ {0} /\ term.local \in ScreenSizes
        BY <1>1, RemoteAssumption DEF TerminalTyped
      <3> QED BY <3>1, <3>2, <3>3
    <2>2. \A c \in 1..MaxClients : Len(term'.clients[c].queue) <= ClientQueue
      <3>1. Len(term'.clients[n].queue) <= ClientQueue
        <4>1. term'.clients[n] = new
          BY <1>4
        <4>2. Len(term'.clients[n].queue) = 1
          BY <1>2, <4>1
        <4>3. 1 <= ClientQueue
          BY RemoteAssumption
        <4> QED BY <4>2, <4>3
      <3>2. \A c \in 1..MaxClients \ {n} : Len(term'.clients[c].queue) <= ClientQueue
        BY <1>1, <1>4 DEF TerminalTyped
      <3> QED BY <3>1, <3>2
    <2>3. frame' \in [wanted : BOOLEAN, size : ScreenSizes \cup {NoSize}]
      BY <1>1, <1>3 DEF TerminalTyped
    <2> QED BY <1>1, <1>3, <2>1, <2>2, <2>3 DEF TerminalTyped
  <1>6. Attached' = Attached \cup {n}
    BY <1>1, <1>2, <1>4 DEF Attached
  <1>7. ActiveAttached' /\ FrameCurrent'
    BY <1>1, <1>3, <1>4, <1>6 DEF ActiveAttached, FrameCurrent, TerminalTyped
  <1>8. RowsTold'
    BY <1>1, <1>2, <1>3, <1>4, <1>6, RowsStay DEF TerminalInv, Attached
  <1> QED BY <1>5, <1>7, <1>8 DEF TerminalInv

\* A browser that is used, perhaps with a new size.
LEMMA UsedInv ==
  ASSUME TerminalInv, NEW c \in Attached, NEW size \in ScreenSizes,
         term' = [term EXCEPT !.clients[c].size = size, !.active = c],
         frame' = [frame EXCEPT !.wanted = TRUE], UNCHANGED <<page, drawn>>
  PROVE  TerminalInv'
  <1>1. c \in 1..MaxClients /\ TerminalTyped /\ term.clients[c] \in ClientRecords
    BY RecordFacts DEF TerminalInv, Attached
  <1> DEFINE used == [term.clients[c] EXCEPT !.size = size]
  <1>2. /\ used \in ClientRecords /\ used.at = term.clients[c].at /\ used.queue = term.clients[c].queue
        /\ used.shows = term.clients[c].shows /\ used.partial = term.clients[c].partial
    BY <1>1 DEF ClientRecords
  <1>3. /\ term'.active = c /\ term'.next = term.next /\ term'.local = term.local
        /\ term'.clients = [term.clients EXCEPT ![c] = used]
    BY <1>1 DEF TerminalTyped
  <1>4. term' = [clients |-> [term.clients EXCEPT ![c] = used], active |-> c, next |-> term.next, local |-> term.local]
    BY <1>1 DEF TerminalTyped
  <1> HIDE DEF used
  <1>5. term'.clients[c] = used /\ \A d \in 1..MaxClients \ {c} : term'.clients[d] = term.clients[d]
    BY <1>1, <1>3 DEF TerminalTyped
  <1>6. TerminalTyped'
    <2>1. term' \in [clients : [1..MaxClients -> ClientRecords], active : 0..MaxClients, next : Nat \ {0}, local : ScreenSizes]
      <3>1. [term.clients EXCEPT ![c] = used] \in [1..MaxClients -> ClientRecords] /\ c \in 0..MaxClients
        BY <1>1, <1>2, RemoteAssumption DEF TerminalTyped
      <3>2. term.next \in Nat \ {0} /\ term.local \in ScreenSizes
        BY <1>1 DEF TerminalTyped
      <3> DEFINE clients == [term.clients EXCEPT ![c] = used]
      <3> HIDE DEF clients
      <3>3. term' = [clients |-> clients, active |-> c, next |-> term.next, local |-> term.local]
        BY <1>4 DEF clients
      <3>4. clients \in [1..MaxClients -> ClientRecords]
        BY <3>1 DEF clients
      <3> QED BY <3>1, <3>2, <3>3, <3>4
    <2>2. \A d \in 1..MaxClients : Len(term'.clients[d].queue) <= ClientQueue
      BY <1>1, <1>2, <1>5 DEF TerminalTyped
    <2>3. frame' \in [wanted : BOOLEAN, size : ScreenSizes \cup {NoSize}]
      BY <1>1 DEF TerminalTyped
    <2> QED BY <1>1, <2>1, <2>2, <2>3 DEF TerminalTyped
  <1>7. Attached' = Attached
    BY <1>2, <1>5 DEF Attached
  <1>8. ActiveAttached' /\ FrameCurrent'
    BY <1>1, <1>3, <1>7 DEF ActiveAttached, FrameCurrent, TerminalTyped
  <1>9. RowsTold'
    BY <1>1, <1>2, <1>5, <1>7, RowsStay DEF TerminalInv, Attached
  <1> QED BY <1>6, <1>8, <1>9 DEF TerminalInv

LEMMA ClientResizeInv == ASSUME TerminalInv, NEW c \in 1..MaxClients, NEW size \in ScreenSizes, ClientResize(c, size) PROVE TerminalInv'
  BY UsedInv DEF ClientResize, RequestRender

LEMMA ClientInputInv == ASSUME TerminalInv, NEW c \in 1..MaxClients, ClientInput(c) PROVE TerminalInv'
  <1>1. term.clients[c] \in ClientRecords /\ TerminalTyped
    BY RecordFacts DEF TerminalInv
  <1>2. term' = [term EXCEPT !.clients[c].size = term.clients[c].size, !.active = c]
    <2>1. [term.clients EXCEPT ![c].size = term.clients[c].size] = term.clients
      BY <1>1 DEF TerminalTyped, ClientRecords
    <2>2. term' = [term EXCEPT !.active = c]
      BY DEF ClientInput, RequestRender
    <2> QED BY <1>1, <2>1, <2>2 DEF TerminalTyped
  <1>3. term.clients[c].size \in ScreenSizes
    BY <1>1 DEF ClientRecords
  <1> QED BY <1>2, <1>3, UsedInv DEF ClientInput, RequestRender

\* The newest of the browsers that are left, or nobody.
LEMMA NewestLeft ==
  ASSUME NEW n \in Nat, NEW rest, rest \subseteq 1..n
  PROVE  /\ rest = {} => Max(rest \cup {0}) = 0
         /\ rest # {} => Max(rest \cup {0}) \in rest
  <1> DEFINE S == rest \cup {0}
             D == {n - x : x \in S}
  <1>1. \E x \in S : \A y \in S : x >= y
    <2>1. D \subseteq Nat /\ n - 0 \in D
      OBVIOUS
    <2> DEFINE R == OpToRel(<, Nat)
    <2>2. IsWellFoundedOn(R, Nat)
      BY NatLessThanWellFounded
    <2>3. \A x, y \in Nat : y < x => <<y, x>> \in R
      BY Zenon DEF OpToRel
    <2> HIDE DEF R
    <2>4. PICK d \in D : \A e \in D : ~(<<e, d>> \in R)
      BY <2>1, <2>2, WFMin
    <2>5. \A e \in D : d \in Nat /\ e \in Nat /\ ~(e < d)
      BY <2>1, <2>3, <2>4
    <2>6. PICK x \in S : d = n - x
      OBVIOUS
    <2>7. \A y \in S : n - y \in D /\ y \in Nat /\ x \in Nat
      OBVIOUS
    <2> HIDE DEF D, S
    <2>8. ASSUME NEW y \in S PROVE x >= y
      <3>1. n - y \in D /\ y \in Nat /\ x \in Nat /\ d = n - x /\ ~(n - y < d)
        BY <2>5, <2>6, <2>7
      <3> QED BY <3>1
    <2> QED BY <2>6, <2>8
  <1>2. Max(S) \in S /\ \A y \in S : Max(S) >= y
    BY <1>1 DEF Max
  <1> DEFINE newest == Max(S)
  <1> HIDE DEF newest
  <1>3. newest \in rest \cup {0} /\ \A y \in rest \cup {0} : newest >= y
    BY <1>2 DEF newest
  <1>4. (rest = {} => newest = 0) /\ (rest # {} => newest \in rest)
    <2>1. CASE rest = {}
      BY <1>3, <2>1
    <2>2. ASSUME rest # {} PROVE newest \in rest
      <3>0. PICK x \in rest : TRUE
        BY <2>2
      <3>1. x \in Nat /\ x >= 1
        OBVIOUS
      <3>2. newest >= x /\ (newest \in rest \/ newest = 0)
        BY <1>3, <3>1
      <3> QED BY <3>1, <3>2
    <2> QED BY <2>1, <2>2
  <1> QED BY <1>4 DEF newest

\* Browsers that leave change nothing for the others; the newest of them
\* takes over from an active one.
LEMMA DetachInv ==
  ASSUME TerminalInv, NEW gone \in SUBSET Attached,
         term'.clients \in [1..MaxClients -> ClientRecords], term'.next = term.next, term'.local = term.local,
         term' = [clients |-> term'.clients, active |-> term'.active, next |-> term'.next, local |-> term'.local],
         \A c \in gone : term'.clients[c] = [Gone EXCEPT !.at = "left"],
         \A c \in 1..MaxClients \ gone :
           /\ term'.clients[c].at = term.clients[c].at /\ term'.clients[c].size = term.clients[c].size
           /\ Len(term'.clients[c].queue) <= ClientQueue,
         term'.active = IF term.active \in gone THEN Max((Attached \ gone) \cup {0}) ELSE term.active
  PROVE  /\ Attached' = Attached \ gone
         /\ ActiveAttached'
         /\ term'.active = term.active => SizeOf(term') = SizeOf(term)
         /\ term' \in [clients : [1..MaxClients -> ClientRecords], active : 0..MaxClients, next : Nat \ {0}, local : ScreenSizes]
         /\ \A c \in 1..MaxClients : Len(term'.clients[c].queue) <= ClientQueue
  <1>1. TerminalTyped /\ Attached \subseteq 1..MaxClients /\ MaxClients \in Nat
    BY RemoteAssumption DEF TerminalInv, Attached
  <1>2. \A c \in gone : term'.clients[c].at = "left" /\ Len(term'.clients[c].queue) <= ClientQueue
    BY RemoteAssumption DEF Gone
  <1>3. Attached' = Attached \ gone
    BY <1>2 DEF Attached
  <1>4. /\ Attached \ gone = {} => Max((Attached \ gone) \cup {0}) = 0
        /\ Attached \ gone # {} => Max((Attached \ gone) \cup {0}) \in Attached \ gone
    BY <1>1, NewestLeft
  <1>5. ActiveAttached'
    BY <1>1, <1>3, <1>4 DEF TerminalInv, ActiveAttached
  <1>6. term'.active \in 0..MaxClients
    BY <1>1, <1>4 DEF TerminalTyped
  <1>7. ASSUME term'.active = term.active PROVE SizeOf(term') = SizeOf(term)
    <2>1. CASE term.active = 0
      BY <1>7, <2>1 DEF SizeOf
    <2>2. CASE term.active # 0
      <3>1. term.active \in Attached \ gone
        BY <1>1, <1>4, <1>7, <2>2 DEF TerminalInv, ActiveAttached
      <3> QED BY <1>1, <1>7, <2>2, <3>1 DEF SizeOf
    <2> QED BY <2>1, <2>2
  <1>8. \A c \in 1..MaxClients : Len(term'.clients[c].queue) <= ClientQueue
    BY <1>1, <1>2
  <1>9. term' \in [clients : [1..MaxClients -> ClientRecords], active : 0..MaxClients, next : Nat \ {0}, local : ScreenSizes]
    BY <1>1, <1>6 DEF TerminalTyped
  <1> QED BY <1>3, <1>5, <1>7, <1>8, <1>9

LEMMA ClientCloseInv == ASSUME TerminalInv, NEW c \in 1..MaxClients, ClientClose(c) PROVE TerminalInv'
  <1> DEFINE gone == [Gone EXCEPT !.at = "left"]
  <1>1. TerminalTyped /\ c \in Attached /\ Gone \in ClientRecords /\ term' = Left(term, c) /\ UNCHANGED <<page, drawn>>
    BY RecordFacts DEF TerminalInv, ClientClose, RequestRender
  <1>2. gone \in ClientRecords /\ gone.queue = <<>> /\ gone.at = "left"
    BY <1>1 DEF ClientRecords, Gone
  <1> DEFINE newest == Max((Attached \ {c}) \cup {0})
             active == IF term.active = c THEN newest ELSE term.active
  <1> HIDE DEF gone, newest
  <1>3. term' = [term EXCEPT !.clients[c] = gone, !.active = IF @ = c THEN newest ELSE @]
    BY <1>1 DEF Left, Attached, gone, newest
  <1> DEFINE clients == [term.clients EXCEPT ![c] = gone]
  <1>4. term' = [clients |-> clients, active |-> active, next |-> term.next, local |-> term.local]
    BY <1>1, <1>3 DEF TerminalTyped
  <1>5. clients \in [1..MaxClients -> ClientRecords] /\ clients[c] = gone /\ \A d \in 1..MaxClients \ {c} : clients[d] = term.clients[d]
    BY <1>1, <1>2 DEF TerminalTyped
  <1> HIDE DEF clients
  <1>6. /\ term'.clients = clients /\ term'.next = term.next /\ term'.local = term.local /\ term'.active = active
        /\ term' = [clients |-> term'.clients, active |-> term'.active, next |-> term'.next, local |-> term'.local]
    BY <1>4
  <1>7. /\ Attached' = Attached \ {c} /\ ActiveAttached'
        /\ term'.active = term.active => SizeOf(term') = SizeOf(term)
        /\ term' \in [clients : [1..MaxClients -> ClientRecords], active : 0..MaxClients, next : Nat \ {0}, local : ScreenSizes]
        /\ \A d \in 1..MaxClients : Len(term'.clients[d].queue) <= ClientQueue
    <2>1. {c} \in SUBSET Attached
      BY <1>1
    <2>2. \A d \in {c} : term'.clients[d] = [Gone EXCEPT !.at = "left"]
      BY <1>5, <1>6 DEF gone
    <2>3. \A d \in 1..MaxClients \ {c} :
            /\ term'.clients[d].at = term.clients[d].at /\ term'.clients[d].size = term.clients[d].size
            /\ Len(term'.clients[d].queue) <= ClientQueue
      BY <1>1, <1>5, <1>6 DEF TerminalTyped
    <2>4. term'.active = IF term.active \in {c} THEN Max((Attached \ {c}) \cup {0}) ELSE term.active
      BY <1>6 DEF newest
    <2>5. term'.clients \in [1..MaxClients -> ClientRecords]
      BY <1>5, <1>6
    <2> QED BY <1>6, <2>1, <2>2, <2>3, <2>4, <2>5, DetachInv
  <1>8. frame' \in [wanted : BOOLEAN, size : ScreenSizes \cup {NoSize}] /\ FrameCurrent'
    <2>1. CASE term.active = c
      <3>1. frame' = [frame EXCEPT !.wanted = TRUE]
        BY <2>1 DEF ClientClose, RequestRender
      <3> QED BY <1>1, <3>1 DEF TerminalTyped, FrameCurrent
    <2>2. CASE term.active # c
      <3>1. frame' = frame /\ term'.active = term.active
        BY <1>6, <2>2 DEF ClientClose
      <3>2. SizeOf(term') = SizeOf(term)
        BY <1>7, <3>1
      <3> QED BY <1>1, <3>1, <3>2 DEF TerminalInv, TerminalTyped, FrameCurrent, SizeOf
    <2> QED BY <2>1, <2>2
  <1>9. RowsTold'
    <2>1. \A d \in Attached' : d \in Attached /\ term'.clients[d] = term.clients[d]
      BY <1>5, <1>6, <1>7 DEF Attached
    <2> QED BY <1>1, <2>1, RowsStay DEF TerminalInv
  <1> QED BY <1>1, <1>7, <1>8, <1>9 DEF TerminalInv, TerminalTyped

LEMMA LocalResizeInv == ASSUME TerminalInv, NEW size \in ScreenSizes, LocalResize(size) PROVE TerminalInv'
  <1>1. TerminalTyped /\ term' = [term EXCEPT !.local = size] /\ UNCHANGED <<page, drawn>>
    BY DEF TerminalInv, LocalResize, RequestRender
  <1>2. term' = [clients |-> term.clients, active |-> term.active, next |-> term.next, local |-> size]
    BY <1>1 DEF TerminalTyped
  <1>3. frame' \in [wanted : BOOLEAN, size : ScreenSizes \cup {NoSize}] /\ (frame'.wanted \/ (frame' = frame /\ Attached # {}))
    BY <1>1 DEF LocalResize, RequestRender, TerminalTyped
  <1>4. TerminalTyped'
    BY <1>1, <1>2, <1>3 DEF TerminalTyped
  <1>5. Attached' = Attached /\ ActiveAttached'
    BY <1>2 DEF Attached, TerminalInv, ActiveAttached
  <1>6. Attached # {} => SizeOf(term') = SizeOf(term)
    BY <1>2 DEF TerminalInv, ActiveAttached, SizeOf
  <1>7. FrameCurrent'
    BY <1>1, <1>3, <1>6 DEF TerminalInv, FrameCurrent, SizeOf
  <1>8. RowsTold'
    BY <1>1, <1>2, <1>5, RowsStay DEF TerminalInv
  <1> QED BY <1>4, <1>5, <1>7, <1>8 DEF TerminalInv

LEMMA ScreenChangesInv == ASSUME TerminalInv, NEW r \in ScreenRows, ScreenChanges(r) PROVE TerminalInv'
  <1>1. TerminalTyped /\ UNCHANGED <<term, drawn>> /\ page' = [page EXCEPT ![r] = @ + 1] /\ frame' = [frame EXCEPT !.wanted = TRUE]
    BY DEF TerminalInv, ScreenChanges
  <1>2. page' \in Writes
    BY <1>1 DEF TerminalTyped, Writes
  <1>3. TerminalTyped' /\ frame'.wanted
    BY <1>1, <1>2 DEF TerminalTyped
  <1>4. Attached' = Attached /\ ActiveAttached' /\ FrameCurrent'
    BY <1>1, <1>3 DEF Attached, TerminalInv, ActiveAttached, FrameCurrent
  <1>5. RowsTold'
    BY <1>1, <1>4, RowsStay DEF TerminalInv
  <1> QED BY <1>3, <1>4, <1>5 DEF TerminalInv

LEMMA RenderBeginsInv == ASSUME TerminalInv, RenderBegins PROVE TerminalInv'
  <1>1. TerminalTyped /\ UNCHANGED <<term, page, drawn>> /\ frame' = [wanted |-> FALSE, size |-> SizeOf(term)] /\ SizeOf(term) \in ScreenSizes
    BY RecordFacts DEF TerminalInv, RenderBegins
  <1>2. TerminalTyped' /\ frame'.size # NoSize
    BY <1>1, RemoteAssumption DEF TerminalTyped
  <1>3. Attached' = Attached /\ ActiveAttached' /\ FrameCurrent'
    BY <1>1, <1>2 DEF Attached, TerminalInv, ActiveAttached, FrameCurrent, SizeOf
  <1>4. RowsTold'
    BY <1>1, <1>3, RowsStay DEF TerminalInv
  <1> QED BY <1>2, <1>3, <1>4 DEF TerminalInv

\* A browser reads the oldest write that waits for it.
LEMMA ReadTold ==
  ASSUME NEW client \in ClientRecords, client.queue # <<>>, NEW r \in ScreenRows, ToldLast(client, r),
         drawn.rows \in Writes
  PROVE  ToldLast([client EXCEPT !.queue = Tail(@), !.shows = Applied(@, Head(client.queue))], r)
  <1> DEFINE read == [client EXCEPT !.queue = Tail(@), !.shows = Applied(@, Head(client.queue))]
             q == client.queue
             n == Len(q)
  <1>1. q \in Seq(Writes) /\ client.shows \in Writes
    BY DEF ClientRecords
  <1>2. n \in Nat /\ n > 0 /\ Head(q) = q[1] /\ q[1] \in Writes /\ Tail(q) \in Seq(Writes) /\ Len(Tail(q)) = n - 1
        /\ \A j \in 1..(n - 1) : Tail(q)[j] = q[j + 1]
    BY <1>1
  <1>3. read.queue = Tail(q) /\ read.shows = Applied(client.shows, q[1])
    BY <1>2 DEF ClientRecords
  <1>4. q[1] # BlankPage => read.shows[r] = IF q[1][r] = 0 THEN client.shows[r] ELSE q[1][r]
    BY <1>3 DEF Applied
  <1> HIDE DEF read
  <1>5. PICK i \in 0..n :
          /\ (IF i = 0 THEN client.shows ELSE q[i])[r] = drawn.rows[r] + 1
          /\ \A j \in i + 1..n : q[j][r] = 0 /\ q[j] # BlankPage
    BY DEF ToldLast
  <1>6. CASE i = 0
    <2>1. q[1][r] = 0 /\ q[1] # BlankPage /\ client.shows[r] = drawn.rows[r] + 1
      BY <1>2, <1>5, <1>6
    <2>2. read.shows[r] = drawn.rows[r] + 1
      BY <1>4, <2>1
    <2>3. \A j \in 0 + 1..n - 1 : Tail(q)[j][r] = 0 /\ Tail(q)[j] # BlankPage
      BY <1>2, <1>5, <1>6
    <2> QED BY <1>2, <1>3, <2>2, <2>3 DEF ToldLast, read
  <1>7. CASE i = 1
    <2>1. q[1][r] = drawn.rows[r] + 1
      BY <1>5, <1>7
    <2>2. q[1][r] # 0 => q[1] # BlankPage
      BY DEF BlankPage
    <2>3. q[1][r] = 0 \/ read.shows[r] = drawn.rows[r] + 1
      BY <1>4, <2>1, <2>2
    <2>4. \A j \in 0 + 1..n - 1 : Tail(q)[j][r] = 0 /\ Tail(q)[j] # BlankPage
      BY <1>2, <1>5, <1>7
    <2>5. q[1][r] # 0
      BY <2>1 DEF Writes
    <2>6. read.shows[r] = drawn.rows[r] + 1
      BY <2>3, <2>5
    <2> QED BY <1>2, <1>3, <2>4, <2>6 DEF ToldLast, read
  <1>8. CASE i > 1
    <2>1. i - 1 \in 1..(n - 1) /\ Tail(q)[i - 1] = q[i] /\ i - 1 # 0
      BY <1>2, <1>5, <1>8
    <2>2. Tail(q)[i - 1][r] = drawn.rows[r] + 1
      BY <1>5, <1>8, <2>1
    <2>3. \A j \in (i - 1) + 1..n - 1 : Tail(q)[j][r] = 0 /\ Tail(q)[j] # BlankPage
      BY <1>2, <1>5, <1>8
    <2>4. PICK k \in 1..(n - 1) : k = i - 1
      BY <2>1
    <2>5. k \in 0..n - 1 /\ k # 0 /\ Tail(q)[k][r] = drawn.rows[r] + 1
      BY <1>2, <2>2, <2>4
    <2>6. \A j \in k + 1..n - 1 : Tail(q)[j][r] = 0 /\ Tail(q)[j] # BlankPage
      BY <2>3, <2>4
    <2> QED BY <1>2, <1>3, <2>5, <2>6 DEF ToldLast, read
  <1> QED BY <1>5, <1>6, <1>7, <1>8

LEMMA BrowserReadsInv == ASSUME TerminalInv, NEW c \in 1..MaxClients, BrowserReads(c) PROVE TerminalInv'
  <1> DEFINE client == term.clients[c]
             read == [client EXCEPT !.queue = Tail(@), !.shows = Applied(@, Head(client.queue))]
  <1>1. TerminalTyped /\ c \in Attached /\ client \in ClientRecords /\ client.queue # <<>> /\ UNCHANGED <<page, drawn, frame>>
    BY RecordFacts DEF TerminalInv, BrowserReads
  <1>2. Tail(client.queue) \in Seq(Writes) /\ Len(Tail(client.queue)) = Len(client.queue) - 1
        /\ Len(client.queue) \in Nat /\ Head(client.queue) \in Writes
    BY <1>1 DEF ClientRecords
  <1>3. Applied(client.shows, Head(client.queue)) \in Writes
    BY <1>1, <1>2 DEF Applied, ClientRecords, Writes, BlankPage
  <1>4. read \in ClientRecords /\ read.at = client.at /\ read.size = client.size /\ read.partial = client.partial
        /\ read.queue = Tail(client.queue)
    BY <1>1, <1>2, <1>3 DEF ClientRecords
  <1>5. term' = [term EXCEPT !.clients[c] = read]
    BY <1>1 DEF BrowserReads, TerminalTyped, ClientRecords
  <1> HIDE DEF read
  <1> DEFINE clients == [term.clients EXCEPT ![c] = read]
  <1>6. clients \in [1..MaxClients -> ClientRecords] /\ clients[c] = read /\ \A d \in 1..MaxClients \ {c} : clients[d] = term.clients[d]
    BY <1>1, <1>4 DEF TerminalTyped
  <1>7. term' = [clients |-> clients, active |-> term.active, next |-> term.next, local |-> term.local]
    BY <1>1, <1>5 DEF TerminalTyped
  <1> HIDE DEF clients
  <1>8. term'.clients = clients /\ term'.active = term.active /\ term'.local = term.local
    BY <1>7
  <1>9. TerminalTyped'
    <2>1. \A d \in 1..MaxClients : Len(clients[d].queue) <= ClientQueue
      <3>1. Len(client.queue) <= ClientQueue /\ ClientQueue \in Nat
        BY <1>1, RemoteAssumption DEF TerminalTyped
      <3>2. Len(clients[c].queue) <= ClientQueue
        <4>1. clients[c].queue = Tail(client.queue)
          BY <1>4, <1>6
        <4>2. Len(clients[c].queue) = Len(client.queue) - 1 /\ Len(client.queue) \in Nat
          BY <1>2, <4>1
        <4> QED BY <3>1, <4>2
      <3>3. \A d \in 1..MaxClients \ {c} : Len(clients[d].queue) <= ClientQueue
        BY <1>1, <1>6 DEF TerminalTyped
      <3> QED BY <3>2, <3>3
    <2> QED BY <1>1, <1>6, <1>7, <1>8, <2>1 DEF TerminalTyped
  <1>10. Attached' = Attached
    BY <1>4, <1>6, <1>8 DEF Attached
  <1>11. ActiveAttached'
    BY <1>8, <1>10 DEF TerminalInv, ActiveAttached
  <1>12. SizeOf(term') = SizeOf(term)
    BY <1>1, <1>4, <1>6, <1>8, RemoteAssumption DEF SizeOf, TerminalTyped
  <1>13. FrameCurrent'
    BY <1>1, <1>12 DEF TerminalInv, FrameCurrent, SizeOf
  <1>14. RowsTold'
    <2> SUFFICES ASSUME NEW d \in Attached, ~term'.clients[d].partial, NEW r \in ScreenRows PROVE ToldLast(term.clients[d], r)'
      BY <1>10 DEF RowsTold
    <2>1. CASE d = c
      <3>1. ToldLast(client, r)
        BY <1>4, <1>6, <1>8, <2>1 DEF TerminalInv, RowsTold
      <3>2. ToldLast(read, r)
        BY <1>1, <3>1, ReadTold DEF read, TerminalTyped
      <3> QED BY <1>1, <1>6, <1>8, <2>1, <3>2 DEF ToldLast
    <2>2. CASE d # c
      <3>1. ToldLast(term.clients[d], r) /\ term'.clients[d] = term.clients[d]
        BY <1>6, <1>8, <2>2 DEF TerminalInv, RowsTold, Attached
      <3> QED BY <1>1, <3>1 DEF ToldLast
    <2> QED BY <2>1, <2>2
  <1> QED BY <1>9, <1>11, <1>13, <1>14 DEF TerminalInv

\* A write that tells of every row that differs from what was drawn leaves a
\* browser that gets it told of every row.
LEMMA WriteTold ==
  ASSUME NEW client \in ClientRecords, NEW write \in Writes, write # BlankPage, NEW r \in ScreenRows,
         drawn'.rows = page,
         \/ write[r] = page[r] + 1
         \/ write[r] = 0 /\ page[r] = drawn.rows[r] /\ ToldLast(client, r)
  PROVE  \E i \in 0..Len(Append(client.queue, write)) :
           /\ (IF i = 0 THEN client.shows ELSE Append(client.queue, write)[i])[r] = drawn'.rows[r] + 1
           /\ \A j \in i + 1..Len(Append(client.queue, write)) :
                Append(client.queue, write)[j][r] = 0 /\ Append(client.queue, write)[j] # BlankPage
  <1> DEFINE q == client.queue
             n == Len(q)
             longer == Append(q, write)
  <1>1. q \in Seq(Writes)
    BY DEF ClientRecords
  <1>2. n \in Nat /\ Len(longer) = n + 1 /\ longer[n + 1] = write /\ \A j \in 1..n : longer[j] = q[j]
    BY <1>1
  <1>3. CASE write[r] = page[r] + 1
    <2>1. n + 1 \in 0..Len(longer) /\ n + 1 # 0 /\ longer[n + 1][r] = drawn'.rows[r] + 1
      BY <1>2, <1>3
    <2>2. \A j \in (n + 1) + 1..Len(longer) : longer[j][r] = 0 /\ longer[j] # BlankPage
      BY <1>2
    <2> HIDE DEF longer
    <2> QED BY <2>1, <2>2 DEF longer
  <1>4. CASE write[r] = 0 /\ page[r] = drawn.rows[r] /\ ToldLast(client, r)
    <2>1. PICK i \in 0..n :
            /\ (IF i = 0 THEN client.shows ELSE q[i])[r] = drawn.rows[r] + 1
            /\ \A j \in i + 1..n : q[j][r] = 0 /\ q[j] # BlankPage
      BY <1>4 DEF ToldLast
    <2>2. i \in 0..Len(longer) /\ (IF i = 0 THEN client.shows ELSE longer[i])[r] = drawn'.rows[r] + 1
      <3>1. CASE i = 0
        BY <1>2, <1>4, <2>1, <3>1
      <3>2. CASE i # 0
        <4>1. i \in 1..n /\ longer[i] = q[i]
          BY <1>2, <2>1, <3>2
        <4> QED BY <1>2, <1>4, <2>1, <3>2, <4>1
      <3> QED BY <3>1, <3>2
    <2>3. ASSUME NEW j \in i + 1..Len(longer) PROVE longer[j][r] = 0 /\ longer[j] # BlankPage
      <3>1. CASE j = n + 1
        BY <1>2, <1>4, <3>1
      <3>2. CASE j # n + 1
        <4>1. j \in i + 1..n /\ j \in 1..n
          BY <1>2, <2>1, <2>3, <3>2
        <4> QED BY <1>2, <2>1, <4>1
      <3> QED BY <3>1, <3>2
    <2> HIDE DEF longer
    <2> QED BY <2>2, <2>3 DEF longer
  <1> QED BY <1>3, <1>4

\* A frame is written: in full where the size changed, else the rows that did.
LEMMA RenderWritesInv == ASSUME TerminalInv, RenderWrites PROVE TerminalInv'
  <1> DEFINE full == frame.size # drawn.size
             write == IF full THEN [r \in ScreenRows |-> page[r] + 1] ELSE Changed
             after == IF write = BlankPage THEN term ELSE Written(term, write, full)
  <1>1. /\ TerminalTyped /\ frame.size \in ScreenSizes /\ UNCHANGED page /\ term' = after
        /\ frame' = [wanted |-> frame.wanted \/ after.active # term.active, size |-> NoSize]
        /\ drawn' = [rows |-> page, size |-> frame.size]
    BY DEF TerminalInv, TerminalTyped, RenderWrites
  <1>2. write \in Writes
    BY <1>1 DEF TerminalTyped, Writes, Changed
  <1>3. \A r \in ScreenRows : write[r] = page[r] + 1 \/ (write[r] = 0 /\ ~full /\ page[r] = drawn.rows[r])
    BY DEF Changed
  <1>4. drawn' \in [rows : Writes, size : ScreenSizes] /\ page' \in Writes /\ drawn'.rows = page /\ drawn'.size = frame.size
        /\ frame' \in [wanted : BOOLEAN, size : ScreenSizes \cup {NoSize}] /\ frame'.size = NoSize
    <2>1. frame'.wanted \in BOOLEAN
      BY <1>1, Zenon
    <2> QED BY <1>1, <2>1 DEF TerminalTyped
  <1>5. frame'.wanted = (frame.wanted \/ term'.active # term.active)
    BY <1>1
  <1> HIDE DEF write, full
  <1>6. CASE write = BlankPage
    <2>1. term' = term /\ ~frame'.wanted => ~frame.wanted
      BY <1>1, <1>6
    <2>2. term' = term
      BY <1>1, <1>6
    <2>3. \A r \in ScreenRows : write[r] = 0
      BY <1>6 DEF BlankPage
    <2>4. \A r \in ScreenRows : page[r] = drawn.rows[r]
      <3>1. \A r \in ScreenRows : page[r] \in Nat
        BY <1>1 DEF TerminalTyped, Writes
      <3> QED BY <1>3, <2>3, <3>1
    <2>5. Attached' = Attached /\ TerminalTyped' /\ ActiveAttached'
      BY <1>1, <1>4, <2>2 DEF Attached, TerminalInv, TerminalTyped, ActiveAttached
    <2>6. FrameCurrent'
      BY <1>1, <1>4, <1>5, <2>2, RemoteAssumption DEF TerminalInv, FrameCurrent, SizeOf
    <2>7. RowsTold'
      BY <1>4, <2>2, <2>4, <2>5 DEF TerminalInv, RowsTold, ToldLast
    <2> QED BY <2>5, <2>6, <2>7 DEF TerminalInv
  <1>7. CASE write # BlankPage
    <2> DEFINE slow == {c \in Attached : Len(term.clients[c].queue) = ClientQueue}
               kept == Attached \ slow
               told(c) == [term.clients[c] EXCEPT !.queue = Append(@, write), !.partial = @ /\ ~full]
               gone == [Gone EXCEPT !.at = "left"]
               clients == [c \in 1..MaxClients |-> IF c \in kept THEN told(c) ELSE IF c \in slow THEN gone ELSE term.clients[c]]
               active == IF term.active \in slow THEN Max(kept \cup {0}) ELSE term.active
    <2>1. term' = [clients |-> clients, active |-> active, next |-> term.next, local |-> term.local]
      <3>1. Written(term, write, full) = [term EXCEPT !.clients = clients, !.active = active]
        BY DEF Written
      <3>2. term' = [term EXCEPT !.clients = clients, !.active = active]
        BY <1>1, <1>7, <3>1
      <3>3. term = [clients |-> term.clients, active |-> term.active, next |-> term.next, local |-> term.local]
        BY <1>1 DEF TerminalTyped
      <3> HIDE DEF clients, active
      <3> QED BY <3>2, <3>3
    <2>2. gone \in ClientRecords
      BY <1>1, RecordFacts DEF ClientRecords, Gone
    <2>3. \A c \in 1..MaxClients : term.clients[c] \in ClientRecords /\ Len(term.clients[c].queue) <= ClientQueue
      BY <1>1, RecordFacts DEF TerminalTyped
    <2>4. ASSUME NEW c \in kept
          PROVE  /\ told(c) \in ClientRecords /\ told(c).at = term.clients[c].at /\ told(c).size = term.clients[c].size
                 /\ told(c).queue = Append(term.clients[c].queue, write) /\ told(c).shows = term.clients[c].shows
                 /\ told(c).partial = (term.clients[c].partial /\ ~full)
                 /\ Len(told(c).queue) <= ClientQueue
      <3>1. c \in 1..MaxClients /\ term.clients[c] \in ClientRecords /\ Len(term.clients[c].queue) <= ClientQueue
            /\ Len(term.clients[c].queue) # ClientQueue
        BY <2>3 DEF Attached
      <3>2. term.clients[c].queue \in Seq(Writes) /\ term.clients[c].partial \in BOOLEAN
        BY <3>1 DEF ClientRecords
      <3>3. Append(term.clients[c].queue, write) \in Seq(Writes) /\ Len(term.clients[c].queue) \in Nat
            /\ Len(Append(term.clients[c].queue, write)) = Len(term.clients[c].queue) + 1
        BY <1>2, <3>2
      <3>4. Len(Append(term.clients[c].queue, write)) <= ClientQueue
        BY <3>1, <3>3, RemoteAssumption
      <3>5. (term.clients[c].partial /\ ~full) \in BOOLEAN
        BY Zenon
      <3> QED BY <3>1, <3>3, <3>4, <3>5 DEF ClientRecords
    <2>5. \A c \in kept : c \in 1..MaxClients /\ clients[c] = told(c)
      BY DEF Attached
    <2>6. \A c \in slow : c \in 1..MaxClients /\ clients[c] = gone
      BY DEF Attached
    <2>7. \A c \in 1..MaxClients \ Attached : clients[c] = term.clients[c]
      OBVIOUS
    <2>8. clients \in [1..MaxClients -> ClientRecords]
      BY <2>2, <2>3, <2>4
    <2> HIDE DEF told, clients
    <2>9. term'.clients = clients /\ term'.next = term.next /\ term'.local = term.local /\ term'.active = active
          /\ term' = [clients |-> term'.clients, active |-> term'.active, next |-> term'.next, local |-> term'.local]
      BY <2>1
    <2>10. /\ Attached' = Attached \ slow /\ ActiveAttached'
           /\ term'.active = term.active => SizeOf(term') = SizeOf(term)
           /\ term' \in [clients : [1..MaxClients -> ClientRecords], active : 0..MaxClients, next : Nat \ {0}, local : ScreenSizes]
           /\ \A c \in 1..MaxClients : Len(term'.clients[c].queue) <= ClientQueue
      <3>1. slow \in SUBSET Attached
        OBVIOUS
      <3>2. \A c \in slow : term'.clients[c] = [Gone EXCEPT !.at = "left"]
        BY <2>6, <2>9
      <3>3. ASSUME NEW c \in 1..MaxClients \ slow
            PROVE  /\ term'.clients[c].at = term.clients[c].at /\ term'.clients[c].size = term.clients[c].size
                   /\ Len(term'.clients[c].queue) <= ClientQueue
        <4>1. CASE c \in kept
          BY <2>4, <2>5, <2>9, <4>1
        <4>2. CASE c \notin Attached
          BY <2>3, <2>7, <2>9, <4>2
        <4> QED BY <4>1, <4>2
      <3>4. term'.active = IF term.active \in slow THEN Max((Attached \ slow) \cup {0}) ELSE term.active
        BY <2>9
      <3>5. term'.clients \in [1..MaxClients -> ClientRecords]
        BY <2>8, <2>9
      <3> HIDE DEF slow
      <3> QED BY <2>9, <3>1, <3>2, <3>3, <3>4, <3>5, DetachInv
    <2>11. TerminalTyped'
      BY <1>4, <2>10 DEF TerminalTyped
    <2>12. FrameCurrent'
      <3>1. ASSUME ~frame'.wanted PROVE drawn'.size = SizeOf(term')
        <4>1. ~frame.wanted /\ term'.active = term.active
          BY <1>5, <3>1
        <4>2. frame.size = SizeOf(term)
          BY <1>1, <4>1, RemoteAssumption DEF TerminalInv, FrameCurrent
        <4> QED BY <1>4, <2>10, <4>1, <4>2
      <3> QED BY <1>1, <1>4, <3>1 DEF FrameCurrent, SizeOf
    <2>13. RowsTold'
      <3> SUFFICES ASSUME NEW c \in kept, ~term'.clients[c].partial, NEW r \in ScreenRows PROVE ToldLast(term.clients[c], r)'
        BY <2>10 DEF RowsTold
      <3>1. term'.clients[c] = told(c) /\ term.clients[c] \in ClientRecords
        BY <2>3, <2>5, <2>9
      <3>2. full \/ ~term.clients[c].partial
        BY <2>4, <3>1
      <3>3. ~full => ToldLast(term.clients[c], r)
        BY <3>2 DEF TerminalInv, RowsTold
      <3>4. \/ write[r] = page[r] + 1
            \/ write[r] = 0 /\ page[r] = drawn.rows[r] /\ ToldLast(term.clients[c], r)
        BY <1>3, <3>3
      <3>5. told(c).queue = Append(term.clients[c].queue, write) /\ told(c).shows = term.clients[c].shows
        BY <2>4
      <3>6. \E i \in 0..Len(Append(term.clients[c].queue, write)) :
              /\ (IF i = 0 THEN term.clients[c].shows ELSE Append(term.clients[c].queue, write)[i])[r] = drawn'.rows[r] + 1
              /\ \A j \in i + 1..Len(Append(term.clients[c].queue, write)) :
                   Append(term.clients[c].queue, write)[j][r] = 0 /\ Append(term.clients[c].queue, write)[j] # BlankPage
        BY <1>2, <1>4, <1>7, <3>1, <3>4, WriteTold
      <3> QED BY <3>1, <3>5, <3>6 DEF ToldLast
    <2> QED BY <2>10, <2>11, <2>12, <2>13 DEF TerminalInv
  <1> QED BY <1>6, <1>7

----------------------------------------------------------------------------
(* The service.                                                             *)
Resources == {"listener", "sleep", "tunnel"}
Activations == 1..MaxActivations
ServiceTyped ==
  /\ remote \in [generation : 0..MaxActivations, starting : 0..MaxActivations, service : 0..MaxActivations]
  /\ service \in [Activations -> [at : Starting \cup {"off", "over"}, holds : SUBSET Resources, stopped : BOOLEAN]]

\* The command knows what it asked for last; a service that was stopped holds nothing
\* more, unless its start went on; one whose start failed was stopped.
ServiceInv ==
  /\ ServiceTyped /\ RemoteOwned
  /\ remote.starting \in {0, remote.generation}
  /\ \A g \in Activations : service[g].at = "failed" => service[g].stopped
  /\ \A g \in Activations \ leaked : service[g].stopped => service[g].holds = {}

LEMMA InitService == RemoteInit => ServiceInv
  <1> SUFFICES ASSUME RemoteInit PROVE ServiceInv
    OBVIOUS
  <1>1. /\ remote = [generation |-> 0, starting |-> 0, service |-> 0]
        /\ service = [g \in Activations |-> Off] /\ leaked = {} /\ MaxActivations \in Nat
    BY RemoteAssumption DEF RemoteInit, Activations
  <1> QED BY <1>1 DEF ServiceInv, ServiceTyped, RemoteOwned, Off, Activations, Starting

\* One service goes on, the others stay as they are, and the command may be told.
LEMMA OneService ==
  ASSUME ServiceInv, NEW g \in Activations, NEW s,
         s \in [at : Starting \cup {"off", "over"}, holds : SUBSET Resources, stopped : BOOLEAN],
         service' = [service EXCEPT ![g] = s], leaked \subseteq leaked', leaked' \subseteq leaked \cup {g},
         remote' \in [generation : 0..MaxActivations, starting : 0..MaxActivations, service : 0..MaxActivations],
         remote'.service \in {0, remote'.generation}, remote'.starting \in {0, remote'.generation},
         s.at = "failed" => s.stopped,
         g \notin leaked' => (s.stopped => s.holds = {}) /\ (s.holds # {} => g = remote'.service \/ s.at \in Starting),
         remote.service # g => remote.service \in {0, remote'.service}
  PROVE  ServiceInv'
  <1>1. ServiceTyped'
    BY DEF ServiceInv, ServiceTyped
  <1>2. service'[g] = s /\ \A h \in Activations \ {g} : service'[h] = service[h]
    BY DEF ServiceInv, ServiceTyped
  <1>3. \A h \in Activations : service'[h].at = "failed" => service'[h].stopped
    BY <1>2 DEF ServiceInv
  <1>4. \A h \in Activations \ leaked' : service'[h].stopped => service'[h].holds = {}
    BY <1>2 DEF ServiceInv
  <1>5. ASSUME NEW h \in Activations \ leaked', service'[h].holds # {}
        PROVE  h = remote'.service \/ service'[h].at \in Starting
    <2>1. CASE h = g
      BY <1>2, <1>5, <2>1
    <2>2. CASE h # g
      <3>1. service'[h] = service[h] /\ (h = remote.service \/ service[h].at \in Starting)
        BY <1>2, <1>5, <2>2 DEF ServiceInv, RemoteOwned, Activations
      <3>2. h = remote.service => h = remote'.service
        BY <2>2, RemoteAssumption DEF Activations
      <3> QED BY <3>1, <3>2
    <2> QED BY <2>1, <2>2
  <1> QED BY <1>1, <1>3, <1>4, <1>5 DEF ServiceInv, RemoteOwned, Activations

\* Stop leaves nothing, unless it did its work before.
LEMMA StoppedFacts ==
  ASSUME ServiceInv, NEW g \in Activations
  PROVE  /\ Stopped(service[g]) \in [at : Starting \cup {"off", "over"}, holds : SUBSET Resources, stopped : BOOLEAN]
         /\ Stopped(service[g]).stopped /\ Stopped(service[g]).at = service[g].at
         /\ g \notin leaked => Stopped(service[g]).holds = {}
  <1>1. service[g] \in [at : Starting \cup {"off", "over"}, holds : SUBSET Resources, stopped : BOOLEAN]
    BY DEF ServiceInv, ServiceTyped
  <1>2. g \notin leaked /\ service[g].stopped => service[g].holds = {}
    BY DEF ServiceInv
  <1>3. CASE service[g].stopped
    BY <1>1, <1>2, <1>3 DEF Stopped
  <1>4. CASE ~service[g].stopped
    BY <1>1, <1>4 DEF Stopped
  <1> QED BY <1>3, <1>4

LEMMA ToggleOnInv == ASSUME ServiceInv, ToggleOn PROVE ServiceInv'
  <1> DEFINE g == remote.generation + 1
             s == [Off EXCEPT !.at = "sleep", !.holds = {"listener"}]
  <1>1. /\ remote.service = 0 /\ remote.starting = 0 /\ remote.generation < MaxActivations
        /\ remote' = [remote EXCEPT !.generation = g, !.starting = g]
        /\ service' = [service EXCEPT ![g] = s] /\ leaked' = leaked
    BY DEF ToggleOn
  <1>2. s.at = "sleep" /\ s.holds = {"listener"} /\ s.stopped = FALSE
    BY DEF Off
  <1>3. g \in Activations /\ remote.generation \in 0..MaxActivations
    BY <1>1, RemoteAssumption DEF ServiceInv, ServiceTyped, Activations
  <1>4. remote' = [generation |-> g, starting |-> g, service |-> 0]
    BY <1>1 DEF ServiceInv, ServiceTyped
  <1>5. s \in [at : Starting \cup {"off", "over"}, holds : SUBSET Resources, stopped : BOOLEAN]
    BY DEF Off, Starting, Resources
  <1> HIDE DEF g, s
  <1>6. remote' \in [generation : 0..MaxActivations, starting : 0..MaxActivations, service : 0..MaxActivations]
    BY <1>3, <1>4, RemoteAssumption DEF Activations
  <1>7. "sleep" \in Starting
    BY DEF Starting
  <1> QED BY <1>1, <1>2, <1>3, <1>4, <1>5, <1>6, <1>7, OneService

LEMMA StartStepInv == ASSUME ServiceInv, NEW g \in Activations, StartStep(g) PROVE ServiceInv'
  <1> DEFINE s == [service[g] EXCEPT !.at = NextStep[@], !.holds = service[g].holds \cup ({service[g].at} \ {"verify"})]
  <1>1. service[g].at \in {"sleep", "tunnel", "verify"} /\ NextStep[service[g].at] \in {"tunnel", "verify", "started"}
    BY DEF StartStep, NextStep
  <1>2. service[g] \in [at : Starting \cup {"off", "over"}, holds : SUBSET Resources, stopped : BOOLEAN]
    BY DEF ServiceInv, ServiceTyped
  <1>3. /\ service' = [service EXCEPT ![g] = s] /\ remote' = remote
        /\ leaked' = IF service[g].stopped THEN leaked \cup {g} ELSE leaked
    BY DEF StartStep, ServiceInv, ServiceTyped
  <1>4. /\ s.at = NextStep[service[g].at] /\ s.stopped = service[g].stopped
        /\ s.holds = service[g].holds \cup ({service[g].at} \ {"verify"})
    BY <1>2
  <1>5. service[g].holds \cup ({service[g].at} \ {"verify"}) \in SUBSET Resources
    BY <1>1, <1>2 DEF Resources
  <1>6. {"tunnel", "verify", "started"} \subseteq Starting
    BY DEF Starting
  <1>7. s \in [at : Starting \cup {"off", "over"}, holds : SUBSET Resources, stopped : BOOLEAN]
    BY <1>1, <1>2, <1>4, <1>5, <1>6
  <1> HIDE DEF s
  <1>8. g \notin leaked' => ~s.stopped
    BY <1>3, <1>4
  <1> QED BY <1>1, <1>3, <1>4, <1>6, <1>7, <1>8, OneService DEF ServiceInv, ServiceTyped, RemoteOwned

LEMMA StartFailsInv == ASSUME ServiceInv, NEW g \in Activations, StartFails(g) PROVE ServiceInv'
  <1> DEFINE s == [Stopped(service[g]) EXCEPT !.at = "failed"]
  <1>1. service' = [service EXCEPT ![g] = s] /\ remote' = remote /\ leaked' = leaked
    BY DEF StartFails, ServiceInv, ServiceTyped
  <1>2. s.at = "failed" /\ s.stopped /\ s.holds = Stopped(service[g]).holds /\ "failed" \in Starting
        /\ s \in [at : Starting \cup {"off", "over"}, holds : SUBSET Resources, stopped : BOOLEAN]
    BY StoppedFacts DEF Starting
  <1>3. g \notin leaked => s.holds = {}
    BY <1>2, StoppedFacts
  <1> HIDE DEF s
  <1> QED BY <1>1, <1>2, <1>3, OneService DEF ServiceInv, ServiceTyped, RemoteOwned

LEMMA ServeFailsInv == ASSUME ServiceInv, NEW g \in Activations, ServeFails(g) PROVE ServiceInv'
  <1> DEFINE s == Stopped(service[g])
  <1>1. service' = [service EXCEPT ![g] = s] /\ remote' = remote /\ leaked' = leaked
    BY DEF ServeFails, ServiceInv, ServiceTyped
  <1> HIDE DEF s
  <1>2. /\ s.stopped /\ (g \notin leaked => s.holds = {})
        /\ s \in [at : Starting \cup {"off", "over"}, holds : SUBSET Resources, stopped : BOOLEAN]
    BY StoppedFacts DEF s
  <1> QED BY <1>1, <1>2, OneService DEF ServiceInv, ServiceTyped, RemoteOwned

\* A start that comes back too late is stopped; the other one is the service, or failed.
LEMMA ToggleReturnsInv == ASSUME ServiceInv, NEW g \in Activations, ToggleReturns(g) PROVE ServiceInv'
  <1>1. CASE StaleStart(g)
    <2> DEFINE s == [Stopped(service[g]) EXCEPT !.at = "over"]
    <2>1. service' = [service EXCEPT ![g] = s] /\ remote' = remote /\ leaked' = leaked /\ g # remote.generation
      BY <1>1 DEF ToggleReturns, StaleStart, ServiceInv, ServiceTyped
    <2>2. /\ s.at = "over" /\ s.holds = Stopped(service[g]).holds
          /\ s \in [at : Starting \cup {"off", "over"}, holds : SUBSET Resources, stopped : BOOLEAN]
      BY StoppedFacts
    <2>3. g \notin leaked => s.holds = {}
      BY <2>2, StoppedFacts
    <2> HIDE DEF s
    <2> QED BY <2>1, <2>2, <2>3, OneService DEF ServiceInv, ServiceTyped, RemoteOwned
  <1>2. CASE ~StaleStart(g)
    <2> DEFINE s == [service[g] EXCEPT !.at = "over"]
               known == IF service[g].at = "started" THEN g ELSE remote.service
    <2>1. service' = [service EXCEPT ![g] = s] /\ leaked' = leaked /\ g = remote.generation
          /\ service[g].at \in {"started", "failed"}
          /\ remote' = [remote EXCEPT !.starting = 0, !.service = known]
      BY <1>2 DEF ToggleReturns, StaleStart, ServiceInv, ServiceTyped
    <2>2. remote' = [generation |-> remote.generation, starting |-> 0, service |-> known]
      BY <2>1 DEF ServiceInv, ServiceTyped
    <2>3. service[g] \in [at : Starting \cup {"off", "over"}, holds : SUBSET Resources, stopped : BOOLEAN]
      BY DEF ServiceInv, ServiceTyped
    <2>4. s = [at |-> "over", holds |-> service[g].holds, stopped |-> service[g].stopped]
      BY <2>3
    <2>5. known \in {0, g} /\ remote.service \in {0, g} /\ (service[g].at = "started" => known = g) /\ (remote.service # 0 => known = g)
      BY <2>1 DEF ServiceInv, RemoteOwned
    <2>6. service[g].at # "started" => service[g].stopped
      BY <2>1 DEF ServiceInv
    <2>7. g \notin leaked => (service[g].stopped => service[g].holds = {})
      BY DEF ServiceInv
    <2>8. g \in 0..MaxActivations /\ 0 \in 0..MaxActivations
      BY RemoteAssumption DEF Activations
    <2>9. s \in [at : Starting \cup {"off", "over"}, holds : SUBSET Resources, stopped : BOOLEAN]
      BY <2>3, <2>4
    <2> HIDE DEF s, known
    <2>10. remote' \in [generation : 0..MaxActivations, starting : 0..MaxActivations, service : 0..MaxActivations]
           /\ remote'.generation = g /\ remote'.service = known /\ remote'.starting = 0
      BY <2>1, <2>2, <2>5, <2>8
    <2>11. remote.service # g => remote.service \in {0, remote'.service}
      BY <2>5, <2>10
    <2> QED BY <2>1, <2>4, <2>5, <2>6, <2>7, <2>9, <2>10, <2>11, OneService
  <1> QED BY <1>1, <1>2

\* The service is stopped, a start under way is left to find out.
LEMMA StopRemoteInv == ASSUME ServiceInv, StopRemote PROVE ServiceInv'
  <1>1. /\ remote.generation < MaxActivations /\ leaked' = leaked
        /\ remote' = [generation |-> remote.generation + 1, starting |-> 0, service |-> 0]
        /\ service' = [g \in Activations |-> IF g = remote.service THEN Stopped(service[g]) ELSE service[g]]
    BY DEF StopRemote, ServiceInv, ServiceTyped
  <1>2. remote.generation + 1 \in 0..MaxActivations /\ 0 \in 0..MaxActivations
    BY <1>1, RemoteAssumption DEF ServiceInv, ServiceTyped
  <1>3. \A g \in Activations :
          /\ service'[g] \in [at : Starting \cup {"off", "over"}, holds : SUBSET Resources, stopped : BOOLEAN]
          /\ service'[g].at = service[g].at /\ (service[g].stopped => service'[g].stopped)
          /\ g \notin leaked /\ (g = remote.service \/ service[g].holds = {} \/ service'[g].stopped) => 
               service'[g].holds = {} \/ ~service'[g].stopped
    <2> TAKE g \in Activations
    <2>1. CASE g = remote.service
      BY <1>1, <2>1, StoppedFacts
    <2>2. CASE g # remote.service
      BY <1>1, <2>2 DEF ServiceInv, ServiceTyped
    <2> QED BY <2>1, <2>2
  <1>4. ServiceTyped'
    BY <1>1, <1>2, <1>3 DEF ServiceTyped
  <1>5. ASSUME NEW g \in Activations \ leaked', service'[g].holds # {} PROVE service'[g].at \in Starting
    <2>1. g # remote.service
      BY <1>1, <1>5, StoppedFacts
    <2>2. service'[g] = service[g]
      BY <1>1, <2>1
    <2> QED BY <1>1, <1>5, <2>1, <2>2 DEF ServiceInv, RemoteOwned, Activations
  <1>6. \A g \in Activations : service'[g].at = "failed" => service'[g].stopped
    BY <1>3 DEF ServiceInv
  <1>7. \A g \in Activations \ leaked' : service'[g].stopped => service'[g].holds = {}
    BY <1>1, <1>3
  <1> QED BY <1>1, <1>4, <1>5, <1>6, <1>7 DEF ServiceInv, RemoteOwned, Activations

----------------------------------------------------------------------------
LEMMA TerminalStays == ASSUME TerminalInv, UNCHANGED <<term, page, drawn, frame>> PROVE TerminalInv'
  <1> QED BY DEF TerminalInv, TerminalTyped, ActiveAttached, FrameCurrent, RowsTold, ToldLast, Attached, SizeOf

LEMMA ServiceStays == ASSUME ServiceInv, UNCHANGED <<remote, service, leaked>> PROVE ServiceInv'
  <1> QED BY DEF ServiceInv, ServiceTyped, RemoteOwned

LEMMA NextRemote == ASSUME TerminalInv, ServiceInv, [RemoteNext]_remoteVars PROVE TerminalInv' /\ ServiceInv'
  <1>1. CASE Attach
    BY <1>1, AttachInv, ServiceStays DEF Attach
  <1>2. CASE RenderBegins
    BY <1>2, RenderBeginsInv, ServiceStays DEF RenderBegins
  <1>3. CASE RenderWrites
    BY <1>3, RenderWritesInv, ServiceStays DEF RenderWrites
  <1>4. CASE ToggleOn
    BY <1>4, ToggleOnInv, TerminalStays DEF ToggleOn
  <1>5. CASE StopRemote
    BY <1>5, StopRemoteInv, TerminalStays DEF StopRemote
  <1>6. ASSUME NEW c \in 1..MaxClients, ClientInput(c) PROVE TerminalInv' /\ ServiceInv'
    BY <1>6, ClientInputInv, ServiceStays DEF ClientInput
  <1>7. ASSUME NEW c \in 1..MaxClients, ClientClose(c) PROVE TerminalInv' /\ ServiceInv'
    BY <1>7, ClientCloseInv, ServiceStays DEF ClientClose
  <1>8. ASSUME NEW c \in 1..MaxClients, BrowserReads(c) PROVE TerminalInv' /\ ServiceInv'
    BY <1>8, BrowserReadsInv, ServiceStays DEF BrowserReads
  <1>9. ASSUME NEW c \in 1..MaxClients, NEW size \in ScreenSizes, ClientResize(c, size) PROVE TerminalInv' /\ ServiceInv'
    BY <1>9, ClientResizeInv, ServiceStays DEF ClientResize
  <1>10. ASSUME NEW size \in ScreenSizes, LocalResize(size) PROVE TerminalInv' /\ ServiceInv'
    BY <1>10, LocalResizeInv, ServiceStays DEF LocalResize
  <1>11. ASSUME NEW r \in ScreenRows, ScreenChanges(r) PROVE TerminalInv' /\ ServiceInv'
    BY <1>11, ScreenChangesInv, ServiceStays DEF ScreenChanges
  <1>12. ASSUME NEW g \in Activations, StartStep(g) \/ StartFails(g) \/ ServeFails(g) \/ ToggleReturns(g)
         PROVE  TerminalInv' /\ ServiceInv'
    <2>1. TerminalInv'
      BY <1>12, TerminalStays DEF StartStep, StartFails, ServeFails, ToggleReturns
    <2> QED BY <1>12, <2>1, StartStepInv, StartFailsInv, ServeFailsInv, ToggleReturnsInv
  <1>13. CASE UNCHANGED remoteVars
    BY <1>13, TerminalStays, ServiceStays DEF remoteVars
  <1> QED
    BY <1>1, <1>2, <1>3, <1>4, <1>5, <1>6, <1>7, <1>8, <1>9, <1>10, <1>11, <1>12, <1>13 DEF RemoteNext, Activations

\* A browser that has read everything was told of every row last what is shown.
LEMMA TerminalShown == TerminalInv => BrowsersShowScreen /\ SizeFollows
  <1> SUFFICES ASSUME TerminalInv PROVE BrowsersShowScreen /\ SizeFollows
    OBVIOUS
  <1>1. ~frame.wanted /\ frame.size = NoSize => drawn.size = SizeOf(term) /\ drawn.rows = page
    BY DEF TerminalInv, FrameCurrent
  <1>2. SizeFollows
    BY <1>1, RemoteAssumption DEF TerminalInv, ActiveAttached, SizeFollows, Attached
  <1>3. ASSUME ~frame.wanted, frame.size = NoSize, NEW c \in Attached, term.clients[c].queue = <<>>, ~term.clients[c].partial
        PROVE  term.clients[c].shows = [r \in ScreenRows |-> page[r] + 1]
    <2>1. \A r \in ScreenRows : ToldLast(term.clients[c], r)
      BY <1>3 DEF TerminalInv, RowsTold
    <2>2. \A r \in ScreenRows : term.clients[c].shows[r] = page[r] + 1
      BY <1>1, <1>3, <2>1 DEF ToldLast
    <2>3. term.clients[c].shows \in Writes
      BY RecordFacts DEF TerminalInv, ClientRecords, Attached
    <2> QED BY <2>2, <2>3 DEF Writes
  <1> QED BY <1>2, <1>3 DEF BrowsersShowScreen

\* However activations, toggles, attachments and renders interleave, every browser
\* is shown the screen in its latest size, and a service left behind holds nothing
\* (internal/remote/terminal.go:82, control.go:45).
THEOREM RemoteIsKept == RemoteSpec => []RemoteKept
  <1>1. RemoteInit => TerminalInv /\ ServiceInv
    BY InitTerminal, InitService
  <1>2. TerminalInv /\ ServiceInv /\ [RemoteNext]_remoteVars => (TerminalInv /\ ServiceInv)'
    BY NextRemote
  <1>3. TerminalInv /\ ServiceInv => RemoteKept
    BY TerminalShown DEF RemoteKept, ServiceInv
  <1> QED BY <1>1, <1>2, <1>3, PTL DEF RemoteSpec

-----------------------------------------------------------------------------
(* The saved credential of a provider.                                      *)
CredentialKinds == {"none", "oauth", "api_key"}
SavedCredentials == [kind : CredentialKinds, keys : Seq(Keys), active : Keys \cup {""}, token : Nat]
CredentialsTyped ==
  /\ saved \in SavedCredentials /\ last \in BOOLEAN /\ disturbed \in BOOLEAN /\ issued \in Nat
  /\ asking \in [Callers -> [at : {"idle", "waiting", "exchanging", "exchanged"}, token : Nat]]
  /\ Callers \subseteq Stores \X Nat

KeysDistinct ==
  /\ saved.kind = "api_key" => IsInjective(saved.keys) /\ saved.active \in Range(saved.keys)
  /\ last => saved.kind # "none"

\* Nobody disturbed: one caller at most exchanges, and what it exchanges is the
\* newest token, which is saved until it has the next one.
NewestHeld ==
  /\ saved.kind = wanted
  /\ \A c, d \in Refreshing : c = d
  /\ \A c \in Refreshing :
       /\ saved.kind = "oauth" /\ asking[c].token = issued
       /\ asking[c].at = "exchanging" => saved.token = issued
  /\ saved.kind = "oauth" /\ Refreshing = {} => saved.token = issued

CredentialsInv == CredentialsTyped /\ KeysDistinct /\ (~disturbed => NewestHeld)

LEMMA InitCredentials == CredentialsInit => CredentialsInv
  <1> SUFFICES ASSUME CredentialsInit PROVE CredentialsInv
    OBVIOUS
  <1>1. NoCredential \in SavedCredentials /\ NoCredential.kind = "none"
    BY EmptySeq DEF NoCredential, SavedCredentials, CredentialKinds
  <1>2. CredentialsTyped
    BY <1>1, CredentialsAssumption DEF CredentialsInit, CredentialsTyped, NoRefresh
  <1>3. Refreshing = {}
    BY DEF CredentialsInit, Refreshing, NoRefresh
  <1> QED BY <1>1, <1>2, <1>3 DEF CredentialsInit, CredentialsInv, KeysDistinct, NewestHeld

\* An edit during an exchange disturbs it, another one stays as it is asked.
LEMMA EditedInv ==
  ASSUME CredentialsInv, NEW edited \in SavedCredentials, Edited(edited), issued' \in Nat, issued' >= issued, last' \in BOOLEAN,
         edited.kind = "oauth" => edited.token = issued',
         edited.kind = "api_key" => IsInjective(edited.keys) /\ edited.active \in Range(edited.keys),
         last' => edited.kind # "none"
  PROVE  CredentialsInv'
  <1>1. saved' = edited /\ wanted' = edited.kind /\ asking' = asking /\ disturbed' = (disturbed \/ Refreshing # {})
    BY DEF Edited
  <1>2. disturbed' \in BOOLEAN
    BY <1>1, Zenon
  <1>3. CredentialsTyped'
    BY <1>1, <1>2 DEF CredentialsInv, CredentialsTyped
  <1>4. KeysDistinct'
    BY <1>1 DEF KeysDistinct
  <1>5. Refreshing' = Refreshing /\ (~disturbed' => Refreshing = {})
    BY <1>1 DEF Refreshing
  <1> QED BY <1>1, <1>3, <1>4, <1>5 DEF CredentialsInv, NewestHeld

\* Keys, one of them active, are a credential.
LEMMA APIKeysFacts ==
  ASSUME NEW keys \in Seq(Keys), NEW key \in Range(keys)
  PROVE  /\ APIKeys(keys, key) \in SavedCredentials /\ APIKeys(keys, key).kind = "api_key"
         /\ APIKeys(keys, key).keys = keys /\ APIKeys(keys, key).active = key
  <1>1. key \in Keys
    BY DEF Range
  <1> QED BY <1>1 DEF APIKeys, NoCredential, SavedCredentials, CredentialKinds

LEMMA OAuthFacts ==
  ASSUME NEW token \in Nat
  PROVE  OAuth(token) \in SavedCredentials /\ OAuth(token).kind = "oauth" /\ OAuth(token).token = token
  BY EmptySeq DEF OAuth, NoCredential, SavedCredentials, CredentialKinds

LEMMA NoneFacts == NoCredential \in SavedCredentials /\ NoCredential.kind = "none"
  BY EmptySeq DEF NoCredential, SavedCredentials, CredentialKinds

LEMMA NothingLeftInv ==
  ASSUME CredentialsInv, Edited(NoCredential), last' = FALSE, issued' = issued
  PROVE  CredentialsInv'
  <1>1. issued' \in Nat /\ issued' >= issued
    BY DEF CredentialsInv, CredentialsTyped
  <1>2. PICK none \in SavedCredentials : none = NoCredential /\ none.kind = "none"
    BY NoneFacts
  <1>3. Edited(none)
    BY <1>2
  <1> QED BY <1>1, <1>2, <1>3, EditedInv

LEMMA SignInInv == ASSUME CredentialsInv, Login PROVE CredentialsInv'
  <1>1. issued' = issued + 1 /\ Edited(OAuth(issued')) /\ last' = TRUE /\ issued \in Nat
    BY DEF Login, CredentialsInv, CredentialsTyped
  <1> QED BY <1>1, OAuthFacts, EditedInv

LEMMA AddAPIKeyInv == ASSUME CredentialsInv, NEW key \in Keys, AddAPIKey(key) PROVE CredentialsInv'
  <1>1. issued' = issued /\ issued \in Nat /\ last' = TRUE /\ saved.keys \in Seq(Keys)
    BY DEF AddAPIKey, serverVars, CredentialsInv, CredentialsTyped, SavedCredentials
  <1>2. ASSUME NEW keys \in Seq(Keys), IsInjective(keys), key \in Range(keys), Edited(APIKeys(keys, key)) PROVE CredentialsInv'
    BY <1>1, <1>2, APIKeysFacts, EditedInv
  <1>3. CASE saved.kind # "api_key"
    <2>1. <<key>> \in Seq(Keys) /\ IsInjective(<<key>>) /\ key \in Range(<<key>>)
      BY DEF IsInjective, Range
    <2> QED BY <1>2, <1>3, <2>1 DEF AddAPIKey
  <1>4. CASE saved.kind = "api_key" /\ key \in Range(saved.keys)
    BY <1>1, <1>2, <1>4 DEF AddAPIKey, CredentialsInv, KeysDistinct
  <1>5. CASE saved.kind = "api_key" /\ key \notin Range(saved.keys)
    <2> DEFINE keys == Append(saved.keys, key)
    <2>1. /\ keys \in Seq(Keys) /\ Len(saved.keys) \in Nat /\ DOMAIN saved.keys = 1..Len(saved.keys)
          /\ DOMAIN keys = 1..(Len(saved.keys) + 1) /\ keys[Len(saved.keys) + 1] = key
          /\ \A i \in 1..Len(saved.keys) : keys[i] = saved.keys[i]
      BY <1>1
    <2> HIDE DEF keys
    <2>2. \A i \in 1..Len(saved.keys) : saved.keys[i] # key
      BY <1>5, <2>1 DEF Range
    <2>3. \A i, j \in 1..Len(saved.keys) : saved.keys[i] = saved.keys[j] => i = j
      BY <1>5, <2>1 DEF CredentialsInv, KeysDistinct, IsInjective
    <2>4. ASSUME NEW i \in DOMAIN keys, NEW j \in DOMAIN keys, keys[i] = keys[j] PROVE i = j
      <3>1. CASE i \in 1..Len(saved.keys) /\ j \in 1..Len(saved.keys)
        BY <2>1, <2>3, <2>4, <3>1
      <3>2. CASE i \notin 1..Len(saved.keys)
        <4>1. i = Len(saved.keys) + 1
          BY <2>1, <3>2
        <4> QED BY <2>1, <2>2, <2>4, <4>1
      <3>3. CASE j \notin 1..Len(saved.keys)
        <4>1. j = Len(saved.keys) + 1
          BY <2>1, <3>3
        <4> QED BY <2>1, <2>2, <2>4, <4>1
      <3> QED BY <3>1, <3>2, <3>3
    <2>5. IsInjective(keys) /\ key \in Range(keys)
      BY <2>1, <2>4 DEF IsInjective, Range
    <2>6. Edited(APIKeys(keys, key))
      BY <1>5 DEF AddAPIKey, keys
    <2> QED BY <1>2, <2>1, <2>5, <2>6
  <1> QED BY <1>3, <1>4, <1>5

LEMMA SetActiveAPIKeyInv == ASSUME CredentialsInv, NEW key \in Keys, SetActiveAPIKey(key) PROVE CredentialsInv'
  <1> DEFINE edited == [saved EXCEPT !.active = key]
  <1>1. saved \in SavedCredentials /\ issued' = issued /\ issued \in Nat /\ last' = TRUE /\ Edited(edited)
        /\ saved.kind = "api_key" /\ key \in Range(saved.keys) /\ IsInjective(saved.keys)
    BY DEF SetActiveAPIKey, serverVars, CredentialsInv, CredentialsTyped, KeysDistinct
  <1>2. edited \in SavedCredentials /\ edited.kind = "api_key" /\ edited.keys = saved.keys /\ edited.active = key
    BY <1>1 DEF SavedCredentials
  <1> HIDE DEF edited
  <1> QED BY <1>1, <1>2, EditedInv

\* What is left without one of them.
LEMMA RemovedFacts ==
  ASSUME NEW s \in Seq(Keys), IsInjective(s), NEW i \in DOMAIN s
  PROVE  /\ RemoveAt(s, i) \in Seq(Keys) /\ IsInjective(RemoveAt(s, i))
         /\ Range(RemoveAt(s, i)) = Range(s) \ {s[i]}
         /\ RemoveAt(s, i) # <<>> => RemoveAt(s, i)[1] \in Range(RemoveAt(s, i))
  <1> DEFINE n == Len(s)
             rest == RemoveAt(s, i)
  <1>1. n \in Nat /\ i \in 1..n /\ DOMAIN s = 1..n /\ \A j \in 1..n : s[j] \in Keys
    OBVIOUS
  <1> HIDE DEF rest
  <1>5. /\ rest \in Seq(Keys) /\ Len(rest) = n - 1 /\ DOMAIN rest = 1..(n - 1)
        /\ \A j \in 1..(n - 1) : rest[j] = IF j < i THEN s[j] ELSE s[j + 1]
    BY RemoveAtFacts DEF rest
  <1>6. \A j, k \in 1..n : s[j] = s[k] => j = k
    BY <1>1 DEF IsInjective
  <1>7. IsInjective(rest)
    <2> DEFINE from(j) == IF j < i THEN j ELSE j + 1
    <2>0. \A j \in 1..(n - 1) : from(j) \in 1..n /\ rest[j] = s[from(j)]
      BY <1>1, <1>5
    <2>1. ASSUME NEW j \in 1..(n - 1), NEW k \in 1..(n - 1), rest[j] = rest[k] PROVE j = k
      <3>1. from(j) = from(k)
        BY <1>6, <2>0, <2>1
      <3> QED BY <1>1, <3>1
    <2> QED BY <1>5, <2>1 DEF IsInjective
  <1>8. Range(rest) = Range(s) \ {s[i]}
    <2>1. ASSUME NEW j \in 1..(n - 1) PROVE rest[j] \in Range(s) \ {s[i]}
      <3>1. PICK k \in 1..n : k # i /\ rest[j] = s[k]
        BY <1>1, <1>5
      <3> QED BY <1>1, <1>6, <3>1 DEF Range
    <2>2. ASSUME NEW j \in 1..n, j # i PROVE s[j] \in Range(rest)
      <3>1. CASE j < i
        <4>1. j \in 1..(n - 1) /\ rest[j] = s[j]
          BY <1>1, <1>5, <3>1
        <4> QED BY <1>5, <4>1 DEF Range
      <3>2. CASE ~(j < i)
        <4>1. j - 1 \in 1..(n - 1) /\ ~(j - 1 < i) /\ (j - 1) + 1 = j
          BY <1>1, <2>2, <3>2
        <4>2. rest[j - 1] = s[j]
          BY <1>5, <4>1
        <4> QED BY <1>5, <4>1, <4>2 DEF Range
      <3> QED BY <3>1, <3>2
    <2> QED BY <1>1, <1>5, <2>1, <2>2 DEF Range
  <1>9. rest # <<>> => rest[1] \in Range(rest)
    BY <1>5 DEF Range
  <1> QED BY <1>5, <1>7, <1>8, <1>9 DEF rest

LEMMA DeleteAPIKeyInv == ASSUME CredentialsInv, NEW key \in Keys, DeleteAPIKey(key) PROVE CredentialsInv'
  <1>1. PICK i \in DOMAIN saved.keys :
          LET keys == RemoveAt(saved.keys, i) IN
          /\ saved.keys[i] = key
          /\ IF keys = <<>> THEN Edited(NoCredential) /\ last' = FALSE
             ELSE /\ Edited(APIKeys(keys, IF saved.active = key THEN keys[1] ELSE saved.active))
                  /\ UNCHANGED last
    BY DEF DeleteAPIKey
  <1> DEFINE keys == RemoveAt(saved.keys, i)
             key2 == IF saved.active = key THEN keys[1] ELSE saved.active
  <1>2. /\ issued' = issued /\ issued \in Nat /\ saved.kind = "api_key" /\ saved.keys \in Seq(Keys)
        /\ IsInjective(saved.keys) /\ saved.active \in Range(saved.keys) /\ last \in BOOLEAN
    BY DEF DeleteAPIKey, serverVars, CredentialsInv, CredentialsTyped, SavedCredentials, KeysDistinct
  <1>3. /\ keys \in Seq(Keys) /\ IsInjective(keys) /\ Range(keys) = Range(saved.keys) \ {key}
        /\ keys # <<>> => keys[1] \in Range(keys)
    BY <1>1, <1>2, RemovedFacts
  <1>4. CASE keys = <<>>
    <2>1. Edited(NoCredential) /\ last' = FALSE
      BY <1>1, <1>4
    <2> QED BY <1>2, <2>1, NothingLeftInv
  <1>5. CASE keys # <<>>
    <2>1. Edited(APIKeys(keys, key2)) /\ last' = last
      BY <1>1, <1>5
    <2>2. key2 \in Range(keys)
      BY <1>2, <1>3, <1>5
    <2> HIDE DEF keys, key2
    <2> QED BY <1>2, <1>3, <2>1, <2>2, APIKeysFacts, EditedInv
  <1> QED BY <1>4, <1>5

LEMMA DeleteInv == ASSUME CredentialsInv, Delete PROVE CredentialsInv'
  <1>1. Edited(NoCredential) /\ last' = FALSE /\ issued' = issued /\ issued \in Nat
    BY DEF Delete, serverVars, CredentialsInv, CredentialsTyped
  <1> QED BY <1>1, NothingLeftInv

\* A caller that goes on, and none that refreshes beside it.
LEMMA AskingFacts ==
  ASSUME CredentialsTyped, NEW caller \in Callers, NEW r, r \in [at : {"idle", "waiting", "exchanging", "exchanged"}, token : Nat],
         asking' = [asking EXCEPT ![caller] = r]
  PROVE  /\ asking' \in [Callers -> [at : {"idle", "waiting", "exchanging", "exchanged"}, token : Nat]]
         /\ asking'[caller] = r /\ \A c \in Callers \ {caller} : asking'[c] = asking[c]
         /\ Refreshing' = (Refreshing \ {caller}) \cup (IF r.at \in {"exchanging", "exchanged"} THEN {caller} ELSE {})
  BY DEF CredentialsTyped, Refreshing

LEMMA AskInv == ASSUME CredentialsInv, NEW caller \in Callers, Ask(caller) PROVE CredentialsInv'
  <1> DEFINE r == [at |-> "waiting", token |-> 0]
  <1>1. /\ asking' = [asking EXCEPT ![caller] = r] /\ asking[caller].at = "idle"
        /\ UNCHANGED <<saved, last, issued, wanted, disturbed>>
    BY DEF Ask, At, NoRefresh, fileVars, serverVars
  <1>2. r \in [at : {"idle", "waiting", "exchanging", "exchanged"}, token : Nat] /\ r.at = "waiting"
    OBVIOUS
  <1> HIDE DEF r
  <1>3. /\ asking' \in [Callers -> [at : {"idle", "waiting", "exchanging", "exchanged"}, token : Nat]]
        /\ \A c \in Callers \ {caller} : asking'[c] = asking[c]
        /\ Refreshing' = Refreshing /\ caller \notin Refreshing
    BY <1>1, <1>2, AskingFacts DEF CredentialsInv, Refreshing
  <1>4. CredentialsTyped' /\ KeysDistinct'
    BY <1>1, <1>3 DEF CredentialsInv, CredentialsTyped, KeysDistinct
  <1> QED BY <1>1, <1>3, <1>4 DEF CredentialsInv, NewestHeld, Refreshing

\* Whoever gets the lock undisturbed is alone, and takes the newest token with it.
LEMMA TakeLockInv == ASSUME CredentialsInv, NEW caller \in Callers, TakeLock(caller) PROVE CredentialsInv'
  <1>1. /\ UNCHANGED <<saved, last, issued, wanted>> /\ Free(caller) /\ caller \notin Refreshing
        /\ saved.token \in Nat
    BY DEF TakeLock, fileVars, serverVars, Refreshing, CredentialsInv, CredentialsTyped, SavedCredentials
  <1>2. CASE saved.kind = "oauth" /\ saved.token \in expired
    <2> DEFINE r == [at |-> "exchanging", token |-> saved.token]
    <2>1. asking' = [asking EXCEPT ![caller] = r] /\ disturbed' = (disturbed \/ \E other \in Refreshing : other[1] # caller[1])
      BY <1>2 DEF TakeLock, At
    <2>2. r \in [at : {"idle", "waiting", "exchanging", "exchanged"}, token : Nat] /\ r.at = "exchanging" /\ r.token = saved.token
      BY <1>1
    <2> HIDE DEF r
    <2>3. /\ asking' \in [Callers -> [at : {"idle", "waiting", "exchanging", "exchanged"}, token : Nat]]
          /\ asking'[caller] = r /\ \A c \in Callers \ {caller} : asking'[c] = asking[c]
          /\ Refreshing' = (Refreshing \ {caller}) \cup (IF r.at \in {"exchanging", "exchanged"} THEN {caller} ELSE {})
      BY <2>1, <2>2, AskingFacts DEF CredentialsInv
    <2>4. disturbed' \in BOOLEAN
      BY <2>1, Zenon
    <2>5. CredentialsTyped' /\ KeysDistinct'
      BY <1>1, <2>3, <2>4 DEF CredentialsInv, CredentialsTyped, KeysDistinct
    <2>6. ASSUME ~disturbed' PROVE NewestHeld'
      <3>1. ~disturbed /\ Refreshing = {}
        BY <1>1, <2>1, <2>6 DEF Free
      <3>2. saved.token = issued /\ saved.kind = wanted
        BY <1>2, <3>1 DEF CredentialsInv, NewestHeld
      <3>3. Refreshing' = {caller}
        BY <2>2, <2>3, <3>1
      <3> QED BY <1>1, <1>2, <2>2, <2>3, <3>2, <3>3 DEF NewestHeld
    <2> QED BY <2>5, <2>6 DEF CredentialsInv
  <1>3. CASE ~(saved.kind = "oauth" /\ saved.token \in expired)
    <2>1. asking' = [asking EXCEPT ![caller] = NoRefresh] /\ disturbed' = disturbed
      BY <1>3 DEF TakeLock
    <2>2. NoRefresh \in [at : {"idle", "waiting", "exchanging", "exchanged"}, token : Nat] /\ NoRefresh.at = "idle"
      BY DEF NoRefresh
    <2>3. /\ asking' \in [Callers -> [at : {"idle", "waiting", "exchanging", "exchanged"}, token : Nat]]
          /\ \A c \in Callers \ {caller} : asking'[c] = asking[c]
          /\ Refreshing' = (Refreshing \ {caller}) \cup (IF NoRefresh.at \in {"exchanging", "exchanged"} THEN {caller} ELSE {})
      BY <2>1, <2>2, AskingFacts DEF CredentialsInv
    <2>5. Refreshing' = Refreshing
      BY <1>1, <2>2, <2>3
    <2>4. CredentialsTyped' /\ KeysDistinct'
      BY <1>1, <2>1, <2>3 DEF CredentialsInv, CredentialsTyped, KeysDistinct
    <2> QED BY <1>1, <2>1, <2>3, <2>4, <2>5 DEF CredentialsInv, NewestHeld, Refreshing
  <1> QED BY <1>2, <1>3

\* A caller whose exchange is over without a token leaves the credential as it was.
LEMMA GivesUpInv ==
  ASSUME CredentialsInv, NEW caller \in Callers, asking' = [asking EXCEPT ![caller] = NoRefresh],
         issued' \in Nat, disturbed' \in BOOLEAN, UNCHANGED <<saved, last, wanted>>,
         ~disturbed' => ~disturbed /\ issued' = issued /\ asking[caller].at = "exchanging"
  PROVE  CredentialsInv'
  <1>1. NoRefresh \in [at : {"idle", "waiting", "exchanging", "exchanged"}, token : Nat] /\ NoRefresh.at = "idle"
    BY DEF NoRefresh
  <1>2. /\ asking' \in [Callers -> [at : {"idle", "waiting", "exchanging", "exchanged"}, token : Nat]]
        /\ Refreshing' = Refreshing \ {caller}
    BY <1>1, AskingFacts DEF CredentialsInv
  <1>3. CredentialsTyped' /\ KeysDistinct'
    BY <1>2 DEF CredentialsInv, CredentialsTyped, KeysDistinct
  <1>4. ASSUME ~disturbed' PROVE NewestHeld'
    <2>1. NewestHeld /\ caller \in Refreshing
      BY <1>4 DEF CredentialsInv, Refreshing
    <2>2. Refreshing' = {} /\ saved.token = issued
      BY <1>2, <1>4, <2>1 DEF NewestHeld
    <2> QED BY <1>4, <2>1, <2>2 DEF NewestHeld
  <1> QED BY <1>3, <1>4 DEF CredentialsInv

LEMMA ExchangeInv == ASSUME CredentialsInv, NEW caller \in Callers, Exchange(caller) PROVE CredentialsInv'
  <1>1. /\ asking[caller].at = "exchanging" /\ issued' = issued + 1 /\ issued \in Nat /\ issued' \in Nat
        /\ UNCHANGED <<saved, last, wanted>>
    BY DEF Exchange, fileVars, CredentialsInv, CredentialsTyped
  <1>2. CASE At(caller, "exchanged", issued') /\ UNCHANGED disturbed
    <2> DEFINE r == [at |-> "exchanged", token |-> issued']
    <2>1. asking' = [asking EXCEPT ![caller] = r] /\ disturbed' = disturbed
      BY <1>2 DEF At
    <2>2. r \in [at : {"idle", "waiting", "exchanging", "exchanged"}, token : Nat] /\ r.at = "exchanged" /\ r.token = issued'
      BY <1>1
    <2> HIDE DEF r
    <2>3. /\ asking' \in [Callers -> [at : {"idle", "waiting", "exchanging", "exchanged"}, token : Nat]]
          /\ asking'[caller] = r
          /\ Refreshing' = (Refreshing \ {caller}) \cup (IF r.at \in {"exchanging", "exchanged"} THEN {caller} ELSE {})
      BY <2>1, <2>2, AskingFacts DEF CredentialsInv
    <2>4. caller \in Refreshing /\ Refreshing' = Refreshing
      <3>1. caller \in Refreshing
        BY <1>1 DEF Refreshing
      <3> QED BY <2>2, <2>3, <3>1
    <2>5. CredentialsTyped' /\ KeysDistinct'
      BY <1>1, <2>1, <2>3 DEF CredentialsInv, CredentialsTyped, KeysDistinct
    <2>6. ASSUME ~disturbed PROVE NewestHeld'
      <3>1. NewestHeld /\ Refreshing = {caller}
        BY <2>6, <2>4 DEF CredentialsInv, NewestHeld
      <3> QED BY <1>1, <2>2, <2>3, <2>4, <3>1 DEF NewestHeld
    <2> QED BY <2>1, <2>5, <2>6 DEF CredentialsInv
  <1>3. CASE asking' = [asking EXCEPT ![caller] = NoRefresh] /\ disturbed' = TRUE
    BY <1>1, <1>3, GivesUpInv
  <1> QED BY <1>2, <1>3 DEF Exchange

LEMMA PersistInv == ASSUME CredentialsInv, NEW caller \in Callers, Persist(caller) PROVE CredentialsInv'
  <1>1. /\ asking' = [asking EXCEPT ![caller] = NoRefresh] /\ asking[caller].at = "exchanged" /\ asking[caller].token \in Nat
        /\ UNCHANGED <<issued, wanted>> /\ issued \in Nat
    BY DEF Persist, serverVars, CredentialsInv, CredentialsTyped
  <1>2. CASE saved' = OAuth(asking[caller].token) /\ last' = TRUE /\ UNCHANGED disturbed
    <2>1. NoRefresh \in [at : {"idle", "waiting", "exchanging", "exchanged"}, token : Nat] /\ NoRefresh.at = "idle"
      BY DEF NoRefresh
    <2>2. /\ asking' \in [Callers -> [at : {"idle", "waiting", "exchanging", "exchanged"}, token : Nat]]
          /\ Refreshing' = Refreshing \ {caller} /\ caller \in Refreshing
      BY <1>1, <2>1, AskingFacts DEF CredentialsInv, Refreshing
    <2>3. saved' \in SavedCredentials /\ saved'.kind = "oauth" /\ saved'.token = asking[caller].token
      BY <1>1, <1>2, OAuthFacts
    <2>4. CredentialsTyped' /\ KeysDistinct'
      BY <1>1, <1>2, <2>2, <2>3 DEF CredentialsInv, CredentialsTyped, KeysDistinct
    <2>5. ASSUME ~disturbed PROVE NewestHeld'
      <3>1. NewestHeld
        BY <2>5 DEF CredentialsInv
      <3>2. Refreshing' = {} /\ asking[caller].token = issued /\ wanted = "oauth"
        BY <2>2, <3>1 DEF NewestHeld
      <3> QED BY <1>1, <2>3, <3>2 DEF NewestHeld
    <2> QED BY <1>2, <2>4, <2>5 DEF CredentialsInv
  <1>3. CASE UNCHANGED fileVars /\ disturbed' = TRUE
    BY <1>1, <1>3, GivesUpInv DEF fileVars
  <1> QED BY <1>2, <1>3 DEF Persist

LEMMA NextCredentials == CredentialsInv /\ [CredentialsNext]_credentialVars => CredentialsInv'
  <1> SUFFICES ASSUME CredentialsInv, [CredentialsNext]_credentialVars PROVE CredentialsInv'
    OBVIOUS
  <1>1. ASSUME UNCHANGED <<saved, last, issued, asking, wanted, disturbed>> PROVE CredentialsInv'
    BY <1>1 DEF CredentialsInv, CredentialsTyped, KeysDistinct, NewestHeld, Refreshing
  <1>2. CASE Expire \/ \E token \in 1..issued : Retire(token)
    BY <1>1, <1>2 DEF Expire, Retire, fileVars
  <1>3. ASSUME NEW caller \in Callers, ExchangeFails(caller) PROVE CredentialsInv'
    <2>1. issued' = issued /\ issued \in Nat /\ disturbed' = disturbed /\ disturbed \in BOOLEAN /\ UNCHANGED <<saved, last, wanted>>
          /\ asking' = [asking EXCEPT ![caller] = NoRefresh] /\ asking[caller].at = "exchanging"
      BY <1>3 DEF ExchangeFails, fileVars, serverVars, CredentialsInv, CredentialsTyped
    <2> QED BY <2>1, GivesUpInv
  <1>4. CASE UNCHANGED credentialVars
    BY <1>1, <1>4 DEF credentialVars, fileVars, serverVars
  <1> QED
    BY <1>2, <1>3, <1>4, SignInInv, DeleteInv, AddAPIKeyInv, SetActiveAPIKeyInv, DeleteAPIKeyInv, AskInv, TakeLockInv, ExchangeInv,
       PersistInv DEF CredentialsNext

\* Whoever refreshes the token beside whom, the newest one is saved, and keys that are
\* added, chosen and deleted leave an active one (pkg/ai/auth/store.go, oauth.go).
THEOREM CredentialsAreKept == CredentialsSpec => []CredentialsKept
  <1>1. CredentialsInv => CredentialsKept
    <2> SUFFICES ASSUME CredentialsInv PROVE CredentialsKept
      OBVIOUS
    <2>1. saved.kind # "none" => saved # NoCredential
      BY NoneFacts
    <2>2. ~disturbed => saved.kind = wanted /\ (saved.kind = "oauth" /\ Refreshing = {} => saved.token = issued)
      BY DEF CredentialsInv, NewestHeld
    <2> QED BY <2>1, <2>2 DEF CredentialsInv, KeysDistinct, CredentialsKept
  <1> QED BY <1>1, InitCredentials, NextCredentials, PTL DEF CredentialsSpec

-----------------------------------------------------------------------------
(* The goal of a session.                                                   *)
GoalStatuses == {"active", "paused", "complete", "blocked"}
GoalRecords == [objective : Objectives, status : GoalStatuses, since : Int, activeFor : Nat,
                limits : [tokens : Nat, turns : Nat, time : Nat], turns : Nat, tokens : Nat,
                evidence : BOOLEAN, blocker : BOOLEAN]

GoalTyped ==
  /\ goal = NoGoal \/ goal \in GoalRecords
  /\ time \in Nat /\ elapsed \in Nat /\ turnedBack \in BOOLEAN
  /\ consumed \in [turns : Nat, tokens : Nat]

\* The time since the goal was resumed, or made.
Running == IF goal.status = "active" THEN IF time > goal.since THEN time - goal.since ELSE 0 ELSE 0

\* What the file says was used is what was used; a clock that was set back hides
\* time and adds none.
GoalCharged ==
  /\ goal.turns = consumed.turns /\ goal.tokens = consumed.tokens
  /\ goal.evidence = (goal.status = "complete") /\ goal.blocker = (goal.status = "blocked")
  /\ goal.activeFor + Running <= elapsed
  /\ ~turnedBack => goal.activeFor + Running = elapsed /\ (goal.status = "active" => goal.since <= time)
  /\ closedAs # NoGoal => goal = closedAs /\ GoalClosed

GoalInv == GoalTyped /\ (goal # NoGoal => GoalCharged)

LEMMA MaxWithZero == ASSUME NEW x \in Int PROVE Max({x, 0}) = IF x > 0 THEN x ELSE 0
  BY DEF Max

LEMMA NoGoalFacts == NoGoal \notin GoalRecords /\ NoGoal.status = "none"
  BY DEF NoGoal, GoalRecords, GoalStatuses

LEMMA InitGoal == GoalInit => GoalInv
  <1>1. [turns |-> 0, tokens |-> 0] \in [turns : Nat, tokens : Nat]
    OBVIOUS
  <1> QED BY <1>1 DEF GoalInit, GoalInv, GoalTyped

LEMMA TickInv == ASSUME GoalInv, Tick PROVE GoalInv'
  <1>1. /\ UNCHANGED <<goal, consumed, closedAs>> /\ time' # time /\ time' \in 0..Min({time + 1, MaxNow})
        /\ elapsed' = (IF goal.status = "active" /\ time' > time THEN elapsed + 1 ELSE elapsed)
        /\ turnedBack' = (turnedBack \/ time' < time)
    BY DEF Tick
  <1>2. time \in Nat /\ elapsed \in Nat /\ time' \in Nat /\ elapsed' \in Nat
    BY <1>1 DEF GoalInv, GoalTyped
  <1>3. time' <= time + 1
    <2>1. Min({time + 1, MaxNow}) <= time + 1
      BY <1>2, GoalAssumption DEF Min
    <2>2. Min({time + 1, MaxNow}) \in Int
      BY <1>2, GoalAssumption DEF Min
    <2> QED BY <1>1, <1>2, <2>1, <2>2
  <1>4. turnedBack' \in BOOLEAN
    BY <1>1, Zenon
  <1>5. GoalTyped'
    BY <1>1, <1>2, <1>4 DEF GoalInv, GoalTyped
  <1>6. ASSUME goal # NoGoal PROVE GoalCharged'
    <2>1. GoalCharged /\ goal \in GoalRecords /\ goal.since \in Int /\ goal.activeFor \in Nat
      BY <1>6 DEF GoalInv, GoalTyped, GoalRecords
    <2>2. Running \in Nat /\ Running' \in Nat
      BY <1>1, <1>2, <2>1 DEF Running
    <2>3. /\ goal.activeFor + Running' <= elapsed'
          /\ ~turnedBack' => goal.activeFor + Running' = elapsed' /\ (goal.status = "active" => goal.since <= time')
      <3>1. CASE goal.status # "active"
        BY <1>1, <1>2, <2>1, <3>1 DEF GoalCharged, Running
      <3>2. CASE goal.status = "active" /\ time' > time
        <4>1. time' = time + 1 /\ elapsed' = elapsed + 1
          BY <1>1, <1>2, <1>3, <3>2
        <4>2. Running' <= Running + 1 /\ (goal.since <= time => Running' = Running + 1)
          BY <1>1, <1>2, <2>1, <3>2, <4>1 DEF Running
        <4>3. ~turnedBack' => ~turnedBack
          BY <1>1, Zenon
        <4>4. goal.activeFor + Running' <= elapsed'
          BY <1>2, <2>1, <2>2, <4>1, <4>2 DEF GoalCharged
        <4>5. ASSUME ~turnedBack PROVE goal.activeFor + Running' = elapsed' /\ goal.since <= time'
          BY <1>2, <2>1, <2>2, <3>2, <4>1, <4>2, <4>5 DEF GoalCharged
        <4> QED BY <4>3, <4>4, <4>5
      <3>3. CASE goal.status = "active" /\ ~(time' > time)
        <4>1. time' < time /\ elapsed' = elapsed
          BY <1>1, <1>2, <3>3
        <4>3. turnedBack'
          BY <1>1, <4>1, Zenon
        <4>2. Running' <= Running
          BY <1>1, <1>2, <2>1, <4>1 DEF Running
        <4> QED BY <1>2, <2>1, <2>2, <4>1, <4>2, <4>3 DEF GoalCharged
      <3> QED BY <3>1, <3>2, <3>3
    <2> QED BY <1>1, <2>1, <2>3 DEF GoalCharged, GoalClosed
  <1> QED BY <1>1, <1>5, <1>6 DEF GoalInv

LEMMA CreateGoalInv ==
  ASSUME GoalInv, NEW objective \in Objectives, NEW limits \in GoalLimits, CreateGoal(objective, limits)
  PROVE  GoalInv'
  <1> DEFINE new == [objective |-> objective, status |-> "active", since |-> time, activeFor |-> 0, limits |-> limits,
                     turns |-> 0, tokens |-> 0, evidence |-> FALSE, blocker |-> FALSE]
  <1>1. new \in GoalRecords /\ new # NoGoal /\ new.status = "active" /\ new.since = time /\ new.activeFor = 0 /\ new.turns = 0
        /\ new.tokens = 0 /\ new.evidence = FALSE /\ new.blocker = FALSE
    <2>1. new \in GoalRecords
      BY GoalAssumption DEF GoalInv, GoalTyped, GoalRecords, GoalStatuses
    <2> QED BY <2>1, NoGoalFacts
  <1>2. goal' \in {goal, new} /\ time' = time /\ (goal = NoGoal \/ GoalClosed)
        /\ IF goal' = goal THEN UNCHANGED <<elapsed, consumed, closedAs, turnedBack>>
           ELSE elapsed' = 0 /\ consumed' = [turns |-> 0, tokens |-> 0] /\ closedAs' = NoGoal /\ turnedBack' = FALSE
    BY DEF CreateGoal, Replace
  <1> HIDE DEF new
  <1>3. CASE goal' = goal
    BY <1>2, <1>3 DEF GoalInv, GoalTyped, GoalCharged, Running, GoalClosed
  <1>4. CASE goal' # goal
    <2>1. goal' = new /\ elapsed' = 0 /\ consumed' = [turns |-> 0, tokens |-> 0] /\ closedAs' = NoGoal /\ turnedBack' = FALSE
      BY <1>2, <1>4
    <2>2. Running' = 0
      BY <1>1, <1>2, <2>1 DEF Running, GoalInv, GoalTyped
    <2>3. GoalTyped'
      BY <1>1, <1>2, <2>1 DEF GoalInv, GoalTyped
    <2>4. goal'.activeFor + Running' = 0 /\ time <= time
      BY <1>1, <2>1, <2>2 DEF GoalInv, GoalTyped
    <2>5. GoalCharged'
      <3>1. goal'.turns = consumed'.turns /\ goal'.tokens = consumed'.tokens
        BY <1>1, <2>1
      <3>2. goal'.evidence = (goal'.status = "complete") /\ goal'.blocker = (goal'.status = "blocked")
        BY <1>1, <2>1
      <3>3. goal'.activeFor + Running' <= elapsed' /\ goal'.activeFor + Running' = elapsed' /\ goal'.since <= time'
        BY <1>1, <1>2, <2>1, <2>4
      <3> QED BY <2>1, <3>1, <3>2, <3>3 DEF GoalCharged
    <2> QED BY <2>3, <2>5 DEF GoalInv
  <1> QED BY <1>3, <1>4

\* A change of an open goal, whose time so far is what it was.
LEMMA MovedInv ==
  ASSUME GoalInv, NEW new \in GoalRecords, goal # NoGoal, ~GoalClosed, goal' \in {goal, new}, UNCHANGED <<time, elapsed, turnedBack>>,
         consumed' \in [turns : Nat, tokens : Nat],
         goal' = goal => consumed' = consumed,
         goal' # goal => new.turns = consumed'.turns /\ new.tokens = consumed'.tokens,
         new.evidence = (new.status = "complete"), new.blocker = (new.status = "blocked"),
         closedAs' = IF goal'.status \in {"complete", "blocked"} THEN goal' ELSE closedAs,
         new.activeFor + (IF new.status = "active" THEN IF time > new.since THEN time - new.since ELSE 0 ELSE 0)
           = goal.activeFor + Running,
         new.status = "active" => (goal.status = "active" /\ new.since = goal.since) \/ new.since = time
  PROVE  GoalInv'
  <1>1. GoalCharged /\ goal \in GoalRecords /\ closedAs = NoGoal
    BY DEF GoalInv, GoalTyped, GoalCharged
  <1>2. GoalTyped'
    BY <1>1 DEF GoalInv, GoalTyped
  <1>3. CASE goal' = goal
    BY <1>1, <1>2, <1>3 DEF GoalInv, GoalCharged, GoalClosed, Running
  <1>4. CASE goal' # goal
    <2>1. goal' = new /\ new # NoGoal
      BY <1>4, NoGoalFacts
    <2>2. goal'.activeFor + Running' = goal.activeFor + Running
      BY <2>1 DEF Running
    <2>3. closedAs' # NoGoal => goal' = closedAs' /\ GoalClosed'
      BY <1>1 DEF GoalClosed
    <2>4. new.status = "active" /\ ~turnedBack => new.since <= time
      BY <1>1 DEF GoalCharged, GoalInv, GoalTyped
    <2> QED BY <1>1, <1>2, <1>4, <2>1, <2>2, <2>3, <2>4 DEF GoalInv, GoalCharged
  <1> QED BY <1>3, <1>4

LEMMA RecordTurnInv == ASSUME GoalInv, NEW tokens \in Spent, RecordTurn(tokens) PROVE GoalInv'
  <1> DEFINE new == [goal EXCEPT !.turns = @ + 1, !.tokens = @ + tokens]
  <1>1. goal # NoGoal /\ goal.status = "active" /\ goal \in GoalRecords /\ GoalCharged /\ tokens \in Nat
    BY NoGoalFacts, GoalAssumption DEF RecordTurn, GoalInv, GoalTyped
  <1>2. /\ goal' \in {goal, new} /\ UNCHANGED <<time, elapsed, closedAs, turnedBack>>
        /\ consumed' = IF goal' = goal THEN consumed ELSE [turns |-> consumed.turns + 1, tokens |-> consumed.tokens + tokens]
    BY DEF RecordTurn, Replace
  <1>3. /\ new \in GoalRecords /\ new.turns = goal.turns + 1 /\ new.tokens = goal.tokens + tokens
        /\ new.status = goal.status /\ new.since = goal.since /\ new.activeFor = goal.activeFor
        /\ new.evidence = goal.evidence /\ new.blocker = goal.blocker
    <2>1. goal.turns + 1 \in Nat /\ goal.tokens + tokens \in Nat
      BY <1>1 DEF GoalRecords
    <2> QED BY <1>1, <2>1 DEF GoalRecords
  <1> HIDE DEF new
  <1>4. consumed' \in [turns : Nat, tokens : Nat] /\ (goal' = goal => consumed' = consumed)
        /\ (goal' # goal => new.turns = consumed'.turns /\ new.tokens = consumed'.tokens)
    BY <1>1, <1>2, <1>3 DEF GoalInv, GoalTyped, GoalCharged
  <1>5. ~GoalClosed /\ goal'.status = "active" /\ new.evidence = (new.status = "complete") /\ new.blocker = (new.status = "blocked")
    BY <1>1, <1>2, <1>3 DEF GoalClosed, GoalCharged
  <1>6. new.activeFor + (IF new.status = "active" THEN IF time > new.since THEN time - new.since ELSE 0 ELSE 0)
           = goal.activeFor + Running
    BY <1>1, <1>3 DEF Running
  <1> QED BY <1>1, <1>2, <1>3, <1>4, <1>5, <1>6, MovedInv

\* freezeActiveDuration adds what ran, and stops counting.
LEMMA FrozenFacts ==
  ASSUME GoalInv, goal # NoGoal
  PROVE  /\ Frozen \in GoalRecords /\ Frozen.activeFor = goal.activeFor + Running
         /\ Frozen.turns = goal.turns /\ Frozen.tokens = goal.tokens
         /\ Frozen.evidence = goal.evidence /\ Frozen.blocker = goal.blocker
  <1>1. goal \in GoalRecords /\ goal.since \in Int /\ goal.activeFor \in Nat /\ time \in Nat
    BY DEF GoalInv, GoalTyped, GoalRecords
  <1>2. CASE goal.status = "active"
    <2> DEFINE ran == Max({time - goal.since, 0})
    <2>1. ran = Running /\ ran \in Nat
      BY <1>1, <1>2, MaxWithZero DEF Running
    <2>2. Frozen = [goal EXCEPT !.activeFor = @ + ran, !.since = NotSince] /\ NotSince \in Int
      BY <1>2 DEF Frozen, NotSince
    <2> HIDE DEF ran
    <2>3. goal.activeFor + ran \in Nat
      BY <1>1, <2>1
    <2> QED BY <1>1, <2>1, <2>2, <2>3 DEF GoalRecords
  <1>3. CASE goal.status # "active"
    BY <1>1, <1>3 DEF Frozen, Running
  <1> QED BY <1>2, <1>3

LEMMA UpdateGoalInv ==
  ASSUME GoalInv, NEW objective \in Objectives, NEW target \in GoalStatuses, UpdateGoal(objective, target)
  PROVE  GoalInv'
  <1>1. /\ goal # NoGoal /\ ~GoalClosed /\ goal \in GoalRecords /\ GoalCharged
        /\ goal.status \in {"active", "paused"} /\ goal.evidence = FALSE /\ goal.blocker = FALSE
    BY DEF UpdateGoal, GoalInv, GoalTyped, GoalClosed, GoalCharged, GoalRecords, GoalStatuses
  <1>2. /\ UNCHANGED <<time, elapsed, consumed, turnedBack>>
        /\ closedAs' = IF goal'.status \in {"complete", "blocked"} THEN goal' ELSE closedAs
    BY DEF UpdateGoal
  <1>3. ASSUME NEW new \in GoalRecords, goal' \in {goal, new}, new.turns = goal.turns, new.tokens = goal.tokens,
               new.evidence = (new.status = "complete"), new.blocker = (new.status = "blocked"),
               new.activeFor + (IF new.status = "active" THEN IF time > new.since THEN time - new.since ELSE 0 ELSE 0)
                 = goal.activeFor + Running,
               new.status = "active" => (goal.status = "active" /\ new.since = goal.since) \/ new.since = time
        PROVE  GoalInv'
    <2>1. consumed' \in [turns : Nat, tokens : Nat] /\ new.turns = consumed'.turns /\ new.tokens = consumed'.tokens
      BY <1>1, <1>2, <1>3 DEF GoalInv, GoalTyped, GoalCharged
    <2> QED BY <1>1, <1>2, <1>3, <2>1, MovedInv
  <1>4. CASE objective # goal.objective /\ goal' \in {goal, [goal EXCEPT !.objective = objective]}
    <2> DEFINE new == [goal EXCEPT !.objective = objective]
    <2>1. /\ new \in GoalRecords /\ new.turns = goal.turns /\ new.tokens = goal.tokens /\ new.status = goal.status
          /\ new.since = goal.since /\ new.activeFor = goal.activeFor /\ new.evidence = FALSE /\ new.blocker = FALSE
      BY <1>1 DEF GoalRecords
    <2>2. goal' \in {goal, new}
      BY <1>4
    <2> HIDE DEF new
    <2> QED BY <1>1, <1>3, <2>1, <2>2 DEF Running
  <1>5. CASE target = "active" /\ goal' \in {goal, [[Resumed EXCEPT !.objective = objective] EXCEPT !.status = target]}
    <2> DEFINE from == IF goal.status = "paused" THEN time ELSE goal.since
               new == [[Resumed EXCEPT !.objective = objective] EXCEPT !.status = target]
    <2>1. goal.since \in Int /\ goal.activeFor \in Nat /\ time \in Nat /\ from \in Int
      BY <1>1 DEF GoalInv, GoalTyped, GoalRecords
    <2>2. Resumed = [goal EXCEPT !.since = from, !.blocker = FALSE]
      BY DEF Resumed
    <2> HIDE DEF from
    <2>3. /\ new \in GoalRecords /\ new.turns = goal.turns /\ new.tokens = goal.tokens /\ new.status = "active"
          /\ new.since = from /\ new.activeFor = goal.activeFor /\ new.evidence = FALSE /\ new.blocker = FALSE
      BY <1>1, <1>5, <2>1, <2>2 DEF GoalRecords
    <2>4. goal' \in {goal, new}
      BY <1>5
    <2> HIDE DEF new
    <2>5. new.activeFor + (IF time > new.since THEN time - new.since ELSE 0) = goal.activeFor + Running
      BY <1>1, <2>1, <2>3 DEF from, Running
    <2> QED BY <1>1, <1>3, <2>3, <2>4, <2>5 DEF from
  <1>6. ASSUME NEW evidence \in BOOLEAN, NEW blocker \in BOOLEAN,
               evidence = (target = "complete"), blocker = (target = "blocked"), target # "active",
               NEW new, new \in GoalRecords, goal' \in {goal, new}, new.turns = Frozen.turns, new.tokens = Frozen.tokens,
               new.activeFor = Frozen.activeFor, new.status = target, new.evidence = evidence, new.blocker = blocker
        PROVE  GoalInv'
    <2>1. new.turns = goal.turns /\ new.tokens = goal.tokens /\ new.activeFor = goal.activeFor + Running
      BY <1>1, <1>6, FrozenFacts
    <2>2. new.activeFor + 0 = new.activeFor
      BY <1>6 DEF GoalRecords
    <2> QED BY <1>3, <1>6, <2>1, <2>2
  <1>7. CASE target = "paused" /\ goal' \in {goal, [[Frozen EXCEPT !.objective = objective] EXCEPT !.status = target]}
    <2> DEFINE new == [[Frozen EXCEPT !.objective = objective] EXCEPT !.status = target]
    <2>1. /\ new \in GoalRecords /\ new.turns = Frozen.turns /\ new.tokens = Frozen.tokens /\ new.activeFor = Frozen.activeFor
          /\ new.status = target /\ new.evidence = FALSE /\ new.blocker = FALSE
      BY <1>1, FrozenFacts DEF GoalRecords
    <2>2. goal' \in {goal, new}
      BY <1>7
    <2> HIDE DEF new
    <2> QED BY <1>6, <1>7, <2>1, <2>2
  <1>8. CASE target = "complete" /\ goal' \in {goal, [[Frozen EXCEPT !.objective = objective, !.evidence = TRUE] EXCEPT !.status = target]}
    <2> DEFINE new == [[Frozen EXCEPT !.objective = objective, !.evidence = TRUE] EXCEPT !.status = target]
    <2>1. /\ new \in GoalRecords /\ new.turns = Frozen.turns /\ new.tokens = Frozen.tokens /\ new.activeFor = Frozen.activeFor
          /\ new.status = target /\ new.evidence = TRUE /\ new.blocker = FALSE
      BY <1>1, FrozenFacts DEF GoalRecords
    <2>2. goal' \in {goal, new}
      BY <1>8
    <2> HIDE DEF new
    <2> QED BY <1>6, <1>8, <2>1, <2>2
  <1>9. CASE target = "blocked" /\ goal' \in {goal, [[Frozen EXCEPT !.objective = objective, !.blocker = TRUE] EXCEPT !.status = target]}
    <2> DEFINE new == [[Frozen EXCEPT !.objective = objective, !.blocker = TRUE] EXCEPT !.status = target]
    <2>1. /\ new \in GoalRecords /\ new.turns = Frozen.turns /\ new.tokens = Frozen.tokens /\ new.activeFor = Frozen.activeFor
          /\ new.status = target /\ new.evidence = FALSE /\ new.blocker = TRUE
      BY <1>1, FrozenFacts DEF GoalRecords
    <2>2. goal' \in {goal, new}
      BY <1>9
    <2> HIDE DEF new
    <2> QED BY <1>6, <1>9, <2>1, <2>2
  <1>10. \/ objective # goal.objective /\ goal' \in {goal, [goal EXCEPT !.objective = objective]}
         \/ target = "active" /\ goal' \in {goal, [[Resumed EXCEPT !.objective = objective] EXCEPT !.status = target]}
         \/ target = "paused" /\ goal' \in {goal, [[Frozen EXCEPT !.objective = objective] EXCEPT !.status = target]}
         \/ target = "complete" /\ goal' \in {goal, [[Frozen EXCEPT !.objective = objective, !.evidence = TRUE] EXCEPT !.status = target]}
         \/ target = "blocked" /\ goal' \in {goal, [[Frozen EXCEPT !.objective = objective, !.blocker = TRUE] EXCEPT !.status = target]}
    BY DEF UpdateGoal, Replace, GoalStatuses
  <1> QED BY <1>4, <1>5, <1>7, <1>8, <1>9, <1>10

LEMMA NextGoal == GoalInv /\ [GoalNext]_goalVars => GoalInv'
  <1> SUFFICES ASSUME GoalInv, [GoalNext]_goalVars PROVE GoalInv'
    OBVIOUS
  <1>1. CASE ClearGoal
    BY <1>1 DEF ClearGoal, GoalInv, GoalTyped
  <1>2. CASE UNCHANGED goalVars
    BY <1>2 DEF goalVars, GoalInv, GoalTyped, GoalCharged, Running, GoalClosed
  <1> QED BY <1>1, <1>2, TickInv, CreateGoalInv, UpdateGoalInv, RecordTurnInv DEF GoalNext, GoalStatuses

\* Whoever closed the goal, and however the clock, pauses and failed writes went,
\* a limit is told exactly when it was used up (internal/goal/goal.go:79).
THEOREM GoalIsKept == GoalSpec => []GoalKept
  <1>1. GoalInv => GoalKept
    <2> SUFFICES ASSUME GoalInv, goal # NoGoal PROVE GoalKept
      BY DEF GoalKept
    <2>1. GoalCharged /\ goal \in GoalRecords /\ elapsed \in Nat
      BY DEF GoalInv, GoalTyped
    <2>2. /\ goal.limits.time \in Nat /\ goal.since \in Int /\ goal.activeFor \in Nat /\ time \in Nat
      BY <2>1 DEF GoalRecords, GoalInv, GoalTyped
    <2>3. ActiveDuration = goal.activeFor + Running
      BY <2>2, MaxWithZero DEF ActiveDuration, Running
    <2>4. Running \in Nat
      BY <2>2 DEF Running
    <2>5. /\ Over(ActiveDuration, goal.limits.time) => Over(elapsed, goal.limits.time)
          /\ ~turnedBack => ActiveDuration = elapsed
      BY <2>1, <2>2, <2>3, <2>4 DEF Over, GoalCharged
    <2>6. goal.turns = consumed.turns /\ goal.tokens = consumed.tokens
      BY <2>1 DEF GoalCharged
    <2>7. consumed["turns"] = consumed.turns /\ consumed["tokens"] = consumed.tokens
          /\ goal.limits["turns"] = goal.limits.turns /\ goal.limits["tokens"] = goal.limits.tokens
      OBVIOUS
    <2> QED BY <2>1, <2>5, <2>6, <2>7 DEF GoalKept, GoalCharged, LimitReached
  <1> QED BY <1>1, InitGoal, NextGoal, PTL DEF GoalSpec

-----------------------------------------------------------------------------
(* The files of pkg/storage, whose limit drops the oldest entries.            *)
\* Times by id; a history is a sequence of ids.
Times(times) == DOMAIN times \subseteq SessionIds /\ \A talk \in DOMAIN times : times[talk] \in Int
Listed(times, list) == list \in Seq(SessionIds) /\ Ordered(times, list)

\* Later is earlier in the list, and no id is listed twice.
LEMMA ListedFacts ==
  ASSUME NEW times, NEW list, Times(times), Listed(times, list)
  PROVE  \A i, j \in DOMAIN list : (i < j <=> times[list[i]] > times[list[j]]) /\ (list[i] = list[j] => i = j)
  <1> SUFFICES ASSUME NEW i \in DOMAIN list, NEW j \in DOMAIN list
               PROVE  (i < j <=> times[list[i]] > times[list[j]]) /\ (list[i] = list[j] => i = j)
    OBVIOUS
  <1>1. i \in Nat /\ j \in Nat /\ list[i] \in DOMAIN times /\ list[j] \in DOMAIN times
    BY DEF Listed, Ordered, Range
  <1>2. times[list[i]] \in Int /\ times[list[j]] \in Int
    BY <1>1 DEF Times
  <1>3. (i < j => times[list[i]] > times[list[j]]) /\ (j < i => times[list[j]] > times[list[i]])
    BY DEF Listed, Ordered
  <1> QED BY <1>1, <1>2, <1>3

\* The history without an id.
LEMMA WithoutListed ==
  ASSUME NEW times, NEW list, NEW talk, Times(times), Listed(times, list)
  PROVE  /\ Listed(Restrict(times, DOMAIN times \ {talk}), Without(list, talk))
         /\ Range(Without(list, talk)) = DOMAIN times \ {talk}
         /\ Len(Without(list, talk)) <= Len(list)
  <1> DEFINE rest == Without(list, talk)
             left == Restrict(times, DOMAIN times \ {talk})
  <1>1. list \in Seq(SessionIds) /\ Range(list) = DOMAIN times /\ Len(list) \in Nat
    BY DEF Listed, Ordered
  <1>2. CASE talk \notin Range(list)
    <2>1. rest = list /\ DOMAIN times \ {talk} = DOMAIN times
      BY <1>1, <1>2 DEF Without
    <2>2. \A a \in DOMAIN times : left[a] = times[a]
      BY <2>1 DEF Restrict
    <2>3. DOMAIN left = DOMAIN times
      BY <2>1 DEF Restrict
    <2>4. \A i \in DOMAIN list : list[i] \in DOMAIN times
      BY <1>1 DEF Range
    <2>5. Listed(left, list)
      <3>1. \A i, j \in DOMAIN list : i < j => times[list[i]] > times[list[j]]
        BY DEF Listed, Ordered
      <3> HIDE DEF left
      <3> QED BY <1>1, <2>2, <2>3, <2>4, <3>1 DEF Listed, Ordered
    <2> QED BY <1>1, <2>1, <2>5
  <1>3. CASE talk \in Range(list)
    <2> DEFINE k == CHOOSE i \in DOMAIN list : list[i] = talk
    <2>1. k \in DOMAIN list /\ list[k] = talk /\ rest = RemoveAt(list, k)
      BY <1>3 DEF Range, Without
    <2> HIDE DEF k, rest
    <2> DEFINE n == Len(list)
               from(j) == IF j < k THEN j ELSE j + 1
    <2>2. /\ rest \in Seq(SessionIds) /\ Len(rest) = n - 1 /\ n \in Nat \ {0} /\ k \in 1..n
          /\ DOMAIN rest = 1..(n - 1) /\ DOMAIN list = 1..n
          /\ \A j \in 1..(n - 1) : from(j) \in 1..n /\ from(j) # k /\ rest[j] = list[from(j)]
      <3>1. /\ rest \in Seq(SessionIds) /\ Len(rest) = n - 1 /\ n \in Nat \ {0} /\ k \in 1..n
            /\ DOMAIN rest = 1..(n - 1) /\ \A j \in 1..(n - 1) : rest[j] = IF j < k THEN list[j] ELSE list[j + 1]
        BY <1>1, <2>1, RemoveAtFacts
      <3>2. DOMAIN list = 1..n
        BY <1>1
      <3> QED BY <3>1, <3>2
    <2>3. \A i, j \in 1..(n - 1) : i < j => from(i) < from(j)
      BY <2>2
    <2>4. \A j \in 1..n : j # k => \E i \in 1..(n - 1) : from(i) = j
      <3> SUFFICES ASSUME NEW j \in 1..n, j # k PROVE \E i \in 1..(n - 1) : from(i) = j
        OBVIOUS
      <3>1. CASE j < k
        <4>1. j \in 1..(n - 1) /\ from(j) = j
          BY <2>2, <3>1
        <4> QED BY <4>1
      <3>2. CASE ~(j < k)
        <4>1. j - 1 \in 1..(n - 1) /\ from(j - 1) = j
          BY <2>2, <3>2
        <4> QED BY <4>1
      <3> QED BY <3>1, <3>2
    <2>5. \A j \in 1..n : list[j] = talk => j = k
      BY <2>1, <2>2, ListedFacts
    <2> HIDE DEF from
    <2>6. Range(rest) = DOMAIN times \ {talk}
      <3>1. ASSUME NEW j \in 1..(n - 1) PROVE rest[j] \in DOMAIN times \ {talk}
        BY <1>1, <2>2, <2>5 DEF Range
      <3>2. ASSUME NEW a \in DOMAIN times \ {talk} PROVE a \in Range(rest)
        <4>1. PICK j \in 1..n : list[j] = a
          BY <1>1, <2>2 DEF Range
        <4>2. j # k
          BY <2>1, <4>1
        <4> QED BY <2>2, <2>4, <4>1, <4>2 DEF Range
      <3> QED BY <2>2, <3>1, <3>2 DEF Range
    <2>7. DOMAIN left = DOMAIN times \ {talk} /\ \A a \in DOMAIN left : left[a] = times[a]
      BY DEF Restrict
    <2>8. ASSUME NEW i \in DOMAIN rest, NEW j \in DOMAIN rest, i < j PROVE left[rest[i]] > left[rest[j]]
      <3>1. from(i) < from(j) /\ rest[i] = list[from(i)] /\ rest[j] = list[from(j)] /\ from(i) \in 1..n /\ from(j) \in 1..n
        BY <2>2, <2>3, <2>8
      <3>2. times[list[from(i)]] > times[list[from(j)]]
        BY <2>2, <3>1, ListedFacts
      <3>3. rest[i] \in DOMAIN left /\ rest[j] \in DOMAIN left
        BY <2>6, <2>7 DEF Range
      <3> QED BY <2>7, <3>1, <3>2, <3>3
    <2>9. Len(rest) <= Len(list)
      BY <2>2
    <2> QED BY <2>2, <2>6, <2>7, <2>8, <2>9 DEF Listed, Ordered, rest
  <1> QED BY <1>2, <1>3

\* The newest of listed entries are those the list begins with.
LEMMA NewestListed ==
  ASSUME NEW times, NEW list, Times(times), Listed(times, list)
  PROVE  \A k \in DOMAIN list : list[k] \in NewestOf(times) <=> k <= Kept
  <1> SUFFICES ASSUME NEW k \in DOMAIN list PROVE list[k] \in NewestOf(times) <=> k <= Kept
    OBVIOUS
  <1> DEFINE before == {other \in DOMAIN times : Precedes(times, other, list[k])}
  <1>1. list \in Seq(SessionIds) /\ Range(list) = DOMAIN times /\ DOMAIN list = 1..Len(list) /\ Len(list) \in Nat /\ k \in Nat \ {0}
    BY DEF Listed, Ordered
  <1>2. \A j \in DOMAIN list : list[j] \in DOMAIN times /\ times[list[j]] \in Int
    BY <1>1 DEF Times, Range
  <1>3. \A j \in DOMAIN list : Precedes(times, list[j], list[k]) <=> j < k
    <2> SUFFICES ASSUME NEW j \in DOMAIN list PROVE Precedes(times, list[j], list[k]) <=> j < k
      OBVIOUS
    <2>1. (j < k <=> times[list[j]] > times[list[k]]) /\ (k < j <=> times[list[k]] > times[list[j]])
          /\ times[list[j]] \in Int /\ times[list[k]] \in Int
      BY <1>2, ListedFacts
    <2>2. times[list[j]] = times[list[k]] => j = k /\ ~(list[j] < list[k])
      <3>1. times[list[j]] = times[list[k]] => j = k
        BY <1>1, <2>1
      <3>2. list[k] \in Nat
        <4>1. list[k] \in SessionIds
          BY <1>1
        <4> QED BY <4>1 DEF SessionIds
      <3> QED BY <3>1, <3>2
    <2> QED BY <2>1, <2>2 DEF Precedes
  <1>4. before = {list[j] : j \in 1..(k - 1)}
    <2>1. ASSUME NEW a \in before PROVE \E j \in 1..(k - 1) : a = list[j]
      <3>1. PICK j \in DOMAIN list : list[j] = a
        BY <1>1 DEF Range
      <3>2. j < k
        BY <1>3, <3>1
      <3> QED BY <1>1, <3>1, <3>2
    <2>2. ASSUME NEW j \in 1..(k - 1) PROVE list[j] \in before
      <3>1. j \in DOMAIN list /\ j < k
        BY <1>1
      <3> QED BY <1>2, <1>3, <3>1
    <2> HIDE DEF before
    <2> QED BY <2>1, <2>2
  <1>5. Cardinality(before) = k - 1
    <2> DEFINE f == [j \in 1..(k - 1) |-> list[j]]
    <2>1. \A i, j \in 1..(k - 1) : list[i] = list[j] => i = j
      <3>1. \A j \in 1..(k - 1) : j \in DOMAIN list
        BY <1>1
      <3> QED BY <3>1, ListedFacts
    <2>2. f \in Bijection(1..(k - 1), before)
      <3>1. f \in [1..(k - 1) -> before] /\ \A b \in before : \E j \in 1..(k - 1) : f[j] = b
        BY <1>4
      <3>2. \A i, j \in 1..(k - 1) : f[i] = f[j] => i = j
        BY <2>1
      <3> HIDE DEF f, before
      <3> QED BY <3>1, <3>2, Fun_IsBij
    <2>3. IsFiniteSet(1..(k - 1)) /\ Cardinality(1..(k - 1)) = k - 1
      <3>1. 1 \in Int /\ k - 1 \in Int /\ k - 1 >= 0
        BY <1>1
      <3>2. IsFiniteSet(1..(k - 1)) /\ Cardinality(1..(k - 1)) = IF 1 > k - 1 THEN 0 ELSE (k - 1) - 1 + 1
        BY <3>1, FS_Interval
      <3> QED BY <3>1, <3>2
    <2>4. ExistsBijection(1..(k - 1), before)
      BY <2>2 DEF ExistsBijection
    <2> QED BY <2>3, <2>4, FS_Bijection
  <1>6. k - 1 < Kept <=> k <= Kept
    BY <1>1, FilesAssumption
  <1> QED BY <1>1, <1>2, <1>5, <1>6 DEF NewestOf

\* What the limit leaves of a file is what it leaves of the history.
LEMMA LimitListed ==
  ASSUME NEW times, NEW list, Times(times), Listed(times, list),
         NEW kept, kept = SubSeq(list, 1, Min({Len(list), Kept})), NEW left, left = Restrict(times, NewestOf(times))
  PROVE  Times(left) /\ Listed(left, kept) /\ Len(kept) <= Kept
  <1>1. list \in Seq(SessionIds) /\ Range(list) = DOMAIN times /\ DOMAIN list = 1..Len(list) /\ Len(list) \in Nat
    BY DEF Listed, Ordered
  <1>2. PICK n \in Nat : n = Len(list)
    BY <1>1
  <1> DEFINE m == IF n <= Kept THEN n ELSE Kept
  <1>a. m \in Nat /\ m <= n /\ m <= Kept /\ (\A j \in Nat : j <= n /\ j <= Kept => j <= m)
    BY FilesAssumption
  <1>b. kept = SubSeq(list, 1, m)
    <2>1. Min({n, Kept}) = m
      BY FilesAssumption DEF Min
    <2> QED BY <1>2, <2>1
  <1> HIDE DEF m
  <1>c. \A j \in 1..m : j \in DOMAIN list /\ list[j] \in SessionIds /\ j <= Kept
    <2> SUFFICES ASSUME NEW j \in 1..m PROVE j \in DOMAIN list /\ list[j] \in SessionIds /\ j <= Kept
      OBVIOUS
    <2>1. j \in 1..n /\ j <= Kept
      BY <1>a, FilesAssumption
    <2> QED BY <1>1, <1>2, <2>1
  <1>3. kept \in Seq(SessionIds) /\ Len(kept) = m /\ DOMAIN kept = 1..m /\ \A j \in 1..m : kept[j] = list[j] /\ j \in DOMAIN list
    <2>1. /\ SubSeq(list, 1, m) \in Seq(SessionIds) /\ Len(SubSeq(list, 1, m)) = (IF 1 <= m THEN m - 1 + 1 ELSE 0)
          /\ \A j \in 1..(m - 1 + 1) : SubSeq(list, 1, m)[j] = list[1 + j - 1]
      <3>1. 1 \in Int /\ m \in Int
        BY <1>a
      <3> QED BY <1>c, <3>1, SubSeqProperties
    <2>2. kept \in Seq(SessionIds) /\ Len(kept) = (IF 1 <= m THEN m - 1 + 1 ELSE 0) /\ \A j \in 1..(m - 1 + 1) : kept[j] = list[1 + j - 1]
      BY <1>b, <2>1
    <2>3. Len(kept) = m /\ m - 1 + 1 = m /\ \A j \in 1..m : 1 + j - 1 = j
      BY <1>a, <2>2
    <2>4. DOMAIN kept = 1..Len(kept)
      BY <2>2
    <2>5. \A j \in 1..m : kept[j] = list[j]
      <3> SUFFICES ASSUME NEW j \in 1..m PROVE kept[j] = list[j]
        OBVIOUS
      <3>1. kept[j] = list[1 + j - 1] /\ 1 + j - 1 = j
        BY <2>2, <2>3
      <3> QED BY <3>1
    <2> QED BY <1>c, <2>2, <2>3, <2>4, <2>5
  <1>4. DOMAIN left = NewestOf(times) /\ NewestOf(times) \subseteq DOMAIN times /\ \A a \in DOMAIN left : left[a] = times[a]
    BY DEF Restrict, NewestOf
  <1>5. Range(kept) = NewestOf(times)
    <2>1. ASSUME NEW j \in 1..m PROVE kept[j] \in NewestOf(times)
      <3>1. j \in DOMAIN list /\ j <= Kept /\ kept[j] = list[j]
        BY <1>3, <1>c
      <3> QED BY <3>1, NewestListed
    <2>2. ASSUME NEW a \in NewestOf(times) PROVE a \in Range(kept)
      <3>1. PICK j \in DOMAIN list : list[j] = a
        BY <1>1, <1>4 DEF Range
      <3>2. j <= Kept
        BY <3>1, <2>2, NewestListed
      <3>3. j \in 1..m
        BY <1>1, <1>2, <1>a, <3>2
      <3> QED BY <1>3, <3>1, <3>3 DEF Range
    <2> QED BY <1>3, <2>1, <2>2 DEF Range
  <1>6. Times(left)
    BY <1>4 DEF Times
  <1>7. \A i, j \in DOMAIN kept : i < j => left[kept[i]] > left[kept[j]]
    <2> SUFFICES ASSUME NEW i \in DOMAIN kept, NEW j \in DOMAIN kept, i < j PROVE left[kept[i]] > left[kept[j]]
      OBVIOUS
    <2>1. times[list[i]] > times[list[j]]
      BY <1>3, ListedFacts
    <2>2. kept[i] \in DOMAIN left /\ kept[j] \in DOMAIN left
      BY <1>4, <1>5 DEF Range
    <2> QED BY <1>3, <1>4, <2>1, <2>2
  <1> QED BY <1>a, <1>3, <1>4, <1>5, <1>6, <1>7 DEF Listed, Ordered

----------------------------------------------------------------------------
\* Who precedes whom: of two ids one, and nobody both.
LEMMA PrecedesTotal ==
  ASSUME NEW times, Times(times), NEW a \in DOMAIN times, NEW b \in DOMAIN times
  PROVE  /\ a # b => Precedes(times, a, b) \/ Precedes(times, b, a)
         /\ ~Precedes(times, a, a)
         /\ \A c \in DOMAIN times : Precedes(times, c, a) /\ Precedes(times, a, b) => Precedes(times, c, b)
  <1>1. a \in Int /\ b \in Int /\ times[a] \in Int /\ times[b] \in Int
    BY DEF Times, SessionIds
  <1>2. \A c \in DOMAIN times : c \in Int /\ times[c] \in Int
    BY DEF Times, SessionIds
  <1> QED BY <1>1, <1>2 DEF Precedes

\* The limit keeps no more entries than it names, however old they are.
LEMMA NewestFew ==
  ASSUME NEW times, Times(times)
  PROVE  IsFiniteSet(NewestOf(times)) /\ Cardinality(NewestOf(times)) <= Kept
  <1> DEFINE before(talk) == {other \in DOMAIN times : Precedes(times, other, talk)}
             rank == [talk \in NewestOf(times) |-> Cardinality(before(talk))]
  <1>1. Sessions \in Nat /\ Kept \in Nat \ {0}
    BY FilesAssumption
  <1>2. IsFiniteSet(DOMAIN times)
    <2>1. IsFiniteSet(SessionIds)
      BY <1>1, FS_Interval DEF SessionIds
    <2> QED BY <2>1, FS_Subset DEF Times
  <1>3. NewestOf(times) = {talk \in DOMAIN times : Cardinality(before(talk)) < Kept} /\ NewestOf(times) \subseteq DOMAIN times
    BY DEF NewestOf
  <1>4. \A talk : IsFiniteSet(before(talk)) /\ Cardinality(before(talk)) \in Nat
    <2> SUFFICES ASSUME NEW talk PROVE IsFiniteSet(before(talk)) /\ Cardinality(before(talk)) \in Nat
      OBVIOUS
    <2>1. before(talk) \in SUBSET DOMAIN times
      OBVIOUS
    <2>2. IsFiniteSet(before(talk))
      BY <1>2, <2>1, FS_Subset
    <2> QED BY <2>2, FS_CardinalityType
  <1>5. ASSUME NEW a \in DOMAIN times, NEW b \in DOMAIN times, Precedes(times, a, b)
        PROVE  Cardinality(before(a)) < Cardinality(before(b))
    <2>1. before(a) \subseteq before(b) /\ a \in before(b) /\ a \notin before(a)
      BY <1>5, PrecedesTotal
    <2>2. Cardinality(before(a)) <= Cardinality(before(b)) /\ Cardinality(before(a)) # Cardinality(before(b))
      BY <1>4, <2>1, FS_Subset
    <2> QED BY <1>4, <2>2
  <1> HIDE DEF before
  <1>6. rank \in [NewestOf(times) -> 0..(Kept - 1)]
    <2>1. \A talk \in NewestOf(times) : Cardinality(before(talk)) \in 0..(Kept - 1)
      BY <1>1, <1>3, <1>4
    <2> QED BY <2>1
  <1>7. ASSUME NEW a \in NewestOf(times), NEW b \in NewestOf(times), rank[a] = rank[b] PROVE a = b
    <2>1. Cardinality(before(a)) = Cardinality(before(b)) /\ a \in DOMAIN times /\ b \in DOMAIN times
      BY <1>3, <1>7
    <2>2. ~Precedes(times, a, b) /\ ~Precedes(times, b, a)
      BY <1>4, <1>5, <2>1
    <2> QED BY <2>1, <2>2, PrecedesTotal
  <1> HIDE DEF rank
  <1>8. rank \in Injection(NewestOf(times), 0..(Kept - 1))
    BY <1>6, <1>7, Fun_IsInj
  <1>9. IsFiniteSet(0..(Kept - 1)) /\ Cardinality(0..(Kept - 1)) = Kept
    <2>1. 0 \in Int /\ Kept - 1 \in Int /\ Kept - 1 >= 0
      BY <1>1
    <2>2. IsFiniteSet(0..(Kept - 1)) /\ Cardinality(0..(Kept - 1)) = IF 0 > Kept - 1 THEN 0 ELSE Kept - 1 - 0 + 1
      BY <2>1, FS_Interval
    <2> QED BY <1>1, <2>1, <2>2
  <1> QED BY <1>8, <1>9, FS_Injection

----------------------------------------------------------------------------
FilesInv ==
  /\ clock \in 0 .. MaxClock
  /\ Times(file) /\ Listed(file, recent)
  /\ Times(registry) /\ (steady => Listed(registry, upserted))
  /\ Cardinality(DOMAIN registry) <= Kept

LEMMA InitFiles == FilesInit => FilesInv
  <1> SUFFICES ASSUME FilesInit PROVE FilesInv
    OBVIOUS
  <1>1. \A times : times = <<>> => Times(times) /\ Listed(times, <<>>)
    <2>1. <<>> \in Seq(SessionIds) /\ Range(<<>>) = {} /\ DOMAIN <<>> = {}
      BY DEF Range
    <2> QED BY <2>1 DEF Times, Listed, Ordered
  <1>2. 0 \in 0 .. MaxClock /\ Kept \in Nat
    BY FilesAssumption
  <1>3. DOMAIN registry = {} /\ Cardinality(DOMAIN registry) = 0
    BY FS_EmptySet DEF FilesInit, NoEntries
  <1> QED BY <1>1, <1>2, <1>3 DEF FilesInit, FilesInv, NoEntries

\* The entry that was written.
LEMMA WrittenFacts ==
  ASSUME NEW times, Times(times), NEW talk \in SessionIds, NEW stamp \in Int, NEW stamped, stamped = Stamped(times, talk, stamp)
  PROVE  /\ DOMAIN stamped = DOMAIN times \cup {talk} /\ stamped[talk] = stamp /\ \A a \in DOMAIN times \ {talk} : stamped[a] = times[a]
         /\ Times(stamped)
  <1>1. DOMAIN stamped = DOMAIN times \cup {talk} /\ stamped[talk] = stamp /\ \A a \in DOMAIN times \ {talk} : stamped[a] = times[a]
    BY DEF Stamped
  <1> QED BY <1>1 DEF Times

\* An entry newer than all others is the first of the history.
LEMMA TouchListed ==
  ASSUME NEW times, NEW list, Times(times), Listed(times, list), NEW talk \in SessionIds, NEW stamp \in Int,
         \A a \in DOMAIN times \ {talk} : stamp > times[a],
         NEW stamped, stamped = Stamped(times, talk, stamp)
  PROVE  Listed(Restrict(stamped, NewestOf(stamped)), Touch(list, talk))
  <1> DEFINE left == Restrict(times, DOMAIN times \ {talk})
             rest == Without(list, talk)
             all == <<talk>> \o rest
  <1>1. DOMAIN stamped = DOMAIN times \cup {talk} /\ stamped[talk] = stamp /\ (\A a \in DOMAIN times \ {talk} : stamped[a] = times[a])
        /\ Times(stamped)
    <2>1. talk \in SessionIds /\ stamp \in Int /\ Times(times) /\ stamped = Stamped(times, talk, stamp)
      OBVIOUS
    <2> QED BY <2>1, WrittenFacts
  <1>2. Listed(left, rest) /\ Range(rest) = DOMAIN times \ {talk}
    BY WithoutListed
  <1>3. rest \in Seq(SessionIds) /\ Len(rest) \in Nat /\ \A j \in 1..Len(rest) : rest[j] \in DOMAIN times \ {talk}
    BY <1>2 DEF Listed, Range
  <1>4. DOMAIN left = DOMAIN times \ {talk} /\ \A a \in DOMAIN left : left[a] = times[a]
    BY DEF Restrict
  <1>5. \A i, j \in 1..Len(rest) : i < j => stamped[rest[i]] > stamped[rest[j]]
    <2> SUFFICES ASSUME NEW i \in 1..Len(rest), NEW j \in 1..Len(rest), i < j PROVE stamped[rest[i]] > stamped[rest[j]]
      OBVIOUS
    <2> HIDE DEF left, rest
    <2>1. left[rest[i]] > left[rest[j]]
      BY <1>2, <1>3 DEF Listed, Ordered
    <2>2. left[rest[i]] = stamped[rest[i]] /\ left[rest[j]] = stamped[rest[j]]
      BY <1>1, <1>3, <1>4
    <2> QED BY <2>1, <2>2
  <1> HIDE DEF rest, left
  <1>6. all \in Seq(SessionIds) /\ Len(all) = Len(rest) + 1 /\ all[1] = talk /\ \A j \in 1..Len(rest) : all[j + 1] = rest[j]
    BY <1>3
  <1> HIDE DEF all
  <1>7. \A j \in 2..Len(all) : j - 1 \in 1..Len(rest) /\ all[j] = rest[j - 1]
    <2> SUFFICES ASSUME NEW j \in 2..Len(all) PROVE j - 1 \in 1..Len(rest) /\ all[j] = rest[j - 1]
      OBVIOUS
    <2>1. j - 1 \in 1..Len(rest) /\ (j - 1) + 1 = j
      BY <1>3, <1>6
    <2> QED BY <1>6, <2>1
  <1>8. DOMAIN all = 1..Len(all) /\ \A j \in 1..Len(all) : j = 1 \/ j \in 2..Len(all)
    BY <1>6
  <1>9. Range(all) = DOMAIN stamped
    <2>1. ASSUME NEW j \in DOMAIN all PROVE all[j] \in DOMAIN stamped
      <3>1. CASE j = 1
        BY <1>1, <1>6, <3>1
      <3>2. CASE j \in 2..Len(all)
        <4>1. j - 1 \in 1..Len(rest) /\ all[j] = rest[j - 1]
          BY <1>7, <3>2
        <4> QED BY <1>1, <1>3, <4>1
      <3> QED BY <1>8, <3>1, <3>2
    <2>2. ASSUME NEW a \in DOMAIN times \ {talk} PROVE \E j \in DOMAIN all : all[j] = a
      <3>1. PICK j \in 1..Len(rest) : rest[j] = a
        BY <1>2, <1>3 DEF Range
      <3>2. j + 1 \in DOMAIN all
        BY <1>3, <1>6, <1>8
      <3> QED BY <1>6, <3>1, <3>2
    <2>3. 1 \in DOMAIN all
      BY <1>3, <1>6, <1>8
    <2> QED BY <1>1, <1>6, <2>1, <2>2, <2>3 DEF Range
  <1>10. ASSUME NEW i \in DOMAIN all, NEW j \in DOMAIN all, i < j PROVE stamped[all[i]] > stamped[all[j]]
    <2>1. j \in 2..Len(all) /\ all[j] = rest[j - 1] /\ j - 1 \in 1..Len(rest)
      BY <1>7, <1>8, <1>10
    <2>2. CASE i = 1
      <3>1. rest[j - 1] \in DOMAIN times \ {talk}
        BY <1>3, <2>1
      <3> QED BY <1>1, <1>6, <2>1, <2>2, <3>1
    <2>3. CASE i \in 2..Len(all)
      <3>1. all[i] = rest[i - 1] /\ i - 1 \in 1..Len(rest) /\ i - 1 < j - 1
        BY <1>7, <1>10, <2>1, <2>3
      <3> QED BY <1>5, <2>1, <3>1
    <2> QED BY <1>8, <2>2, <2>3
  <1>11. Listed(stamped, all)
    BY <1>6, <1>9, <1>10 DEF Listed, Ordered
  <1>12. Touch(list, talk) = SubSeq(all, 1, Min({Len(all), Kept}))
    BY DEF Touch, all, rest
  <1> QED BY <1>1, <1>11, <1>12, LimitListed

\* What the limit leaves has times still.
LEMMA LimitTimes ==
  ASSUME NEW times, Times(times), NEW left, left = Restrict(times, NewestOf(times))
  PROVE  Times(left) /\ DOMAIN left = NewestOf(times)
  BY DEF Times, Restrict, NewestOf

\* One past the newest is past all of them.
LEMMA StampFacts ==
  ASSUME FilesInv PROVE Stamp(file) \in Int /\ \A a \in DOMAIN file : Stamp(file) > file[a]
  <1> DEFINE S == {clock} \cup {file[talk] + 1 : talk \in DOMAIN file}
  <1>1. clock \in Int /\ \A a \in DOMAIN file : file[a] \in Int
    BY FilesAssumption DEF FilesInv, Times
  <1>2. S \subseteq Int
    BY <1>1
  <1>3. \E x \in S : \A y \in S : x >= y
    <2>1. recent \in Seq(SessionIds) /\ Range(recent) = DOMAIN file
      BY DEF FilesInv, Listed, Ordered
    <2>2. CASE recent = <<>>
      <3>1. DOMAIN file = {}
        BY <2>1, <2>2 DEF Range
      <3>2. S = {clock}
        BY <3>1
      <3>3. clock >= clock
        BY <1>1
      <3> HIDE DEF S
      <3> QED BY <3>2, <3>3
    <2>3. CASE recent # <<>>
      <3>1. 1 \in DOMAIN recent /\ recent[1] \in DOMAIN file
        BY <2>1, <2>3 DEF Range
      <3>2. \A a \in DOMAIN file : file[recent[1]] >= file[a]
        <4> SUFFICES ASSUME NEW a \in DOMAIN file PROVE file[recent[1]] >= file[a]
          OBVIOUS
        <4>1. PICK j \in DOMAIN recent : recent[j] = a
          BY <2>1 DEF Range
        <4>2. j = 1 \/ 1 < j
          BY <2>1
        <4>3. 1 < j => file[recent[1]] > file[recent[j]]
          BY <3>1 DEF FilesInv, Listed, Ordered
        <4> QED BY <1>1, <3>1, <4>1, <4>2, <4>3
      <3>3. CASE clock >= file[recent[1]] + 1
        <4>1. \A y \in S : clock >= y
          BY <1>1, <3>1, <3>2, <3>3
        <4> QED BY <4>1
      <3>4. CASE ~(clock >= file[recent[1]] + 1)
        <4>1. file[recent[1]] + 1 \in S
          BY <3>1
        <4>2. \A y \in S : file[recent[1]] + 1 >= y
          BY <1>1, <3>1, <3>2, <3>4
        <4> QED BY <4>1, <4>2
      <3> QED BY <3>3, <3>4
    <2> QED BY <2>2, <2>3
  <1>4. Stamp(file) = Max(S)
    BY DEF Stamp
  <1>5. Max(S) \in S /\ \A y \in S : Max(S) >= y
    <2> HIDE DEF S
    <2> QED BY <1>3 DEF Max
  <1>6. \A a \in DOMAIN file : file[a] + 1 \in S
    OBVIOUS
  <1> HIDE DEF S
  <1>7. Max(S) \in Int /\ \A a \in DOMAIN file : Max(S) >= file[a] + 1
    BY <1>2, <1>5, <1>6
  <1> QED BY <1>1, <1>4, <1>7

LEMMA WriteEntryInv == ASSUME FilesInv, NEW talk \in SessionIds, WriteEntry(talk) PROVE FilesInv'
  <1> DEFINE stamped == Stamped(file, talk, Stamp(file))
  <1>1. file' = Restrict(stamped, NewestOf(stamped)) /\ recent' = Touch(recent, talk) /\ UNCHANGED <<clock, registry, upserted, steady>>
    BY DEF WriteEntry
  <1>2. Stamp(file) \in Int /\ \A a \in DOMAIN file : Stamp(file) > file[a]
    BY StampFacts
  <1> HIDE DEF stamped
  <1>3. Listed(file', recent')
    BY <1>1, <1>2, TouchListed DEF FilesInv, stamped
  <1>4. Times(file')
    BY <1>1, <1>2, WrittenFacts, LimitTimes DEF FilesInv, stamped
  <1> QED BY <1>1, <1>3, <1>4 DEF FilesInv

LEMMA RemoveEntryInv == ASSUME FilesInv, NEW talk \in SessionIds, RemoveEntry(talk) PROVE FilesInv'
  <1>1. /\ file' = Restrict(file, DOMAIN file \ {talk}) /\ recent' = Without(recent, talk)
        /\ UNCHANGED <<clock, registry, upserted, steady>>
    BY DEF RemoveEntry
  <1>2. Listed(file', recent')
    BY <1>1, WithoutListed DEF FilesInv
  <1>3. Times(file')
    BY <1>1 DEF FilesInv, Times, Restrict
  <1> QED BY <1>1, <1>2, <1>3 DEF FilesInv

LEMMA UpsertSessionInv == ASSUME FilesInv, NEW talk \in SessionIds, UpsertSession(talk) PROVE FilesInv'
  <1> DEFINE known == IF talk \in DOMAIN registry THEN {registry[talk]} ELSE {}
             stamp == Max({clock} \cup known)
             stamped == Stamped(registry, talk, stamp)
  <1>1. /\ registry' = Restrict(stamped, NewestOf(stamped)) /\ upserted' = Touch(upserted, talk)
        /\ steady' = (steady /\ \A other \in DOMAIN registry : registry[other] < clock)
        /\ UNCHANGED <<clock, file, recent>>
    BY DEF UpsertSession
  <1>2. clock \in Int /\ Times(registry) /\ \A a \in DOMAIN registry : registry[a] \in Int
    BY FilesAssumption DEF FilesInv, Times
  <1>3. stamp = (IF talk \in DOMAIN registry /\ registry[talk] > clock THEN registry[talk] ELSE clock)
    <2>1. CASE talk \in DOMAIN registry
      <3>1. {clock} \cup known = {clock, registry[talk]}
        BY <2>1
      <3>2. Max({clock, registry[talk]}) = IF registry[talk] > clock THEN registry[talk] ELSE clock
        <4> DEFINE a == registry[talk]
        <4>1. a \in Int
          BY <1>2, <2>1
        <4> HIDE DEF a
        <4>2. Max({clock, a}) = IF a > clock THEN a ELSE clock
          BY <1>2, <4>1 DEF Max
        <4> QED BY <4>2 DEF a
      <3> QED BY <2>1, <3>1, <3>2
    <2>2. CASE talk \notin DOMAIN registry
      <3>1. {clock} \cup known = {clock}
        BY <2>2
      <3>2. Max({clock}) = clock
        BY <1>2 DEF Max
      <3> QED BY <2>2, <3>1, <3>2
    <2> QED BY <2>1, <2>2
  <1>4. stamp \in Int
    BY <1>2, <1>3
  <1> HIDE DEF stamp, known
  <1>5. Times(stamped)
    BY <1>2, <1>4, WrittenFacts
  <1>6. steady' => Listed(registry', upserted')
    <2> SUFFICES ASSUME steady' PROVE Listed(registry', upserted')
      OBVIOUS
    <2>1. steady /\ \A other \in DOMAIN registry : registry[other] < clock
      BY <1>1
    <2>2. stamp = clock /\ \A a \in DOMAIN registry \ {talk} : stamp > registry[a]
      BY <1>2, <1>3, <2>1
    <2> QED BY <1>1, <1>2, <1>4, <2>1, <2>2, TouchListed DEF FilesInv
  <1> HIDE DEF stamped
  <1>7. Times(registry') /\ DOMAIN registry' = NewestOf(stamped)
    BY <1>1, <1>5, LimitTimes
  <1>8. Cardinality(DOMAIN registry') <= Kept
    BY <1>5, <1>7, NewestFew
  <1> QED BY <1>1, <1>6, <1>7, <1>8 DEF FilesInv

LEMMA NextFiles == FilesInv /\ [FilesNext]_filesVars => FilesInv'
  <1> SUFFICES ASSUME FilesInv, [FilesNext]_filesVars PROVE FilesInv'
    OBVIOUS
  <1>1. CASE SetClock
    BY <1>1 DEF SetClock, FilesInv
  <1>2. CASE UNCHANGED filesVars
    BY <1>2 DEF filesVars, FilesInv
  <1> QED BY <1>1, <1>2, WriteEntryInv, RemoveEntryInv, UpsertSessionInv DEF FilesNext

\* Whatever the clock does, the limit keeps the drafts and states that were written last,
\* and as long as it goes on the sessions too (pkg/storage/drafts.go:72, state.go:247).
THEOREM RecentStays == FilesSpec => []RecentKept
  <1>1. FilesInv => RecentKept
    BY DEF FilesInv, RecentKept, Listed
  <1> QED BY <1>1, InitFiles, NextFiles, PTL DEF FilesSpec

-----------------------------------------------------------------------------
(* What a session has beside its transcript.                                *)
ConversationIds == 1 .. Conversations
Titles == [by : {"none", "placeholder", "helper", "user"}, prompt : Nat]
Entries == [title : Titles, bash : Seq(Nat), turns : Seq(Nat)]
ShownRows == [kind : {"message", "shell"}, command : Nat]

RecordsTyped ==
  /\ current \in ConversationIds /\ stored \in [ConversationIds -> Entries] /\ rows \in Seq(ShownRows)
  /\ run \in [prompt : Nat, at : {"none", "running", "ended"}] /\ titler \in Nat /\ answers \subseteq Titles /\ finished \subseteq Nat
  /\ cd \in [command : Nat, at : {"none", "asked", "read", "done"}, bash : Seq(Nat)] /\ (cd.at = "none" => cd = NoCd)
  /\ began \in [prompts : Seq(ConversationIds), commands : Seq(ConversationIds), rewrites : Nat]

\* A command, or a prompt, that began in a session.
Of(list, n, talk) == n \in DOMAIN list /\ list[n] = talk

\* As long as the current session was not muddled, everything that is still to be told
\* is of it, and a running command's row is its own.
CommandsHere == current \notin muddled =>
  /\ \A shell \in shells : /\ Of(began.commands, shell.command, current)
                           /\ shell.row \in DOMAIN rows /\ rows[shell.row] = ShellRow(shell.command)
  /\ \A n \in finished : Of(began.commands, n, current)
  /\ cd # NoCd => Of(began.commands, cd.command, current)
  /\ cd.at = "read" => cd.bash = stored[current].bash
TitlesHere ==
  /\ run.at = "running" => Of(began.prompts, run.prompt, current)
  /\ current \notin muddled => /\ titler # 0 => Of(began.prompts, titler, current)
                               /\ \A answer \in answers : Of(began.prompts, answer.prompt, current)

Pending(n) == n \in finished \/ (\E shell \in shells : shell.command = n) \/ cd.command = n
CommandsStored == \A talk \in ConversationIds \ muddled :
  /\ \A n \in Range(stored[talk].bash) : Of(began.commands, n, talk)
  /\ \A n \in DOMAIN began.commands : began.commands[n] = talk => n \in Range(stored[talk].bash) \/ (talk = current /\ Pending(n))
TitlesStored == \A talk \in ConversationIds \ muddled :
  stored[talk].title.prompt # 0 => Of(began.prompts, stored[talk].title.prompt, talk)

RecordsInv == RecordsTyped /\ CommandsHere /\ TitlesHere /\ CommandsStored /\ TitlesStored

\* What began before began still.
LEMMA OfAppended ==
  ASSUME NEW list \in Seq(ConversationIds), NEW talk \in ConversationIds
  PROVE  /\ \A n, other : Of(list, n, other) => Of(Append(list, talk), n, other)
         /\ Of(Append(list, talk), Len(list) + 1, talk)
         /\ \A n, other : Of(Append(list, talk), n, other) => Of(list, n, other) \/ (n = Len(list) + 1 /\ other = talk)
  BY AppendRange DEF Of

LEMMA InitRecords == RecordsInit => RecordsInv
  <1> SUFFICES ASSUME RecordsInit PROVE RecordsInv
    OBVIOUS
  <1>1. NoTitle \in Titles /\ NoTitle.prompt = 0 /\ <<>> \in Seq(Nat) /\ Range(<<>>) = {} /\ 1 \in ConversationIds
    <2>1. NoTitle \in Titles /\ NoTitle.prompt = 0
      BY DEF NoTitle, Title, Titles
    <2>2. <<>> \in Seq(Nat) /\ Range(<<>>) = {}
      BY DEF Range
    <2> QED BY <2>1, <2>2, RecordsAssumption DEF ConversationIds
  <1>2. stored \in [ConversationIds -> Entries] /\ \A talk \in ConversationIds : stored[talk].title = NoTitle /\ stored[talk].bash = <<>>
    BY <1>1 DEF RecordsInit, ConversationIds, Entries
  <1>3. RecordsTyped
    BY <1>1, <1>2 DEF RecordsInit, RecordsTyped, NoRun, NoCd
  <1>4. CommandsHere /\ TitlesHere
    BY DEF RecordsInit, CommandsHere, TitlesHere, NoRun, NoCd
  <1>5. TitlesStored
    BY <1>1, <1>2 DEF TitlesStored
  <1>6. CommandsStored
    <2>1. \A talk \in ConversationIds : Range(stored[talk].bash) = {}
      BY <1>1, <1>2
    <2>2. DOMAIN began.commands = {}
      BY DEF RecordsInit
    <2> QED BY <2>1, <2>2 DEF CommandsStored
  <1> QED BY <1>3, <1>4, <1>5, <1>6 DEF RecordsInv

\* What leaves the commands alone, or at most the title of the current session.
LEMMA CommandsRest ==
  ASSUME RecordsInv, RecordsTyped', UNCHANGED <<current, commandVars, muddled>>, began'.commands = began.commands,
         \A talk \in ConversationIds : stored'[talk].bash = stored[talk].bash,
         \A i \in DOMAIN rows : i \in DOMAIN rows' /\ rows'[i] = rows[i]
  PROVE  CommandsHere' /\ CommandsStored'
  <1>1. UNCHANGED <<shells, finished, cd>>
    BY DEF commandVars
  <1>2. CommandsHere'
    BY <1>1 DEF RecordsInv, RecordsTyped, CommandsHere
  <1>3. CommandsStored'
    BY <1>1 DEF RecordsInv, CommandsStored, Pending
  <1> QED BY <1>2, <1>3

LEMMA TitlesRest ==
  ASSUME RecordsInv, UNCHANGED <<current, turnVars, muddled>>, began'.prompts = began.prompts,
         \A talk \in ConversationIds : stored'[talk].title = stored[talk].title
  PROVE  TitlesHere' /\ TitlesStored'
  BY DEF RecordsInv, RecordsTyped, TitlesHere, TitlesStored, turnVars

LEMMA StartTurnInv == ASSUME RecordsInv, StartTurn PROVE RecordsInv'
  <1> DEFINE asked == Len(began.prompts) + 1
  <1>1. /\ began' = [began EXCEPT !.prompts = Append(began.prompts, current)]
        /\ run' = [prompt |-> Len(began'.prompts), at |-> "running"] /\ titler' = (IF titler = 0 THEN Len(began'.prompts) ELSE titler)
        /\ rows' = rows \o <<MessageRow, MessageRow>>
        /\ UNCHANGED <<current, stored, answers, commandVars, muddled>>
    BY DEF StartTurn
  <1>2. /\ began.prompts \in Seq(ConversationIds) /\ current \in ConversationIds /\ rows \in Seq(ShownRows)
    BY DEF RecordsInv, RecordsTyped
  <1>3. began'.commands = began.commands /\ began'.prompts = Append(began.prompts, current)
    BY <1>1 DEF RecordsInv, RecordsTyped
  <1>4. Append(began.prompts, current) \in Seq(ConversationIds) /\ Len(Append(began.prompts, current)) = asked /\ asked \in Nat /\ asked # 0
    BY <1>2
  <1>5. rows' \in Seq(ShownRows) /\ \A i \in DOMAIN rows : i \in DOMAIN rows' /\ rows'[i] = rows[i]
    <2>1. MessageRow \in ShownRows
      BY DEF MessageRow, ShownRows
    <2> QED BY <1>1, <1>2, <2>1
  <1>6. RecordsTyped'
    BY <1>1, <1>3, <1>4, <1>5 DEF RecordsInv, RecordsTyped, commandVars
  <1>7. CommandsHere' /\ CommandsStored'
    BY <1>1, <1>3, <1>5, <1>6, CommandsRest
  <1>8. \A n, other : Of(began.prompts, n, other) => Of(began'.prompts, n, other)
    BY <1>2, <1>3, OfAppended
  <1>9. Of(began'.prompts, asked, current)
    BY <1>2, <1>3, OfAppended
  <1>10. run'.prompt = asked /\ titler' = (IF titler = 0 THEN asked ELSE titler)
    BY <1>1, <1>3, <1>4
  <1>11. TitlesHere'
    BY <1>1, <1>8, <1>9, <1>10 DEF RecordsInv, TitlesHere
  <1>12. TitlesStored'
    BY <1>1, <1>8 DEF RecordsInv, TitlesStored
  <1> QED BY <1>6, <1>7, <1>11, <1>12 DEF RecordsInv

LEMMA HelperAnswersInv == ASSUME RecordsInv, HelperAnswers PROVE RecordsInv'
  <1>1. /\ titler # 0 /\ titler' = 0 /\ answers' \in {answers, answers \cup {Title("helper", titler)}}
        /\ UNCHANGED <<current, stored, rows, run, commandVars, began, muddled>>
    BY DEF HelperAnswers, historyVars
  <1>2. Title("helper", titler) \in Titles /\ Title("helper", titler).prompt = titler
    BY DEF RecordsInv, RecordsTyped, Titles, Title
  <1>3. RecordsTyped'
    BY <1>1, <1>2 DEF RecordsInv, RecordsTyped, commandVars
  <1>4. CommandsHere' /\ CommandsStored'
    BY <1>1, <1>3, CommandsRest
  <1>5. TitlesHere'
    BY <1>1, <1>2 DEF RecordsInv, TitlesHere
  <1>6. TitlesStored'
    BY <1>1 DEF RecordsInv, TitlesStored
  <1> QED BY <1>3, <1>4, <1>5, <1>6 DEF RecordsInv

\* A title is stored with the current session, and may be one that was waiting.
LEMMA EntitleInv ==
  ASSUME RecordsInv, NEW by \in Titles, Entitle(by), UNCHANGED <<current, rows, run, titler, commandVars, began, muddled>>,
         answers' \subseteq answers, by.prompt = 0 \/ by \in answers
  PROVE  RecordsInv'
  <1>1. /\ stored' \in [ConversationIds -> Entries] /\ stored'[current].title = by
        /\ \A talk \in ConversationIds : stored'[talk].bash = stored[talk].bash /\ (talk # current => stored'[talk] = stored[talk])
    BY DEF RecordsInv, RecordsTyped, Entitle, Entries
  <1>2. RecordsTyped'
    BY <1>1 DEF RecordsInv, RecordsTyped, commandVars
  <1>3. CommandsHere' /\ CommandsStored'
    BY <1>1, <1>2, CommandsRest
  <1>4. TitlesHere'
    BY DEF RecordsInv, TitlesHere
  <1>5. TitlesStored'
    BY <1>1 DEF RecordsInv, TitlesHere, TitlesStored
  <1> QED BY <1>2, <1>3, <1>4, <1>5 DEF RecordsInv

LEMMA TurnEndsInv == ASSUME RecordsInv, TurnEnds PROVE RecordsInv'
  <1>1. /\ run.at = "running" /\ stored' = TurnStored /\ run' = [run EXCEPT !.at = "ended"]
        /\ UNCHANGED <<current, rows, titler, answers, commandVars, began, muddled>>
    BY DEF TurnEnds, viewVars, historyVars
  <1>2. /\ current \in ConversationIds /\ stored \in [ConversationIds -> Entries] /\ run.prompt \in Nat
        /\ Placeholder(run.prompt) \in Titles /\ Placeholder(run.prompt).prompt = run.prompt
    BY DEF RecordsInv, RecordsTyped, Placeholder, Title, Titles
  <1>3. Append(stored[current].turns, run.prompt) \in Seq(Nat)
    BY <1>2 DEF Entries
  <1>4. /\ stored' \in [ConversationIds -> Entries] /\ stored'[current].title = Placeholder(run.prompt)
        /\ \A talk \in ConversationIds : stored'[talk].bash = stored[talk].bash /\ (talk # current => stored'[talk] = stored[talk])
    BY <1>1, <1>2, <1>3 DEF TurnStored, Entries
  <1>5. RecordsTyped'
    BY <1>1, <1>4 DEF RecordsInv, RecordsTyped, commandVars
  <1>6. CommandsHere' /\ CommandsStored'
    BY <1>1, <1>4, <1>5, CommandsRest
  <1>7. run'.at # "running" /\ TitlesHere'
    BY <1>1 DEF RecordsInv, RecordsTyped, TitlesHere
  <1>8. TitlesStored'
    BY <1>1, <1>2, <1>4 DEF RecordsInv, TitlesHere, TitlesStored
  <1> QED BY <1>5, <1>6, <1>7, <1>8 DEF RecordsInv

LEMMA finishRunInv == ASSUME RecordsInv, finishRun PROVE RecordsInv'
  <1>1. run' = NoRun /\ UNCHANGED <<current, stored, rows, titler, answers, commandVars, began, muddled>>
    BY DEF finishRun, viewVars, historyVars
  <1>2. RecordsTyped'
    BY <1>1 DEF RecordsInv, RecordsTyped, commandVars, NoRun
  <1>3. CommandsHere' /\ CommandsStored'
    BY <1>1, <1>2, CommandsRest
  <1>4. TitlesHere' /\ TitlesStored'
    BY <1>1 DEF RecordsInv, TitlesHere, TitlesStored, NoRun
  <1> QED BY <1>2, <1>3, <1>4 DEF RecordsInv

----------------------------------------------------------------------------
\* The rows of a session that is shown anew.
LEMMA MessageRowsTyped ==
  ASSUME NEW turns \in Seq(Nat) PROVE MessageRows(turns) \in Seq(ShownRows)
  <1>1. MessageRow \in ShownRows /\ 2 * Len(turns) \in Nat
    BY DEF MessageRow, ShownRows
  <1> QED BY <1>1 DEF MessageRows

LEMMA RewritesCounted ==
  ASSUME RecordsInv, began' = [began EXCEPT !.rewrites = began.rewrites + 1]
  PROVE  /\ began' \in [prompts : Seq(ConversationIds), commands : Seq(ConversationIds), rewrites : Nat]
         /\ began'.prompts = began.prompts /\ began'.commands = began.commands
  <1>1. began \in [prompts : Seq(ConversationIds), commands : Seq(ConversationIds), rewrites : Nat]
    BY DEF RecordsInv, RecordsTyped
  <1>2. began.rewrites + 1 \in Nat
    BY <1>1
  <1> QED BY <1>1, <1>2

\* Who is left, and who is shown, is muddled by what goes on.
LEMMA SwitchInv == ASSUME RecordsInv, NEW talk \in ConversationIds, Switch(talk) PROVE RecordsInv'
  <1>1. /\ run.at # "running" /\ talk # current /\ current' = talk
        /\ rows' = MessageRows(stored[talk].turns) \o [i \in DOMAIN stored[talk].bash |-> ShellRow(stored[talk].bash[i])]
        /\ muddled' = (IF Moving \/ titler # 0 \/ answers # {} THEN muddled \cup {current, talk} ELSE muddled)
        /\ began' = [began EXCEPT !.rewrites = began.rewrites + 1]
        /\ UNCHANGED <<stored, turnVars, commandVars>>
    BY DEF Switch, Rewrite
  <1>2. UNCHANGED <<run, titler, answers, shells, finished, cd>>
    BY <1>1 DEF turnVars, commandVars
  <1>3. /\ began' \in [prompts : Seq(ConversationIds), commands : Seq(ConversationIds), rewrites : Nat]
        /\ began'.prompts = began.prompts /\ began'.commands = began.commands
    BY <1>1, RewritesCounted
  <1>4. rows' \in Seq(ShownRows)
    <2>1. stored[talk].bash \in Seq(Nat) /\ stored[talk].turns \in Seq(Nat)
      BY DEF RecordsInv, RecordsTyped, Entries
    <2>2. \A n \in Nat : ShellRow(n) \in ShownRows
      BY DEF ShellRow, ShownRows
    <2>3. [i \in DOMAIN stored[talk].bash |-> ShellRow(stored[talk].bash[i])] \in Seq(ShownRows)
      <3>1. DOMAIN stored[talk].bash = 1 .. Len(stored[talk].bash) /\ Len(stored[talk].bash) \in Nat
            /\ \A i \in DOMAIN stored[talk].bash : ShellRow(stored[talk].bash[i]) \in ShownRows
        BY <2>1, <2>2
      <3> QED BY <3>1
    <2> QED BY <1>1, <2>1, <2>3, MessageRowsTyped
  <1>5. RecordsTyped'
    BY <1>1, <1>2, <1>3, <1>4 DEF RecordsInv, RecordsTyped
  <1>6. CASE Moving \/ titler # 0 \/ answers # {}
    <2>1. current \in muddled' /\ talk \in muddled' /\ muddled \subseteq muddled'
      BY <1>1, <1>6
    <2> QED BY <1>1, <1>2, <1>3, <1>5, <2>1 DEF RecordsInv, CommandsHere, TitlesHere, CommandsStored, TitlesStored, Pending
  <1>7. CASE ~(Moving \/ titler # 0 \/ answers # {})
    <2>1. shells = {} /\ finished = {} /\ cd = NoCd /\ titler = 0 /\ answers = {} /\ muddled' = muddled /\ cd.at # "read" /\ cd.command = 0
      BY <1>1, <1>7 DEF Moving, NoCd
    <2>2. CommandsHere' /\ TitlesHere' /\ TitlesStored'
      BY <1>1, <1>2, <1>3, <2>1 DEF RecordsInv, CommandsHere, TitlesHere, TitlesStored
    <2>3. \A n \in DOMAIN began.commands : n # 0
      BY DEF RecordsInv, RecordsTyped
    <2>4. CommandsStored'
      BY <1>1, <1>2, <1>3, <2>1, <2>3 DEF RecordsInv, CommandsStored, Pending
    <2> QED BY <1>5, <2>2, <2>4 DEF RecordsInv
  <1> QED BY <1>6, <1>7

LEMMA UndoInv == ASSUME RecordsInv, Undo PROVE RecordsInv'
  <1> DEFINE ofShell == {i \in DOMAIN rows : rows[i].kind = "shell"}
  <1>1. /\ stored[current].turns # <<>> /\ stored' = [stored EXCEPT ![current].turns = Front(stored[current].turns)]
        /\ muddled' = (IF Moving THEN muddled \cup {current} ELSE muddled)
        /\ began' = [began EXCEPT !.rewrites = began.rewrites + 1]
        /\ UNCHANGED <<current, turnVars, commandVars>>
    BY DEF Undo, Rewrite
  <1>2. PICK places \in [1 .. Cardinality(ofShell) -> ofShell] :
          rows' = MessageRows(stored'[current].turns) \o [i \in DOMAIN places |-> rows[places[i]]]
    BY DEF Undo
  <1>3. current \in ConversationIds /\ stored \in [ConversationIds -> Entries] /\ rows \in Seq(ShownRows) /\ stored[current].turns \in Seq(Nat)
    BY DEF RecordsInv, RecordsTyped, Entries
  <1>4. Front(stored[current].turns) \in Seq(Nat)
    BY <1>1, <1>3 DEF Front
  <1>5. /\ stored' \in [ConversationIds -> Entries] /\ stored'[current].turns \in Seq(Nat)
        /\ \A talk \in ConversationIds : stored'[talk].bash = stored[talk].bash /\ stored'[talk].title = stored[talk].title
    BY <1>1, <1>3, <1>4 DEF Entries
  <1>6. rows' \in Seq(ShownRows)
    <2>1. IsFiniteSet(ofShell)
      <3>1. IsFiniteSet(DOMAIN rows)
        BY <1>3, FS_Interval
      <3> QED BY <3>1, FS_Subset
    <2>2. Cardinality(ofShell) \in Nat
      BY <2>1, FS_CardinalityType
    <2>3. \A i \in 1 .. Cardinality(ofShell) : rows[places[i]] \in ShownRows
      BY <1>2, <1>3
    <2>4. [i \in DOMAIN places |-> rows[places[i]]] \in Seq(ShownRows)
      <3>1. PICK n \in Nat : n = Cardinality(ofShell)
        BY <2>2
      <3>2. DOMAIN places = 1 .. n /\ \A i \in 1 .. n : rows[places[i]] \in ShownRows
        BY <1>2, <2>3, <3>1
      <3> QED BY <3>2
    <2> QED BY <1>2, <1>5, <2>4, MessageRowsTyped
  <1>7. UNCHANGED <<run, titler, answers, shells, finished, cd>>
    BY <1>1 DEF turnVars, commandVars
  <1>8. /\ began' \in [prompts : Seq(ConversationIds), commands : Seq(ConversationIds), rewrites : Nat]
        /\ began'.prompts = began.prompts /\ began'.commands = began.commands
    BY <1>1, RewritesCounted
  <1>9. RecordsTyped'
    BY <1>1, <1>5, <1>6, <1>7, <1>8 DEF RecordsInv, RecordsTyped
  <1>10. current \notin muddled' => shells = {} /\ finished = {} /\ cd = NoCd /\ cd.at # "read"
    BY <1>1 DEF Moving, NoCd
  <1>11. muddled \subseteq muddled'
    BY <1>1
  <1>12. CommandsHere'
    BY <1>1, <1>7, <1>10 DEF CommandsHere
  <1>13. CommandsStored'
    BY <1>1, <1>5, <1>7, <1>8, <1>11 DEF RecordsInv, CommandsStored, Pending
  <1>14. TitlesHere' /\ TitlesStored'
    BY <1>1, <1>5, <1>7, <1>8, <1>11 DEF RecordsInv, TitlesHere, TitlesStored
  <1> QED BY <1>9, <1>12, <1>13, <1>14 DEF RecordsInv

----------------------------------------------------------------------------
\* A command begins: its row is the last, and it is of the current session.
LEMMA NewCommandFacts ==
  ASSUME RecordsInv, NewCommand
  PROVE  /\ Len(began.commands) + 1 \in Nat \ {0} /\ Len(began'.commands) = Len(began.commands) + 1
         /\ began' \in [prompts : Seq(ConversationIds), commands : Seq(ConversationIds), rewrites : Nat] /\ began'.prompts = began.prompts
         /\ \A n, talk : Of(began.commands, n, talk) => Of(began'.commands, n, talk)
         /\ Of(began'.commands, Len(began'.commands), current)
         /\ \A n, talk : Of(began'.commands, n, talk) => Of(began.commands, n, talk) \/ (n = Len(began'.commands) /\ talk = current)
         /\ rows' \in Seq(ShownRows) /\ Len(rows') \in DOMAIN rows' /\ rows'[Len(rows')] = ShellRow(Len(began'.commands))
         /\ \A i \in DOMAIN rows : i \in DOMAIN rows' /\ rows'[i] = rows[i]
  <1> DEFINE list == Append(began.commands, current)
             n == Len(began.commands) + 1
  <1>1. /\ began \in [prompts : Seq(ConversationIds), commands : Seq(ConversationIds), rewrites : Nat] /\ current \in ConversationIds
        /\ began.commands \in Seq(ConversationIds) /\ rows \in Seq(ShownRows)
    BY DEF RecordsInv, RecordsTyped
  <1>2. began' = [began EXCEPT !.commands = list] /\ rows' = Append(rows, ShellRow(Len(began'.commands)))
    BY DEF NewCommand
  <1>3. list \in Seq(ConversationIds) /\ n \in Nat \ {0} /\ Len(list) = n
    BY <1>1
  <1>4. /\ \A m, talk : Of(began.commands, m, talk) => Of(list, m, talk)
        /\ Of(list, n, current)
        /\ \A m, talk : Of(list, m, talk) => Of(began.commands, m, talk) \/ (m = n /\ talk = current)
    BY <1>1, OfAppended
  <1> HIDE DEF list
  <1>5. began' \in [prompts : Seq(ConversationIds), commands : Seq(ConversationIds), rewrites : Nat] /\ began'.prompts = began.prompts /\ began'.commands = list
    BY <1>1, <1>2, <1>3
  <1>6. rows' = Append(rows, ShellRow(n)) /\ ShellRow(n) \in ShownRows
    BY <1>2, <1>3, <1>5 DEF ShellRow, ShownRows
  <1>7. rows' \in Seq(ShownRows) /\ Len(rows') \in DOMAIN rows' /\ rows'[Len(rows')] = ShellRow(n)
    BY <1>1, <1>6
  <1>8. \A i \in DOMAIN rows : i \in DOMAIN rows' /\ rows'[i] = rows[i]
    BY <1>1, <1>6
  <1> QED BY <1>3, <1>4, <1>5, <1>7, <1>8

LEMMA StartShellInv == ASSUME RecordsInv, StartShell PROVE RecordsInv'
  <1> DEFINE n == Len(began'.commands)
  <1>1. /\ NewCommand /\ shells' = shells \cup {[command |-> n, row |-> Len(rows'), parallel |-> busy]}
        /\ UNCHANGED <<current, stored, turnVars, finished, cd, muddled>>
    BY DEF StartShell
  <1>2. n \in Nat /\ UNCHANGED <<run, titler, answers>>
    BY <1>1, NewCommandFacts DEF turnVars
  <1>3. RecordsTyped'
    BY <1>1, <1>2, NewCommandFacts DEF RecordsInv, RecordsTyped
  <1>4. CommandsHere'
    <2> SUFFICES ASSUME current' \notin muddled' PROVE CommandsHere'
      BY DEF CommandsHere
    <2>1. CommandsHere /\ current \notin muddled
      BY <1>1 DEF RecordsInv
    <2>2. ASSUME NEW shell \in shells'
          PROVE  /\ Of(began'.commands, shell.command, current)
                 /\ shell.row \in DOMAIN rows' /\ rows'[shell.row] = ShellRow(shell.command)
      <3>1. CASE shell \in shells
        BY <1>1, <2>1, <3>1, NewCommandFacts DEF CommandsHere
      <3>2. CASE shell = [command |-> n, row |-> Len(rows'), parallel |-> busy]
        <4>1. shell.command = n /\ shell.row = Len(rows')
          BY <3>2
        <4> QED BY <1>1, <4>1, NewCommandFacts
      <3> QED BY <1>1, <2>2, <3>1, <3>2
    <2> QED BY <1>1, <2>1, <2>2, NewCommandFacts DEF CommandsHere
  <1>5. CommandsStored'
    <2>1. \A m : Pending(m) => Pending(m)'
      BY <1>1 DEF Pending
    <2>2. \A m : m = n => Pending(m)'
      <3>1. \E shell \in shells' : shell.command = n
        <4> DEFINE new == [command |-> n, row |-> Len(rows'), parallel |-> busy]
        <4>1. new \in shells' /\ new.command = n
          BY <1>1
        <4> QED BY <4>1
      <3> QED BY <3>1 DEF Pending
    <2>3. ASSUME NEW talk \in ConversationIds \ muddled', NEW m \in DOMAIN began'.commands, began'.commands[m] = talk
          PROVE  m \in Range(stored'[talk].bash) \/ (talk = current' /\ Pending(m)')
      <3>1. Of(began.commands, m, talk) \/ (m = n /\ talk = current)
        BY <1>1, <2>3, NewCommandFacts DEF Of
      <3> QED BY <1>1, <2>1, <2>2, <2>3, <3>1 DEF RecordsInv, CommandsStored, Of
    <2>4. ASSUME NEW talk \in ConversationIds \ muddled', NEW m \in Range(stored'[talk].bash)
          PROVE  Of(began'.commands, m, talk)
      BY <1>1, <2>4, NewCommandFacts DEF RecordsInv, CommandsStored
    <2> QED BY <2>3, <2>4 DEF CommandsStored
  <1>6. TitlesHere' /\ TitlesStored'
    BY <1>1, NewCommandFacts, TitlesRest
  <1> QED BY <1>3, <1>4, <1>5, <1>6 DEF RecordsInv

LEMMA FinishShellInv == ASSUME RecordsInv, FinishShell PROVE RecordsInv'
  <1>1. PICK shell \in shells :
          /\ shells' = shells \ {shell}
          /\ finished' = IF RowFound(shell) THEN finished \cup {rows[shell.row].command} ELSE finished
    BY DEF FinishShell
  <1>2. UNCHANGED <<current, stored, rows, turnVars, cd, began, muddled>>
    BY DEF FinishShell, viewVars, historyVars
  <1>3. finished' \subseteq Nat
    <2>1. finished \subseteq Nat /\ rows \in Seq(ShownRows)
      BY DEF RecordsInv, RecordsTyped
    <2>2. \A i \in DOMAIN rows : rows[i] \in ShownRows
      BY <2>1
    <2>3. RowFound(shell) => rows[shell.row].command \in Nat
      BY <2>2 DEF RowFound, ShownRows
    <2> QED BY <1>1, <2>1, <2>3
  <1>4. RecordsTyped'
    BY <1>2, <1>3 DEF RecordsInv, RecordsTyped, turnVars
  <1>5. current \notin muddled => finished' = finished \cup {shell.command}
    <2> SUFFICES ASSUME current \notin muddled PROVE finished' = finished \cup {shell.command}
      OBVIOUS
    <2>1. shell.row \in DOMAIN rows /\ rows[shell.row] = ShellRow(shell.command)
      BY DEF RecordsInv, CommandsHere
    <2> QED BY <1>1, <2>1 DEF RowFound, ShellRow
  <1>6. CommandsHere'
    BY <1>1, <1>2, <1>5 DEF RecordsInv, CommandsHere
  <1>7. CommandsStored'
    <2>1. \A n : current \notin muddled /\ Pending(n) => Pending(n)'
      BY <1>1, <1>2, <1>5 DEF Pending
    <2> QED BY <1>2, <2>1 DEF RecordsInv, CommandsStored
  <1>8. TitlesHere' /\ TitlesStored'
    BY <1>2, TitlesRest
  <1> QED BY <1>4, <1>6, <1>7, <1>8 DEF RecordsInv

\* Record appends a command to the current session.
LEMMA RecordedFacts ==
  ASSUME RecordsTyped, NEW n \in Nat, Record(n)
  PROVE  /\ stored' \in [ConversationIds -> Entries] /\ Range(stored'[current].bash) = Range(stored[current].bash) \cup {n}
         /\ \A talk \in ConversationIds : stored'[talk].title = stored[talk].title /\ (talk # current => stored'[talk] = stored[talk])
  <1>1. /\ current \in ConversationIds /\ stored \in [ConversationIds -> Entries] /\ stored[current].bash \in Seq(Nat)
        /\ stored' = [stored EXCEPT ![current].bash = Append(stored[current].bash, n)]
    BY DEF RecordsTyped, Entries, Record
  <1>2. /\ Append(stored[current].bash, n) \in Seq(Nat)
        /\ Range(Append(stored[current].bash, n)) = Range(stored[current].bash) \cup {n}
    BY <1>1, AppendRange
  <1> HIDE DEF Range
  <1> QED BY <1>1, <1>2 DEF Entries

LEMMA ShellStoredInv == ASSUME RecordsInv, ShellStored PROVE RecordsInv'
  <1>1. PICK n \in finished : Record(n) /\ finished' = finished \ {n}
    BY DEF ShellStored
  <1>2. /\ muddled' = (IF cd.at = "read" THEN muddled \cup {current} ELSE muddled)
        /\ UNCHANGED <<current, rows, turnVars, shells, cd, began>>
    BY DEF ShellStored, viewVars
  <1>3. n \in Nat /\ RecordsTyped
    BY <1>1 DEF RecordsInv, RecordsTyped
  <1>4. /\ stored' \in [ConversationIds -> Entries] /\ Range(stored'[current].bash) = Range(stored[current].bash) \cup {n}
        /\ \A talk \in ConversationIds : stored'[talk].title = stored[talk].title /\ (talk # current => stored'[talk] = stored[talk])
    BY <1>1, <1>3, RecordedFacts
  <1>5. RecordsTyped'
    BY <1>1, <1>2, <1>3, <1>4 DEF RecordsTyped, turnVars
  <1>6. muddled \subseteq muddled' /\ (current \notin muddled' => cd.at # "read")
    BY <1>2
  <1>7. CommandsHere'
    BY <1>1, <1>2, <1>6 DEF RecordsInv, CommandsHere
  <1>8. CommandsStored'
    <2>1. \A m : Pending(m) => Pending(m)' \/ m = n
      BY <1>1, <1>2 DEF Pending
    <2>2. ASSUME NEW talk \in ConversationIds \ muddled', NEW m \in Range(stored'[talk].bash) PROVE Of(began'.commands, m, talk)
      <3>1. m \in Range(stored[talk].bash) \/ (talk = current /\ m = n)
        BY <1>4, <2>2
      <3>2. current \notin muddled => Of(began.commands, n, current)
        BY <1>1 DEF RecordsInv, CommandsHere
      <3> QED BY <1>2, <1>6, <2>2, <3>1, <3>2 DEF RecordsInv, CommandsStored
    <2>3. ASSUME NEW talk \in ConversationIds \ muddled', NEW m \in DOMAIN began'.commands, began'.commands[m] = talk
          PROVE  m \in Range(stored'[talk].bash) \/ (talk = current' /\ Pending(m)')
      <3>1. m \in Range(stored[talk].bash) \/ (talk = current /\ Pending(m))
        BY <1>2, <1>6, <2>3 DEF RecordsInv, CommandsStored
      <3>2. Range(stored[talk].bash) \subseteq Range(stored'[talk].bash)
        BY <1>4
      <3> QED BY <1>2, <1>4, <2>1, <3>1, <3>2
    <2> QED BY <2>2, <2>3 DEF CommandsStored
  <1>9. TitlesHere' /\ TitlesStored'
    BY <1>2, <1>4, <1>6 DEF RecordsInv, TitlesHere, TitlesStored, turnVars
  <1> QED BY <1>5, <1>7, <1>8, <1>9 DEF RecordsInv

LEMMA CdFields ==
  ASSUME RecordsTyped
  PROVE  /\ cd.command \in Nat /\ cd.bash \in Seq(Nat) /\ current \in ConversationIds /\ stored[current].bash \in Seq(Nat)
         /\ stored[current] \in Entries
  BY DEF RecordsTyped, Entries

LEMMA StartCdInv == ASSUME RecordsInv, StartCd PROVE RecordsInv'
  <1> DEFINE n == Len(began'.commands)
  <1>1. /\ NewCommand /\ cd = NoCd /\ cd' = [NoCd EXCEPT !.command = n, !.at = "asked"] /\ Record(cd'.command)
        /\ UNCHANGED <<current, turnVars, shells, finished, muddled>>
    BY DEF StartCd
  <1>2. n \in Nat \ {0} /\ RecordsTyped
    BY <1>1, NewCommandFacts DEF RecordsInv
  <1>3. /\ cd'.command = n /\ cd'.at = "asked" /\ cd' \in [command : Nat, at : {"none", "asked", "read", "done"}, bash : Seq(Nat)]
    <2>1. <<>> \in Seq(Nat)
      OBVIOUS
    <2> QED BY <1>1, <1>2, <2>1 DEF NoCd
  <1>4. /\ stored' \in [ConversationIds -> Entries] /\ Range(stored'[current].bash) = Range(stored[current].bash) \cup {n}
        /\ \A talk \in ConversationIds : stored'[talk].title = stored[talk].title /\ (talk # current => stored'[talk] = stored[talk])
    BY <1>1, <1>2, <1>3, RecordedFacts
  <1>5. RecordsTyped'
    BY <1>1, <1>3, <1>4, NewCommandFacts DEF RecordsInv, RecordsTyped, turnVars
  <1>6. CommandsHere'
    BY <1>1, <1>3, NewCommandFacts DEF RecordsInv, CommandsHere
  <1>7. CommandsStored'
    <2>1. \A m \in Nat \ {0} : Pending(m) => Pending(m)'
      BY <1>1 DEF Pending, NoCd
    <2>2. ASSUME NEW talk \in ConversationIds \ muddled', NEW m \in Range(stored'[talk].bash) PROVE Of(began'.commands, m, talk)
      <3>1. m \in Range(stored[talk].bash) \/ (talk = current /\ m = n)
        BY <1>4, <2>2
      <3> QED BY <1>1, <2>2, <3>1, NewCommandFacts DEF RecordsInv, CommandsStored
    <2>3. ASSUME NEW talk \in ConversationIds \ muddled', NEW m \in DOMAIN began'.commands, began'.commands[m] = talk
          PROVE  m \in Range(stored'[talk].bash) \/ (talk = current' /\ Pending(m)')
      <3>1. Of(began.commands, m, talk) \/ (m = n /\ talk = current)
        BY <1>1, <2>3, NewCommandFacts DEF Of
      <3>2. Range(stored[talk].bash) \subseteq Range(stored'[talk].bash) /\ n \in Range(stored'[current].bash)
        BY <1>4
      <3>3. m \in Nat \ {0}
        BY <2>3, <1>5 DEF RecordsTyped
      <3> QED BY <1>1, <2>1, <2>3, <3>1, <3>2, <3>3 DEF RecordsInv, CommandsStored, Of
    <2> QED BY <2>2, <2>3 DEF CommandsStored
  <1>8. TitlesHere' /\ TitlesStored'
    BY <1>1, <1>4, NewCommandFacts, TitlesRest
  <1> QED BY <1>5, <1>6, <1>7, <1>8 DEF RecordsInv

LEMMA CdReadsInv == ASSUME RecordsInv, CdReads PROVE RecordsInv'
  <1>1. /\ cd.at = "asked" /\ UNCHANGED <<current, stored, rows, turnVars, shells, finished, began, muddled>>
        /\ cd' \in {[cd EXCEPT !.at = "read", !.bash = stored[current].bash], [cd EXCEPT !.at = "done"]}
    BY DEF CdReads, viewVars, historyVars
  <1>2. /\ cd' \in [command : Nat, at : {"none", "asked", "read", "done"}, bash : Seq(Nat)] /\ cd'.command = cd.command
        /\ cd'.at # "none" /\ (cd'.at = "read" => cd'.bash = stored[current].bash)
    BY <1>1, CdFields DEF RecordsInv, RecordsTyped
  <1>3. RecordsTyped'
    BY <1>1, <1>2 DEF RecordsInv, RecordsTyped, turnVars
  <1>4. cd # NoCd
    BY <1>1 DEF NoCd
  <1>5. CommandsHere'
    BY <1>1, <1>2, <1>4 DEF RecordsInv, CommandsHere
  <1>6. CommandsStored'
    BY <1>1, <1>2 DEF RecordsInv, CommandsStored, Pending
  <1>7. TitlesHere' /\ TitlesStored'
    BY <1>1, TitlesRest
  <1> QED BY <1>3, <1>5, <1>6, <1>7 DEF RecordsInv

LEMMA CdWritesInv == ASSUME RecordsInv, CdWrites PROVE RecordsInv'
  <1>1. /\ cd.at = "read" /\ UNCHANGED <<current, rows, turnVars, shells, finished, began, muddled>>
        /\ cd' = [cd EXCEPT !.at = "done"] /\ stored' = [stored EXCEPT ![current].bash = cd.bash]
    BY DEF CdWrites, viewVars, historyVars
  <1>2. /\ cd' \in [command : Nat, at : {"none", "asked", "read", "done"}, bash : Seq(Nat)] /\ cd'.command = cd.command /\ cd'.at = "done"
    BY <1>1 DEF RecordsInv, RecordsTyped
  <1>3. /\ stored' \in [ConversationIds -> Entries] /\ stored'[current].bash = cd.bash
        /\ \A talk \in ConversationIds : stored'[talk].title = stored[talk].title /\ (talk # current => stored'[talk] = stored[talk])
    BY <1>1, CdFields DEF RecordsInv, RecordsTyped, Entries
  <1>4. RecordsTyped'
    BY <1>1, <1>2, <1>3 DEF RecordsInv, RecordsTyped, turnVars
  <1>5. \A talk \in ConversationIds \ muddled : stored'[talk].bash = stored[talk].bash
    BY <1>1, <1>3 DEF RecordsInv, CommandsHere
  <1>6. cd # NoCd
    BY <1>1 DEF NoCd
  <1>7. CommandsHere'
    BY <1>1, <1>2, <1>6 DEF RecordsInv, CommandsHere
  <1>8. CommandsStored'
    BY <1>1, <1>2, <1>5 DEF RecordsInv, CommandsStored, Pending
  <1>9. TitlesHere' /\ TitlesStored'
    BY <1>1, <1>3, TitlesRest
  <1> QED BY <1>4, <1>7, <1>8, <1>9 DEF RecordsInv

LEMMA CdReportsInv == ASSUME RecordsInv, CdReports PROVE RecordsInv'
  <1>1. /\ cd.at = "done" /\ Record(cd.command) /\ cd' = NoCd
        /\ UNCHANGED <<current, rows, turnVars, shells, finished, began, muddled>>
    BY DEF CdReports, viewVars, historyVars
  <1>2. cd.command \in Nat /\ RecordsTyped
    BY CdFields DEF RecordsInv
  <1>3. /\ stored' \in [ConversationIds -> Entries] /\ Range(stored'[current].bash) = Range(stored[current].bash) \cup {cd.command}
        /\ \A talk \in ConversationIds : stored'[talk].title = stored[talk].title /\ (talk # current => stored'[talk] = stored[talk])
    BY <1>1, <1>2, RecordedFacts
  <1>4. NoCd \in [command : Nat, at : {"none", "asked", "read", "done"}, bash : Seq(Nat)] /\ NoCd.at = "none"
    BY DEF NoCd
  <1>5. RecordsTyped'
    BY <1>1, <1>2, <1>3, <1>4 DEF RecordsTyped, turnVars
  <1>6. CommandsHere'
    BY <1>1, <1>4 DEF RecordsInv, CommandsHere
  <1>7. CommandsStored'
    <2>1. \A m : Pending(m) => Pending(m)' \/ m = cd.command
      BY <1>1 DEF Pending
    <2>2. current \notin muddled => Of(began.commands, cd.command, current)
      BY <1>1, <1>4 DEF RecordsInv, CommandsHere
    <2>3. ASSUME NEW talk \in ConversationIds \ muddled', NEW m \in Range(stored'[talk].bash) PROVE Of(began'.commands, m, talk)
      <3>1. m \in Range(stored[talk].bash) \/ (talk = current /\ m = cd.command)
        BY <1>3, <2>3
      <3> QED BY <1>1, <2>2, <2>3, <3>1 DEF RecordsInv, CommandsStored
    <2>4. ASSUME NEW talk \in ConversationIds \ muddled', NEW m \in DOMAIN began'.commands, began'.commands[m] = talk
          PROVE  m \in Range(stored'[talk].bash) \/ (talk = current' /\ Pending(m)')
      <3>1. m \in Range(stored[talk].bash) \/ (talk = current /\ Pending(m))
        BY <1>1, <2>4 DEF RecordsInv, CommandsStored
      <3>2. Range(stored[talk].bash) \subseteq Range(stored'[talk].bash)
        BY <1>3
      <3> QED BY <1>1, <1>3, <2>1, <3>1, <3>2
    <2> QED BY <2>3, <2>4 DEF CommandsStored
  <1>8. TitlesHere' /\ TitlesStored'
    BY <1>1, <1>3, TitlesRest
  <1> QED BY <1>5, <1>6, <1>7, <1>8 DEF RecordsInv

LEMMA NextRecords == RecordsInv /\ [RecordsNext]_recordVars => RecordsInv'
  <1> SUFFICES ASSUME RecordsInv, [RecordsNext]_recordVars PROVE RecordsInv'
    OBVIOUS
  <1>1. CASE TitleStored
    <2>1. PICK answer \in answers : Entitle(answer) /\ answers' = answers \ {answer}
      BY <1>1 DEF TitleStored
    <2>2. answer \in Titles /\ UNCHANGED <<current, rows, run, titler, commandVars, began, muddled>>
      BY <1>1 DEF TitleStored, RecordsInv, RecordsTyped, viewVars
    <2> QED BY <2>1, <2>2, EntitleInv
  <1>2. CASE Rename
    <2>1. Title("user", 0) \in Titles /\ Title("user", 0).prompt = 0
      BY DEF Title, Titles
    <2> QED BY <1>2, <2>1, EntitleInv DEF Rename, turnVars, historyVars
  <1>3. CASE UNCHANGED recordVars
    <2>1. UNCHANGED <<current, stored, rows, turnVars, commandVars, began, muddled>>
      BY <1>3 DEF recordVars, viewVars, historyVars
    <2>2. UNCHANGED <<run, titler, answers, shells, finished, cd>>
      BY <2>1 DEF turnVars, commandVars
    <2>3. RecordsTyped'
      BY <2>1, <2>2 DEF RecordsInv, RecordsTyped
    <2> QED BY <2>1, <2>3, CommandsRest, TitlesRest DEF RecordsInv
  <1>4. CASE \E talk \in 1 .. Conversations : Switch(talk)
    BY <1>4, SwitchInv DEF ConversationIds
  <1> QED
    BY <1>1, <1>2, <1>3, <1>4, StartTurnInv, HelperAnswersInv, TurnEndsInv, finishRunInv, UndoInv, StartShellInv, FinishShellInv,
       ShellStoredInv, StartCdInv, CdReadsInv, CdWritesInv, CdReportsInv DEF RecordsNext

\* Whatever turns, the title helper, commands, a cd and switches do beside each other, a
\* session that nobody left in the middle keeps its own commands, all of them, and its own
\* title (internal/tui/chat.go:1480, title.go:113, cmd/midas/main.go:1495).
THEOREM RecordsStayApart == RecordsSpec => []RecordsKept
  <1>1. RecordsInv => RecordsKept
    <2> SUFFICES ASSUME RecordsInv, NEW talk \in (1 .. Conversations) \ muddled
                 PROVE  /\ \A n \in DOMAIN began.commands :
                             /\ n \in Range(stored[talk].bash) => began.commands[n] = talk
                             /\ Ended(n) /\ began.commands[n] = talk => n \in Range(stored[talk].bash)
                        /\ stored[talk].title.prompt # 0 => began.prompts[stored[talk].title.prompt] = talk
      BY DEF RecordsKept
    <2>1. \A n : Ended(n) => ~Pending(n)
      BY DEF Ended, Pending
    <2> QED BY <2>1 DEF RecordsInv, CommandsStored, TitlesStored, Of, ConversationIds
  <1> QED BY <1>1, InitRecords, NextRecords, PTL DEF RecordsSpec

-----------------------------------------------------------------------------
(* Dictation: as long as nothing excuses the controller, one helper at most *)
(* is at work, for one dictation at a time, and it goes through the phases  *)
(* below; every other helper is silent.                                     *)
Spoken(words) == words \in Seq(Nat) /\ \A i, j \in DOMAIN words : i < j => words[i] < words[j]
Within(words) == Spoken(words) /\ ToSet(words) \subseteq heard
Whole(words) == Spoken(words) /\ ToSet(words) = heard
HelperStates == {"none", "loading", "idle", "capturing", "cut", "killed", "gone", "waited"}
StopStates == {"none", "begun", "waiting", "paused", "ended", "done"}
HelperLines == [kind : {"partial", "final", "paused", "error"}, words : Seq(Nat)]
Silent(h) == commands[h] = <<>> /\ lines[h] = <<>> /\ telling[h] = <<>>

\* A helper that was told to listen and did not yet; one that captures; one that was
\* told to stop and has said all of it, of which the reader has not read everything.
Called(h, asked) ==
  /\ helper[h] \in {"loading", "idle"} /\ commands[h] = <<"listen">> \o asked
  /\ heard = {} /\ lines[h] = <<>> /\ telling[h] = <<>> /\ committed = <<>>
Partial(line) == line.kind = "partial" /\ Within(line.words)
Capturing(h, asked) ==
  /\ helper[h] = "capturing" /\ commands[h] = asked /\ committed = <<>> /\ Whole(audio[h])
  /\ \A i \in DOMAIN lines[h] : Partial(lines[h][i])
  /\ audio[h] = <<>> => lines[h] = <<>>
Delivered(h) == IF telling[h] = <<>> THEN draft.text = audio[h] ELSE telling[h] = <<audio[h]>>
Flushing(h) ==
  LET n == Len(lines[h]) IN
  /\ helper[h] = "idle" /\ commands[h] = <<>> /\ Whole(audio[h])
  /\ n > 0 /\ lines[h][n].kind = "paused"
  /\ \/ n = 1 /\ Delivered(h)
     \/ /\ n > 1 /\ committed = <<>> /\ lines[h][n - 1].kind = "final" /\ lines[h][n - 1].words = audio[h]
        /\ \A i \in 1..(n - 2) : Partial(lines[h][i])
Stage(h, asked) == Called(h, asked) \/ Capturing(h, asked) \/ (asked # <<>> /\ Flushing(h))
Through(h) == helper[h] = "idle" /\ Silent(h) /\ Whole(draft.text)

Stopping(s) == stopping[s] \in {"begun", "waiting", "paused"}
Asked(s) == stopping[s] \in {"waiting", "paused"}

VoiceTyped ==
  /\ child \in Helpers \cup {0} /\ listener \in Helpers \cup {0} /\ spawned \in 0..MaxHelpers
  /\ listening \in BOOLEAN /\ committed \in Seq(Nat) /\ written \in Seq(Nat)
  /\ pauseWait \in Stops \cup {0} /\ released \subseteq Stops
  /\ helper \in [Helpers -> HelperStates] /\ commands \in [Helpers -> Seq({"listen", "pause"})]
  /\ audio \in [Helpers -> Seq(Nat)] /\ lines \in [Helpers -> Seq(HelperLines)]
  /\ telling \in [Helpers -> Seq(Seq(Nat))]
  /\ stopping \in [Stops -> StopStates]
  /\ draft \in [active : BOOLEAN, stopping : BOOLEAN, text : Seq(Nat)]
  /\ spoken \in Nat /\ heard \subseteq 1..spoken
OtherHelpers ==
  /\ \A h \in Helpers \ {child} : Silent(h) /\ helper[h] \in {"none", "killed", "gone", "waited"}
  /\ \A h \in Helpers : telling[h] # <<>> => telling[h] = <<telling[h][1]>> /\ Within(telling[h][1])
Stoppers ==
  /\ \A s \in Stops : Stopping(s) => draft.active /\ draft.stopping /\ listener = 0
  /\ \A s, t \in Stops : Stopping(s) /\ Stopping(t) => s = t
  /\ \A s \in released : stopping[s] \notin {"none", "begun"}
Resting ==
  ~draft.active => /\ listener = 0 /\ ~listening /\ pauseWait = 0
                   /\ child # 0 => Silent(child) /\ helper[child] = "idle"
                   /\ heard \subseteq ToSet(written)
Opening ==
  listener # 0 => /\ draft.active /\ ~draft.stopping /\ child = listener /\ ~listening /\ pauseWait = 0
                  /\ heard = {} /\ Silent(child) /\ helper[child] \in {"loading", "idle"}
Dictating ==
  draft.active /\ listener = 0 =>
    /\ child # 0
    /\ (\A s \in Stops : ~Asked(s)) =>
         listening /\ pauseWait = 0 /\ Stage(child, <<>>)
    /\ \A s \in Stops : Asked(s) =>
         /\ listening <=> stopping[s] = "waiting"
         /\ s \in released => pauseWait = 0 /\ Through(child)
         /\ s \notin released =>
              stopping[s] = "waiting" /\ pauseWait = s /\ Stage(child, <<"pause">>)
Writing ==
  /\ Spoken(written) /\ ToSet(written) \subseteq 1..spoken
  /\ draft.active => Within(draft.text) /\ \A w \in ToSet(written), x \in heard : w < x
Orderly == VoiceTyped /\ OtherHelpers /\ Stoppers /\ Resting /\ Opening /\ Dictating /\ Writing
VoiceInv == excused \in BOOLEAN /\ (~excused => Orderly)

\* Sequences of words.
LEMMA JoinSpoken ==
  ASSUME NEW u, NEW v, Spoken(u), Spoken(v), \A a \in ToSet(u), b \in ToSet(v) : a < b
  PROVE  Spoken(u \o v) /\ ToSet(u \o v) = ToSet(u) \cup ToSet(v)
  <1> DEFINE n == Len(u)
             w == u \o v
  <1>1. /\ u \in Seq(Nat) /\ v \in Seq(Nat) /\ w \in Seq(Nat) /\ n \in Nat /\ Len(v) \in Nat /\ Len(w) = n + Len(v)
        /\ DOMAIN u = 1..n /\ DOMAIN v = 1..Len(v) /\ DOMAIN w = 1..(n + Len(v))
    BY DEF Spoken
  <1>2. \A i \in 1..n : i \in DOMAIN w /\ w[i] = u[i]
    BY <1>1
  <1>3. \A i \in 1..Len(v) : n + i \in DOMAIN w /\ w[n + i] = v[i]
    BY <1>1
  <1>4. \A i \in DOMAIN w : i \in 1..n \/ (i - n \in 1..Len(v) /\ i = n + (i - n))
    BY <1>1
  <1>5. \A i \in DOMAIN w : (i \in 1..n /\ w[i] = u[i]) \/ (i - n \in 1..Len(v) /\ w[i] = v[i - n])
    <2> SUFFICES ASSUME NEW i \in DOMAIN w PROVE (i \in 1..n /\ w[i] = u[i]) \/ (i - n \in 1..Len(v) /\ w[i] = v[i - n])
      OBVIOUS
    <2>1. CASE i \in 1..n
      BY <1>2, <2>1
    <2>2. CASE i - n \in 1..Len(v) /\ i = n + (i - n)
      <3>1. w[n + (i - n)] = v[i - n]
        BY <1>3, <2>2
      <3> QED BY <2>2, <3>1
    <2> QED BY <1>4, <2>1, <2>2
  <1> HIDE DEF w
  <1>6. ToSet(w) = ToSet(u) \cup ToSet(v)
    <2>1. ToSet(w) \subseteq ToSet(u) \cup ToSet(v)
      BY <1>1, <1>5 DEF ToSet
    <2>2. ToSet(u) \subseteq ToSet(w)
      BY <1>1, <1>2 DEF ToSet
    <2>3. ToSet(v) \subseteq ToSet(w)
      BY <1>1, <1>3 DEF ToSet
    <2> QED BY <2>1, <2>2, <2>3
  <1>7. ASSUME NEW i \in DOMAIN w, NEW j \in DOMAIN w, i < j PROVE w[i] < w[j]
    <2>1. CASE i \in 1..n /\ w[i] = u[i] /\ j \in 1..n /\ w[j] = u[j]
      BY <1>1, <1>7, <2>1 DEF Spoken
    <2>2. CASE i - n \in 1..Len(v) /\ w[i] = v[i - n] /\ j - n \in 1..Len(v) /\ w[j] = v[j - n]
      <3>1. i - n < j - n
        BY <1>1, <1>7
      <3> QED BY <1>1, <2>2, <3>1 DEF Spoken
    <2>3. CASE i \in 1..n /\ w[i] = u[i] /\ j - n \in 1..Len(v) /\ w[j] = v[j - n]
      <3>1. u[i] \in ToSet(u) /\ v[j - n] \in ToSet(v)
        BY <1>1, <2>3 DEF ToSet
      <3> QED BY <2>3, <3>1
    <2>4. CASE i - n \in 1..Len(v) /\ j \in 1..n
      BY <1>1, <1>7, <2>4
    <2> QED BY <1>5, <2>1, <2>2, <2>3, <2>4
  <1> QED BY <1>1, <1>6, <1>7 DEF Spoken, w

LEMMA OneMoreSpoken ==
  ASSUME NEW u, Spoken(u), NEW word \in Nat, \A a \in ToSet(u) : a < word
  PROVE  Spoken(Append(u, word)) /\ ToSet(Append(u, word)) = ToSet(u) \cup {word}
  <1>1. Spoken(<<word>>) /\ ToSet(<<word>>) = {word}
    BY DEF Spoken, ToSet
  <1>2. Append(u, word) = u \o <<word>>
    BY DEF Spoken
  <1> QED BY <1>1, <1>2, JoinSpoken

LEMMA NothingSpoken == Spoken(<<>>) /\ ToSet(<<>>) = {}
  BY DEF Spoken, ToSet

\* The text that keeps everything heard, of nothing heard.
LEMMA NothingHeard == ASSUME NEW words, Within(words), NEW other, Whole(other), other = <<>> PROVE words = other
  <1>1. heard = {}
    BY NothingSpoken DEF Whole
  <1>2. words \in Seq(Nat) /\ ToSet(words) = {}
    BY <1>1 DEF Within, Spoken
  <1>3. Len(words) \in Nat /\ (Len(words) > 0 => 1 \in DOMAIN words) /\ (Len(words) = 0 => words = <<>>)
    BY <1>2
  <1>4. 1 \notin DOMAIN words
    BY <1>2 DEF ToSet
  <1> QED BY <1>3, <1>4

\* What is left of a sequence without its first.
LEMMA RestFacts ==
  ASSUME NEW S, NEW list \in Seq(S), list # <<>>
  PROVE  /\ Tail(list) \in Seq(S) /\ Len(list) \in Nat /\ Len(list) > 0 /\ Len(Tail(list)) = Len(list) - 1
         /\ Head(list) = list[1] /\ Head(list) \in S /\ 1 \in DOMAIN list
         /\ \A i \in 1..(Len(list) - 1) : Tail(list)[i] = list[i + 1] /\ i + 1 \in DOMAIN list
         /\ DOMAIN Tail(list) = 1..(Len(list) - 1)
  OBVIOUS

-----------------------------------------------------------------------------
\* A helper that has something to do is the dictation's, before or after it was told to stop.
AtWork(h) == lines[h] # <<>> \/ telling[h] # <<>> \/ commands[h] # <<>> \/ helper[h] \in {"capturing", "cut"}
LEMMA WorkFacts ==
  ASSUME Orderly, NEW h \in Helpers, AtWork(h)
  PROVE  /\ h = child /\ draft.active /\ listener = 0 /\ listening /\ helper[h] # "cut"
         /\ \/ (\A s \in Stops : ~Asked(s)) /\ pauseWait = 0 /\ Stage(h, <<>>)
            \/ \E s \in Stops : /\ Asked(s) /\ s \notin released /\ stopping[s] = "waiting" /\ pauseWait = s
                                /\ Stage(h, <<"pause">>)
  <1>1. h = child /\ child # 0
    <2>1. 0 \notin Helpers
      BY VoiceAssumption DEF Helpers
    <2> QED BY <2>1 DEF Orderly, OtherHelpers, Silent, AtWork
  <1>2. ~(Silent(h) /\ helper[h] \in {"idle", "loading"})
    BY DEF Silent, AtWork
  <1>3. draft.active /\ listener = 0
    BY <1>1, <1>2 DEF Orderly, Resting, Opening
  <1>4. ~Through(h)
    BY <1>2 DEF Through
  <1>5. Dictating
    BY DEF Orderly
  <1>6. CASE \A s \in Stops : ~Asked(s)
    <2>1. listening /\ pauseWait = 0 /\ Stage(h, <<>>)
      BY <1>1, <1>3, <1>5, <1>6 DEF Dictating
    <2>2. helper[h] # "cut"
      BY <2>1 DEF Stage, Called, Capturing, Flushing
    <2> QED BY <1>1, <1>3, <1>6, <2>1, <2>2
  <1>7. CASE \E s \in Stops : Asked(s)
    <2>1. PICK s \in Stops : Asked(s)
      BY <1>7
    <2>2. s \notin released
      BY <1>1, <1>3, <1>4, <1>5, <2>1 DEF Dictating
    <2>3. stopping[s] = "waiting" /\ pauseWait = s /\ Stage(h, <<"pause">>) /\ (listening <=> stopping[s] = "waiting")
      BY <1>1, <1>3, <1>5, <2>1, <2>2 DEF Dictating
    <2>4. helper[h] # "cut"
      BY <2>3 DEF Stage, Called, Capturing, Flushing
    <2> QED BY <1>1, <1>3, <2>1, <2>2, <2>3, <2>4
  <1> QED BY <1>6, <1>7

\* The dictation's helper runs.
LEMMA ChildAlive == ASSUME Orderly, child # 0 PROVE child \in Helpers /\ helper[child] \in {"loading", "idle", "capturing"}
  <1>1. child \in Helpers
    BY DEF Orderly, VoiceTyped
  <1>2. CASE AtWork(child)
    BY <1>1, <1>2, WorkFacts DEF Stage, Called, Capturing, Flushing
  <1>3. CASE ~AtWork(child)
    <2>1. Resting /\ Opening /\ Dictating
      BY DEF Orderly
    <2>2. ASSUME NEW asked, Stage(child, asked) PROVE helper[child] \in {"loading", "idle", "capturing"}
      BY <2>2 DEF Stage, Called, Capturing, Flushing
    <2>3. CASE ~draft.active \/ listener # 0
      BY <1>1, <2>1, <2>3 DEF Resting, Opening
    <2>4. CASE draft.active /\ listener = 0
      BY <1>1, <2>1, <2>2, <2>4 DEF Dictating, Through
    <2> QED BY <2>3, <2>4
  <1> QED BY <1>2, <1>3

\* A step of that helper, or of its reader, that stays in the phase.
LEMMA StepAtWork ==
  ASSUME Orderly, NEW h \in Helpers, AtWork(h),
         UNCHANGED <<child, listener, listening, stopping, pauseWait, released>>,
         draft'.active = draft.active, draft'.stopping = draft.stopping,
         \A g \in Helpers \ {h} : /\ helper'[g] = helper[g] /\ commands'[g] = commands[g]
                                  /\ lines'[g] = lines[g] /\ telling'[g] = telling[g],
         \A asked \in {<<>>, <<"pause">>} : Stage(h, asked) => Stage(h, asked)'
  PROVE  /\ Stoppers' /\ Resting' /\ Opening' /\ Dictating'
         /\ \A g \in Helpers \ {child'} : Silent(g)' /\ helper'[g] \in {"none", "killed", "gone", "waited"}
  <1>1. h = child /\ draft.active /\ listener = 0 /\ listening /\ child # 0
    <2>1. 0 \notin Helpers
      BY VoiceAssumption DEF Helpers
    <2> QED BY <2>1, WorkFacts
  <1>2. \A s \in Stops : (Stopping(s)' <=> Stopping(s)) /\ (Asked(s)' <=> Asked(s))
    BY DEF Stopping, Asked
  <1>3. Stoppers'
    <2>1. Stoppers
      BY DEF Orderly
    <2> QED BY <1>2, <2>1 DEF Stoppers
  <1>4. Resting' /\ Opening'
    BY <1>1 DEF Resting, Opening
  <1>5. ASSUME (\A s \in Stops : ~Asked(s)) /\ pauseWait = 0 /\ Stage(h, <<>>) PROVE Dictating'
    <2>1. Stage(h, <<>>)'
      BY <1>5
    <2>2. listening' /\ pauseWait' = 0 /\ child' # 0 /\ Stage(child, <<>>)' /\ \A s \in Stops : ~Asked(s)'
      BY <1>1, <1>2, <1>5, <2>1
    <2> QED BY <2>2 DEF Dictating
  <1>6. ASSUME \E s \in Stops : Asked(s) /\ s \notin released /\ stopping[s] = "waiting" /\ pauseWait = s /\ Stage(h, <<"pause">>)
        PROVE Dictating'
    <2>1. PICK s \in Stops : Asked(s) /\ s \notin released /\ stopping[s] = "waiting" /\ pauseWait = s /\ Stage(h, <<"pause">>)
      BY <1>6
    <2>2. Stage(h, <<"pause">>)'
      BY <2>1
    <2>3. \A t \in Stops : Asked(t) => t = s
      BY <2>1 DEF Orderly, Stoppers, Asked, Stopping
    <2>4. /\ listening' /\ child' # 0 /\ Stage(child, <<"pause">>)' /\ pauseWait' = s /\ stopping'[s] = "waiting"
          /\ s \notin released' /\ Asked(s)' /\ \A t \in Stops : Asked(t)' => t = s
      BY <1>1, <1>2, <2>1, <2>2, <2>3
    <2> QED BY <2>4 DEF Dictating
  <1>7. Dictating'
    <2>1. \/ (\A s \in Stops : ~Asked(s)) /\ pauseWait = 0 /\ Stage(h, <<>>)
          \/ \E s \in Stops : Asked(s) /\ s \notin released /\ stopping[s] = "waiting" /\ pauseWait = s /\ Stage(h, <<"pause">>)
      BY WorkFacts
    <2> QED BY <1>5, <1>6, <2>1
  <1>8. \A g \in Helpers \ {child'} : Silent(g)' /\ helper'[g] \in {"none", "killed", "gone", "waited"}
    BY <1>1 DEF Orderly, OtherHelpers, Silent
  <1> QED BY <1>3, <1>4, <1>7, <1>8

-----------------------------------------------------------------------------
(* The helper's steps.                                                      *)
LEMMA SpeakSound == ASSUME Orderly, NEW h \in Helpers, Speak(h) PROVE Orderly'
  <1>1. /\ helper[h] = "capturing" /\ spoken' = spoken + 1 /\ audio' = [audio EXCEPT ![h] = Append(audio[h], spoken')]
        /\ heard' = heard \cup {spoken'} /\ UNCHANGED <<controller, helper, commands, lines, telling, listener, stopping, view, excused>>
    BY DEF Speak
  <1>2. UNCHANGED <<child, spawned, listening, committed, partial, teardown, pauseWait, released, helper, commands, lines, telling,
                    listener, stopping, draft, written>>
    BY <1>1 DEF controller, view
  <1>3. VoiceTyped /\ OtherHelpers /\ Writing
    BY DEF Orderly
  <1>4. AtWork(h) /\ draft.active
    BY <1>1, WorkFacts DEF AtWork
  <1>5. spoken' \in Nat /\ audio[h] \in Seq(Nat) /\ Append(audio[h], spoken') \in Seq(Nat) /\ audio'[h] = Append(audio[h], spoken')
    BY <1>1, <1>3 DEF VoiceTyped
  <1>6. heard' \subseteq 1..spoken' /\ \A word \in heard : word < spoken'
    <2>1. spoken \in Nat /\ spoken' = spoken + 1 /\ heard' = heard \cup {spoken'} /\ heard \subseteq 1..spoken
      BY <1>1, <1>3 DEF VoiceTyped
    <2>2. \A word \in 1..spoken : word \in 1..spoken' /\ word < spoken'
      BY <2>1
    <2>3. spoken' \in 1..spoken'
      BY <2>1
    <2> QED BY <2>1, <2>2, <2>3
  <1>7. \A words : Within(words) => Within(words)'
    BY <1>1 DEF Within
  <1>8. VoiceTyped'
    BY <1>1, <1>2, <1>3, <1>5, <1>6 DEF VoiceTyped
  <1>9. ASSUME NEW asked \in {<<>>, <<"pause">>}, Stage(h, asked) PROVE Stage(h, asked)'
    <2>1. Capturing(h, asked)
      BY <1>1, <1>9 DEF Stage, Called, Flushing
    <2>2. Spoken(audio'[h]) /\ ToSet(audio'[h]) = heard'
      BY <1>1, <1>5, <1>6, <2>1, OneMoreSpoken DEF Capturing, Whole
    <2>3. audio'[h] # <<>>
      BY <1>5
    <2>4. \A i \in DOMAIN lines'[h] : lines'[h][i].kind = "partial" /\ Within(lines[h][i].words)'
      BY <1>2, <1>7, <2>1 DEF Capturing, Partial
    <2>5. Capturing(h, asked)'
      BY <1>1, <1>2, <2>1, <2>2, <2>3, <2>4 DEF Capturing, Whole, Partial
    <2> QED BY <2>5 DEF Stage
  <1>10. /\ Stoppers' /\ Resting' /\ Opening' /\ Dictating'
         /\ \A g \in Helpers \ {child'} : Silent(g)' /\ helper'[g] \in {"none", "killed", "gone", "waited"}
    BY <1>2, <1>4, <1>9, StepAtWork
  <1>11. OtherHelpers'
    <2>1. \A g \in Helpers : telling'[g] # <<>> => telling'[g] = <<telling'[g][1]>> /\ Within(telling[g][1])'
      BY <1>2, <1>3, <1>7 DEF OtherHelpers
    <2> QED BY <1>10, <2>1 DEF OtherHelpers
  <1>12. Writing'
    <2>1. Within(draft.text)'
      BY <1>2, <1>3, <1>4, <1>7 DEF Writing
    <2>2. Spoken(written)' /\ ToSet(written') \subseteq 1..spoken /\ 1..spoken \subseteq 1..spoken' /\ spoken \in Nat
      <3>1. spoken \in Nat /\ Spoken(written) /\ ToSet(written) \subseteq 1..spoken /\ written' = written /\ spoken' = spoken + 1
        BY <1>1, <1>2, <1>3 DEF Writing, VoiceTyped
      <3>2. 1..spoken \subseteq 1..spoken'
        BY <3>1
      <3> QED BY <3>1, <3>2
    <2>3. \A w \in ToSet(written'), x \in heard' : w < x
      <3> SUFFICES ASSUME NEW w \in ToSet(written'), NEW x \in heard' PROVE w < x
        OBVIOUS
      <3>1. CASE x \in heard
        BY <1>2, <1>3, <1>4, <3>1 DEF Writing
      <3>2. CASE x = spoken'
        BY <1>1, <2>2, <3>2
      <3> QED BY <1>1, <3>1, <3>2
    <2> QED BY <2>1, <2>2, <2>3 DEF Writing
  <1> QED BY <1>8, <1>10, <1>11, <1>12 DEF Orderly

LEMMA DecodeSound == ASSUME Orderly, NEW h \in Helpers, Decode(h) PROVE Orderly'
  <1>1. /\ helper[h] \in {"capturing", "cut"} /\ audio[h] # <<>>
        /\ lines' = [lines EXCEPT ![h] = Append(lines[h], Text("partial", audio[h]))]
        /\ UNCHANGED <<controller, helper, commands, audio, telling, listener, stopping, view, spoken, heard, excused>>
    BY DEF Decode, Emits
  <1>2. UNCHANGED <<child, spawned, listening, committed, partial, teardown, pauseWait, released, helper, commands, audio, telling,
                    listener, stopping, draft, written, spoken, heard>>
    BY <1>1 DEF controller, view
  <1>3. VoiceTyped /\ OtherHelpers /\ Writing
    BY DEF Orderly
  <1>4. AtWork(h) /\ helper[h] = "capturing"
    <2>1. AtWork(h)
      BY <1>1 DEF AtWork
    <2> QED BY <1>1, <2>1, WorkFacts
  <1>5. lines[h] \in Seq(HelperLines) /\ Text("partial", audio[h]) \in HelperLines
    BY <1>3 DEF VoiceTyped, Text, HelperLines
  <1>6. /\ lines'[h] \in Seq(HelperLines) /\ DOMAIN lines'[h] = 1..(Len(lines[h]) + 1) /\ Len(lines[h]) \in Nat
        /\ lines'[h][Len(lines[h]) + 1] = Text("partial", audio[h]) /\ \A i \in 1..Len(lines[h]) : lines'[h][i] = lines[h][i]
        /\ lines' \in [Helpers -> Seq(HelperLines)]
    <2>1. lines'[h] = Append(lines[h], Text("partial", audio[h])) /\ Append(lines[h], Text("partial", audio[h])) \in Seq(HelperLines)
      BY <1>1, <1>3, <1>5 DEF VoiceTyped
    <2>2. lines' \in [Helpers -> Seq(HelperLines)]
      BY <1>1, <1>3, <2>1 DEF VoiceTyped
    <2> QED BY <1>5, <2>1, <2>2
  <1>7. VoiceTyped'
    BY <1>2, <1>3, <1>6 DEF VoiceTyped
  <1>8. ASSUME NEW asked \in {<<>>, <<"pause">>}, Stage(h, asked) PROVE Stage(h, asked)'
    <2>1. Capturing(h, asked)
      BY <1>4, <1>8 DEF Stage, Called, Flushing
    <2>2. Within(audio[h])
      BY <2>1 DEF Capturing, Whole, Within
    <2>3. \A i \in DOMAIN lines'[h] : Partial(lines'[h][i])
      <3> SUFFICES ASSUME NEW i \in DOMAIN lines'[h] PROVE Partial(lines'[h][i])
        OBVIOUS
      <3>1. CASE i = Len(lines[h]) + 1
        BY <1>6, <2>2, <3>1 DEF Partial, Text
      <3>2. CASE i \in 1..Len(lines[h])
        BY <1>5, <1>6, <2>1, <3>2 DEF Capturing
      <3> QED BY <1>6, <3>1, <3>2
    <2>4. Capturing(h, asked)'
      BY <1>1, <1>2, <2>1, <2>3 DEF Capturing, Whole, Partial, Within
    <2> QED BY <2>4 DEF Stage
  <1>9. \A g \in Helpers \ {h} : lines'[g] = lines[g]
    BY <1>1, <1>3 DEF VoiceTyped
  <1>10. /\ Stoppers' /\ Resting' /\ Opening' /\ Dictating'
         /\ \A g \in Helpers \ {child'} : Silent(g)' /\ helper'[g] \in {"none", "killed", "gone", "waited"}
    BY <1>2, <1>4, <1>8, <1>9, StepAtWork
  <1>11. OtherHelpers'
    BY <1>2, <1>3, <1>10 DEF OtherHelpers, Within
  <1>12. Writing'
    BY <1>2, <1>3 DEF Writing, Within
  <1> QED BY <1>7, <1>10, <1>11, <1>12 DEF Orderly

LEMMA TellSound == ASSUME Orderly, NEW h \in Helpers, Tell(h) PROVE Orderly'
  <1>1. /\ telling[h] # <<>> /\ telling' = [telling EXCEPT ![h] = <<>>]
        /\ draft' = IF draft.active THEN [draft EXCEPT !.text = telling[h][1]] ELSE draft
        /\ UNCHANGED <<controller, helpers, listener, stopping, written, spoken, heard, excused>>
    BY DEF Tell
  <1>2. UNCHANGED <<child, spawned, listening, committed, partial, teardown, pauseWait, released, helper, commands, audio, lines,
                    listener, stopping, written, spoken, heard>>
    BY <1>1 DEF controller, helpers
  <1>3. VoiceTyped /\ OtherHelpers /\ Writing
    BY DEF Orderly
  <1>4. AtWork(h) /\ draft.active
    <2>1. AtWork(h)
      BY <1>1 DEF AtWork
    <2> QED BY <2>1, WorkFacts
  <1>5. telling[h] = <<telling[h][1]>> /\ Within(telling[h][1]) /\ telling[h][1] \in Seq(Nat)
    BY <1>1, <1>3 DEF OtherHelpers, Within, Spoken
  <1>6. telling'[h] = <<>> /\ telling' \in [Helpers -> Seq(Seq(Nat))] /\ \A g \in Helpers \ {h} : telling'[g] = telling[g]
    BY <1>1, <1>3 DEF VoiceTyped
  <1>7. /\ draft' \in [active : BOOLEAN, stopping : BOOLEAN, text : Seq(Nat)] /\ draft'.text = telling[h][1]
        /\ draft'.active = draft.active /\ draft'.stopping = draft.stopping
    BY <1>1, <1>3, <1>4, <1>5 DEF VoiceTyped
  <1>8. VoiceTyped'
    BY <1>2, <1>3, <1>6, <1>7 DEF VoiceTyped
  <1>9. ASSUME NEW asked \in {<<>>, <<"pause">>}, Stage(h, asked) PROVE Stage(h, asked)'
    <2>1. ~Called(h, asked)
      BY <1>1 DEF Called
    <2>2. CASE Capturing(h, asked)
      <3>1. Capturing(h, asked)'
        BY <1>2, <2>2 DEF Capturing, Whole, Partial, Within
      <3> QED BY <3>1 DEF Stage
    <2>3. CASE asked # <<>> /\ Flushing(h)
      <3>1. Delivered(h) => Delivered(h)'
        BY <1>1, <1>2, <1>6, <1>7 DEF Delivered
      <3>2. Flushing(h)'
        BY <1>2, <2>3, <3>1 DEF Flushing, Whole, Partial, Within
      <3> QED BY <2>3, <3>2 DEF Stage
    <2> QED BY <1>9, <2>1, <2>2, <2>3 DEF Stage
  <1>10. /\ Stoppers' /\ Resting' /\ Opening' /\ Dictating'
         /\ \A g \in Helpers \ {child'} : Silent(g)' /\ helper'[g] \in {"none", "killed", "gone", "waited"}
    BY <1>2, <1>4, <1>6, <1>7, <1>9, StepAtWork
  <1>11. OtherHelpers'
    BY <1>2, <1>3, <1>6, <1>10 DEF OtherHelpers, Within
  <1>12. Writing'
    BY <1>2, <1>3, <1>4, <1>5, <1>7 DEF Writing, Within
  <1> QED BY <1>8, <1>10, <1>11, <1>12 DEF Orderly

LEMMA ObeySound == ASSUME Orderly, NEW h \in Helpers, Obey(h), ~excused' PROVE Orderly'
  <1>1. /\ helper[h] \in {"idle", "capturing"} /\ commands[h] # <<>> /\ commands' = [commands EXCEPT ![h] = Tail(commands[h])]
        /\ UNCHANGED <<controller, telling, listener, stopping, view, spoken, heard>>
    BY DEF Obey
  <1>2. UNCHANGED <<child, spawned, listening, committed, partial, teardown, pauseWait, released, telling, listener, stopping,
                    draft, written, spoken, heard>>
    BY <1>1 DEF controller, view
  <1>3. VoiceTyped /\ OtherHelpers /\ Writing
    BY DEF Orderly
  <1>4. AtWork(h)
    BY <1>1 DEF AtWork
  <1>5. /\ commands[h] \in Seq({"listen", "pause"}) /\ commands'[h] = Tail(commands[h]) /\ commands' \in [Helpers -> Seq({"listen", "pause"})]
        /\ \A g \in Helpers \ {h} : commands'[g] = commands[g]
    BY <1>1, <1>3 DEF VoiceTyped
  <1>6. \E asked \in {<<>>, <<"pause">>} : Stage(h, asked)
    BY <1>4, WorkFacts
  <1>7. \A asked \in {<<>>, <<"pause">>} : /\ Head(<<"listen">> \o asked) = "listen" /\ Tail(<<"listen">> \o asked) = asked
                                          /\ asked # <<>> => Head(asked) = "pause" /\ Tail(asked) = <<>>
    OBVIOUS
  <1>8. /\ lines' \in [Helpers -> Seq(HelperLines)] /\ audio' \in [Helpers -> Seq(Nat)] /\ helper' \in [Helpers -> HelperStates]
        /\ \A g \in Helpers \ {h} : lines'[g] = lines[g] /\ helper'[g] = helper[g]
        /\ \A asked \in {<<>>, <<"pause">>} : Stage(h, asked) => Stage(h, asked)'
    <2>1. CASE /\ Head(commands[h]) = "listen" /\ helper' = [helper EXCEPT ![h] = "capturing"]
               /\ audio' = (IF helper[h] = "idle" THEN [audio EXCEPT ![h] = <<>>] ELSE audio) /\ UNCHANGED lines
      <3>1. /\ helper' \in [Helpers -> HelperStates] /\ helper'[h] = "capturing" /\ \A g \in Helpers \ {h} : helper'[g] = helper[g]
        BY <1>3, <2>1 DEF VoiceTyped, HelperStates
      <3>2. audio' \in [Helpers -> Seq(Nat)] /\ (helper[h] = "idle" => audio'[h] = <<>>)
        BY <1>3, <2>1 DEF VoiceTyped
      <3>3. ASSUME NEW asked \in {<<>>, <<"pause">>}, Stage(h, asked) PROVE Stage(h, asked)'
        <4>1. Called(h, asked)
          BY <1>1, <1>7, <2>1, <3>3 DEF Stage, Capturing, Flushing
        <4>2. /\ commands'[h] = asked /\ helper'[h] = "capturing" /\ committed' = <<>> /\ lines'[h] = <<>> /\ audio'[h] = <<>> /\ heard' = {}
          BY <1>1, <1>2, <1>5, <1>7, <2>1, <3>1, <3>2, <4>1 DEF Called
        <4>3. Spoken(audio'[h]) /\ ToSet(audio'[h]) = {}
          BY <4>2, NothingSpoken
        <4>4. Capturing(h, asked)'
          BY <4>2, <4>3 DEF Capturing, Whole
        <4> QED BY <4>4 DEF Stage
      <3> QED BY <1>3, <2>1, <3>1, <3>2, <3>3 DEF VoiceTyped
    <2>2. CASE /\ Head(commands[h]) = "pause" /\ helper[h] = "capturing" /\ helper' = [helper EXCEPT ![h] = "idle"] /\ UNCHANGED audio
               /\ \E decoded \in {audio[h] # <<>>, FALSE} :
                    /\ lines' = [lines EXCEPT ![h] = lines[h] \o (IF decoded THEN <<Text("final", audio[h])>> ELSE <<>>) \o <<Plain("paused")>>]
                    /\ excused' = (excused \/ (~decoded /\ audio[h] # <<>>))
      <3> DEFINE told == IF audio[h] # <<>> THEN <<Text("final", audio[h])>> ELSE <<>>
                 more == told \o <<Plain("paused")>>
                 n == Len(lines[h])
      <3>1. /\ helper' \in [Helpers -> HelperStates] /\ helper'[h] = "idle" /\ \A g \in Helpers \ {h} : helper'[g] = helper[g]
        BY <1>3, <2>2 DEF VoiceTyped, HelperStates
      <3>2. lines' = [lines EXCEPT ![h] = lines[h] \o told \o <<Plain("paused")>>]
        <4>1. PICK decoded \in {audio[h] # <<>>, FALSE} :
                    /\ lines' = [lines EXCEPT ![h] = lines[h] \o (IF decoded THEN <<Text("final", audio[h])>> ELSE <<>>) \o <<Plain("paused")>>]
                    /\ excused' = (excused \/ (~decoded /\ audio[h] # <<>>))
          BY <2>2
        <4>2. decoded <=> audio[h] # <<>>
          BY <4>1, Zenon
        <4> QED BY <4>1, <4>2
      <3>3. /\ audio[h] \in Seq(Nat) /\ Text("final", audio[h]) \in HelperLines /\ Plain("paused") \in HelperLines /\ lines[h] \in Seq(HelperLines)
            /\ Text("final", audio[h]).kind = "final" /\ Text("final", audio[h]).words = audio[h] /\ Plain("paused").kind = "paused"
            /\ n \in Nat /\ DOMAIN lines[h] = 1..n
        BY <1>3 DEF VoiceTyped, Text, Plain, HelperLines
      <3>4. told \in Seq(HelperLines) /\ more \in Seq(HelperLines) /\ lines[h] \o told \o <<Plain("paused")>> \in Seq(HelperLines)
        BY <3>3
      <3>5. lines' \in [Helpers -> Seq(HelperLines)] /\ lines'[h] = lines[h] \o told \o <<Plain("paused")>> /\ \A g \in Helpers \ {h} : lines'[g] = lines[g]
        BY <1>3, <3>2, <3>4 DEF VoiceTyped
      <3>6. ASSUME NEW asked \in {<<>>, <<"pause">>}, Stage(h, asked) PROVE Stage(h, asked)'
        <4>1. Capturing(h, asked)
          BY <2>2, <3>6 DEF Stage, Called, Flushing
        <4>2. asked # <<>> /\ commands'[h] = <<>>
          BY <1>1, <1>5, <1>7, <4>1 DEF Capturing
        <4>3. Within(draft.text) /\ Whole(audio[h]) /\ Whole(audio[h])'
          BY <1>2, <1>3, <1>4, <2>2, <4>1, WorkFacts DEF Writing, Capturing, Whole
        <4>4. CASE audio[h] = <<>>
          <5>1. lines[h] = <<>>
            BY <4>1, <4>4 DEF Capturing
          <5>2. lines'[h] = <<Plain("paused")>>
            BY <3>3, <3>5, <4>4, <5>1
          <5>3. draft.text = audio[h]
            BY <4>3, <4>4, NothingHeard
          <5>4. telling[h] # <<>> => telling[h] = <<audio[h]>>
            <6>1. telling[h] # <<>> => telling[h] = <<telling[h][1]>> /\ Within(telling[h][1])
              BY <1>3 DEF OtherHelpers
            <6>2. telling[h] # <<>> => telling[h][1] = audio[h]
              BY <4>3, <4>4, <6>1, NothingHeard
            <6> QED BY <6>1, <6>2
          <5>5. Delivered(h)'
            BY <1>2, <2>2, <5>3, <5>4 DEF Delivered
          <5>6. Len(lines'[h]) = 1 /\ lines'[h][1].kind = "paused"
            BY <3>3, <5>2
          <5>7. Flushing(h)'
            BY <2>2, <3>1, <4>2, <4>3, <5>5, <5>6 DEF Flushing
          <5> QED BY <4>2, <5>7 DEF Stage
        <4>5. CASE audio[h] # <<>>
          <5>1. lines'[h] = lines[h] \o <<Text("final", audio[h])>> \o <<Plain("paused")>>
            BY <3>5, <4>5
          <5>2. /\ Len(lines'[h]) = n + 2 /\ lines'[h][n + 2] = Plain("paused") /\ lines'[h][n + 1] = Text("final", audio[h])
                /\ \A i \in 1..n : lines'[h][i] = lines[h][i]
            BY <3>3, <5>1
          <5>3. \A i \in 1..n : lines'[h][i].kind = "partial" /\ Spoken(lines'[h][i].words) /\ ToSet(lines'[h][i].words) \subseteq heard'
            <6>1. \A i \in 1..n : Partial(lines[h][i]) /\ lines'[h][i] = lines[h][i]
              BY <3>3, <4>1, <5>2 DEF Capturing
            <6> QED BY <1>2, <6>1 DEF Partial, Within
          <5>4. committed' = <<>> /\ audio' = audio
            BY <1>2, <2>2, <4>1 DEF Capturing
          <5>5. n + 2 > 0 /\ n + 2 > 1 /\ (n + 2) - 1 = n + 1 /\ (n + 2) - 2 = n
            BY <3>3
          <5> HIDE DEF n
          <5>6. Flushing(h)'
            BY <2>2, <3>1, <3>3, <4>2, <4>3, <5>2, <5>3, <5>4, <5>5 DEF Flushing, Partial, Within
          <5> QED BY <4>2, <5>6 DEF Stage
        <4> QED BY <4>4, <4>5
      <3> QED BY <1>3, <2>2, <3>1, <3>5, <3>6 DEF VoiceTyped
    <2>3. CASE Head(commands[h]) = "pause" /\ helper[h] = "idle"
      <3>1. PICK asked \in {<<>>, <<"pause">>} : Stage(h, asked)
        BY <1>6
      <3>2. FALSE
        BY <1>1, <1>7, <2>3, <3>1 DEF Stage, Called, Capturing, Flushing
      <3> QED BY <3>2
    <2> QED BY <2>1, <2>2, <2>3 DEF Obey
  <1>9. VoiceTyped'
    BY <1>2, <1>3, <1>5, <1>8 DEF VoiceTyped
  <1>10. /\ Stoppers' /\ Resting' /\ Opening' /\ Dictating'
         /\ \A g \in Helpers \ {child'} : Silent(g)' /\ helper'[g] \in {"none", "killed", "gone", "waited"}
    BY <1>2, <1>4, <1>5, <1>8, StepAtWork
  <1>11. OtherHelpers'
    BY <1>2, <1>3, <1>10 DEF OtherHelpers, Within
  <1>12. Writing'
    BY <1>2, <1>3 DEF Writing, Within
  <1> QED BY <1>9, <1>10, <1>11, <1>12 DEF Orderly

\* The lines of a helper that was not told to stop, or was.
LEMMA LineFacts ==
  ASSUME Orderly, NEW h \in Helpers, lines[h] # <<>>, NEW asked \in {<<>>, <<"pause">>}, Stage(h, asked)
  PROVE  LET n == Len(lines[h]) IN
         /\ n \in Nat \ {0} /\ DOMAIN lines[h] = 1..n /\ Head(lines[h]) = lines[h][1]
         /\ \/ Capturing(h, asked) /\ Partial(lines[h][1])
            \/ asked # <<>> /\ Flushing(h) /\ n > 2 /\ Partial(lines[h][1])
            \/ asked # <<>> /\ Flushing(h) /\ n = 2 /\ lines[h][1].kind = "final" /\ lines[h][1].words = audio[h] /\ committed = <<>>
            \/ asked # <<>> /\ Flushing(h) /\ n = 1 /\ lines[h][1].kind = "paused" /\ Delivered(h)
  <1> DEFINE n == Len(lines[h])
  <1>1. lines[h] \in Seq(HelperLines)
    BY DEF Orderly, VoiceTyped
  <1>2. n \in Nat \ {0} /\ DOMAIN lines[h] = 1..n /\ Head(lines[h]) = lines[h][1] /\ 1 \in DOMAIN lines[h]
    BY <1>1
  <1> HIDE DEF n
  <1>3. CASE Capturing(h, asked)
    BY <1>2, <1>3 DEF Capturing, n
  <1>4. CASE asked # <<>> /\ Flushing(h)
    <2>1. CASE n = 1
      <3>1. lines[h][1].kind = "paused" /\ Delivered(h)
        BY <1>4, <2>1 DEF Flushing, n
      <3> QED BY <1>2, <1>4, <2>1, <3>1 DEF n
    <2>2. CASE n = 2
      <3>1. lines[h][1].kind = "final" /\ lines[h][1].words = audio[h] /\ committed = <<>>
        BY <1>4, <2>2 DEF Flushing, n
      <3> QED BY <1>2, <1>4, <2>2, <3>1 DEF n
    <2>3. CASE n > 2
      <3>1. 1 \in 1..(n - 2) /\ n # 1
        BY <1>2, <2>3
      <3>2. Partial(lines[h][1])
        BY <1>4, <3>1 DEF Flushing, n
      <3> QED BY <1>2, <1>4, <2>3, <3>2 DEF n
    <2> QED BY <1>2, <2>1, <2>2, <2>3
  <1>5. CASE Called(h, asked)
    BY <1>5 DEF Called
  <1> QED BY <1>3, <1>4, <1>5 DEF Stage

\* What the reader does with a line.
LEMMA HandleSound == ASSUME Orderly, NEW h \in Helpers, HandleLine(h), ~excused' PROVE Orderly'
  <1> DEFINE line == lines[h][1]
             n == Len(lines[h])
  <1>1. /\ lines[h] # <<>> /\ telling[h] = <<>> /\ lines' = [lines EXCEPT ![h] = Tail(lines[h])]
        /\ UNCHANGED <<spawned, commands, audio, listener, stopping, spoken, heard>>
    BY DEF HandleLine
  <1>2. VoiceTyped /\ OtherHelpers /\ Writing /\ Stoppers
    BY DEF Orderly
  <1>3. AtWork(h) /\ h = child /\ draft.active /\ listener = 0 /\ listening
    <2>1. AtWork(h)
      BY <1>1 DEF AtWork
    <2> QED BY <2>1, WorkFacts
  <1>4. /\ lines[h] \in Seq(HelperLines) /\ n \in Nat \ {0} /\ Head(lines[h]) = line /\ line \in HelperLines /\ DOMAIN lines[h] = 1..n
        /\ Tail(lines[h]) \in Seq(HelperLines) /\ Len(Tail(lines[h])) = n - 1 /\ DOMAIN Tail(lines[h]) = 1..(n - 1)
        /\ \A i \in 1..(n - 1) : Tail(lines[h])[i] = lines[h][i + 1] /\ i + 1 \in DOMAIN lines[h]
    <2>1. lines[h] \in Seq(HelperLines)
      BY <1>2 DEF VoiceTyped
    <2> QED BY <1>1, <2>1, RestFacts
  <1>5. lines' \in [Helpers -> Seq(HelperLines)] /\ lines'[h] = Tail(lines[h]) /\ \A g \in Helpers \ {h} : lines'[g] = lines[g]
    BY <1>1, <1>2, <1>4 DEF VoiceTyped
  <1>6. PICK asked0 \in {<<>>, <<"pause">>} : Stage(h, asked0)
    BY <1>3, WorkFacts
  <1>7. \/ Capturing(h, asked0) /\ Partial(line)
        \/ asked0 # <<>> /\ Flushing(h) /\ n > 2 /\ Partial(line)
        \/ asked0 # <<>> /\ Flushing(h) /\ n = 2 /\ line.kind = "final" /\ line.words = audio[h] /\ committed = <<>>
        \/ asked0 # <<>> /\ Flushing(h) /\ n = 1 /\ line.kind = "paused" /\ Delivered(h)
    BY <1>1, <1>6, LineFacts
  <1> HIDE DEF line, n
  <1>8. CASE line.kind \in {"partial", "final"}
    <2>1. /\ UNCHANGED <<pauseWait, released, listening, child, teardown, helper, draft, written>>
          /\ \/ /\ line.kind = "partial" /\ UNCHANGED committed /\ telling' = [telling EXCEPT ![h] = <<committed \o line.words>>]
             \/ line.kind = "final" /\ committed' = committed \o line.words /\ telling' = [telling EXCEPT ![h] = <<committed'>>]
      BY <1>3, <1>4, <1>8 DEF HandleLine, view
    <2>2. committed = <<>> /\ line.words \in Seq(Nat) /\ <<>> \o line.words = line.words
      <3>1. committed = <<>>
        BY <1>7, <1>8 DEF Capturing, Flushing, n
      <3>2. line.words \in Seq(Nat)
        BY <1>4 DEF HelperLines
      <3> QED BY <3>1, <3>2
    <2>3. telling' = [telling EXCEPT ![h] = <<line.words>>] /\ Within(line.words) /\ (line.kind = "final" => committed' = line.words)
      <3>1. Within(line.words)
        BY <1>7, <1>8 DEF Partial, Flushing, Whole, Within
      <3> QED BY <2>1, <2>2, <3>1
    <2>4. committed' \in Seq(Nat) /\ <<line.words>> \in Seq(Seq(Nat))
      <3>1. committed' = <<>> \/ committed' = line.words
        BY <2>1, <2>2
      <3>2. <<>> \in Seq(Nat) /\ line.words \in Seq(Nat) /\ <<line.words>> \in Seq(Seq(Nat))
        BY <2>2
      <3> QED BY <3>1, <3>2
    <2>5. /\ telling' \in [Helpers -> Seq(Seq(Nat))] /\ telling'[h] = <<line.words>> /\ \A g \in Helpers \ {h} : telling'[g] = telling[g]
      BY <1>2, <2>3, <2>4 DEF VoiceTyped
    <2>6. VoiceTyped'
      BY <1>1, <1>2, <1>5, <2>1, <2>4, <2>5 DEF VoiceTyped
    <2>7. ASSUME NEW asked \in {<<>>, <<"pause">>}, Stage(h, asked) PROVE Stage(h, asked)'
      <3>1. \/ Capturing(h, asked) /\ Partial(line)
            \/ asked # <<>> /\ Flushing(h) /\ n > 2 /\ Partial(line)
            \/ asked # <<>> /\ Flushing(h) /\ n = 2 /\ line.kind = "final" /\ line.words = audio[h]
        <4>1. \/ Capturing(h, asked) /\ Partial(line)
              \/ asked # <<>> /\ Flushing(h) /\ n > 2 /\ Partial(line)
              \/ asked # <<>> /\ Flushing(h) /\ n = 2 /\ line.kind = "final" /\ line.words = audio[h] /\ committed = <<>>
              \/ asked # <<>> /\ Flushing(h) /\ n = 1 /\ line.kind = "paused" /\ Delivered(h)
          BY <1>1, <2>7, LineFacts DEF line, n
        <4> QED BY <1>8, <4>1
      <3>2. CASE Capturing(h, asked) /\ Partial(line)
        <4>1. committed' = <<>>
          BY <2>1, <2>2, <3>2 DEF Partial
        <4>2. \A i \in DOMAIN lines'[h] : lines'[h][i].kind = "partial" /\ Spoken(lines'[h][i].words) /\ ToSet(lines'[h][i].words) \subseteq heard'
          BY <1>1, <1>4, <1>5, <3>2 DEF Capturing, Partial, Within
        <4>3. audio'[h] # <<>>
          BY <1>1, <3>2 DEF Capturing
        <4>4. Capturing(h, asked)'
          BY <1>1, <2>1, <3>2, <4>1, <4>2, <4>3 DEF Capturing, Whole, Partial, Within
        <4> QED BY <4>4 DEF Stage
      <3>3. CASE asked # <<>> /\ Flushing(h) /\ n > 2 /\ Partial(line)
        <4>1. committed' = <<>>
          BY <2>1, <2>2, <3>3 DEF Partial
        <4>2. /\ n - 1 > 0 /\ n - 1 > 1 /\ n - 1 \in 1..(n - 1) /\ n - 2 \in 1..(n - 1) /\ (n - 1) + 1 = n /\ (n - 2) + 1 = n - 1
              /\ (n - 1) - 1 = n - 2 /\ \A i \in 1..((n - 1) - 2) : i + 1 \in 1..(n - 2) /\ i \in 1..(n - 1)
          BY <1>4, <3>3
        <4>3. Len(lines'[h]) = n - 1 /\ lines'[h][n - 1] = lines[h][n] /\ lines'[h][n - 2] = lines[h][n - 1]
          BY <1>4, <1>5, <4>2
        <4>4. \A i \in 1..((n - 1) - 2) : lines'[h][i] = lines[h][i + 1]
          BY <1>4, <1>5, <4>2
        <4>5. /\ lines[h][n].kind = "paused" /\ lines[h][n - 1].kind = "final" /\ lines[h][n - 1].words = audio[h]
              /\ \A i \in 1..(n - 2) : Partial(lines[h][i])
          BY <1>4, <3>3 DEF Flushing, n
        <4>6. \A i \in 1..((n - 1) - 2) : lines'[h][i].kind = "partial" /\ Spoken(lines'[h][i].words) /\ ToSet(lines'[h][i].words) \subseteq heard'
          BY <1>1, <4>2, <4>4, <4>5 DEF Partial, Within
        <4>7. helper'[h] = "idle" /\ commands'[h] = <<>> /\ Whole(audio[h])' /\ audio' = audio
          BY <1>1, <2>1, <3>3 DEF Flushing, Whole
        <4>8. Flushing(h)'
          BY <4>1, <4>2, <4>3, <4>5, <4>6, <4>7 DEF Flushing, Partial, Within
        <4> QED BY <3>3, <4>8 DEF Stage
      <3>4. CASE asked # <<>> /\ Flushing(h) /\ n = 2 /\ line.kind = "final" /\ line.words = audio[h]
        <4>1. Len(lines'[h]) = 1 /\ lines'[h][1] = lines[h][2]
          BY <1>4, <1>5, <3>4
        <4>2. lines[h][2].kind = "paused"
          BY <3>4 DEF Flushing, n
        <4>3. Delivered(h)'
          BY <1>1, <2>5, <3>4 DEF Delivered
        <4>4. helper'[h] = "idle" /\ commands'[h] = <<>> /\ Whole(audio[h])'
          BY <1>1, <2>1, <3>4 DEF Flushing, Whole
        <4>5. Flushing(h)'
          BY <4>1, <4>2, <4>3, <4>4 DEF Flushing
        <4> QED BY <3>4, <4>5 DEF Stage
      <3> QED BY <3>1, <3>2, <3>3, <3>4
    <2>8. /\ Stoppers' /\ Resting' /\ Opening' /\ Dictating'
          /\ \A g \in Helpers \ {child'} : Silent(g)' /\ helper'[g] \in {"none", "killed", "gone", "waited"}
      BY <1>1, <1>3, <1>5, <2>1, <2>5, <2>7, StepAtWork
    <2>9. OtherHelpers'
      BY <1>1, <1>2, <2>3, <2>5, <2>8 DEF OtherHelpers, Within
    <2>10. Writing'
      BY <1>1, <1>2, <2>1 DEF Writing, Within
    <2> QED BY <2>6, <2>8, <2>9, <2>10 DEF Orderly
  <1>9. CASE line.kind = "paused"
    <2>1. /\ UNCHANGED <<committed, telling, listening, child, teardown, helper, draft, written>>
          /\ pauseWait' = 0 /\ released' = released \cup ({pauseWait} \ {0})
      BY <1>4, <1>9 DEF HandleLine, view
    <2>2. asked0 # <<>> /\ Flushing(h) /\ n = 1 /\ Delivered(h)
      BY <1>7, <1>9 DEF Partial
    <2>3. PICK s \in Stops : Asked(s) /\ s \notin released /\ stopping[s] = "waiting" /\ pauseWait = s
      <3>1. helper[h] = "idle" /\ commands[h] = <<>>
        BY <2>2 DEF Flushing
      <3>2. ~Stage(h, <<>>)
        BY <1>1, <3>1 DEF Stage, Called, Capturing
      <3> QED BY <1>3, <3>2, WorkFacts
    <2>4. s # 0 /\ released' = released \cup {s}
      BY <2>1, <2>3, VoiceAssumption DEF Stops
    <2>5. lines'[h] = <<>>
      BY <1>4, <1>5, <2>2
    <2>6. draft'.text = audio[h] /\ helper'[h] = "idle" /\ Silent(h)' /\ Whole(draft.text)'
      BY <1>1, <2>1, <2>2, <2>5 DEF Delivered, Flushing, Silent, Whole
    <2>7. Through(child)'
      BY <1>3, <2>1, <2>6 DEF Through
    <2>8. \A t \in Stops : (Stopping(t)' <=> Stopping(t)) /\ (Asked(t)' <=> Asked(t)) /\ (Asked(t) => t = s)
      <3>1. \A t \in Stops : Asked(t) => t = s
        BY <1>2, <2>3 DEF Stoppers, Asked, Stopping
      <3> QED BY <1>1, <3>1 DEF Stopping, Asked
    <2>9. Stoppers'
      <3>1. \A t \in released' : stopping'[t] \notin {"none", "begun"}
        BY <1>1, <1>2, <2>3, <2>4 DEF Stoppers
      <3> QED BY <1>1, <1>2, <2>1, <2>8, <3>1 DEF Stoppers
    <2>10. Resting' /\ Opening'
      BY <1>1, <1>3, <2>1 DEF Resting, Opening
    <2>11. Dictating'
      <3>1. child' # 0
        <4>1. 0 \notin Helpers
          BY VoiceAssumption DEF Helpers
        <4> QED BY <1>3, <2>1, <4>1
      <3>2. Asked(s)' /\ listening' /\ stopping'[s] = "waiting" /\ s \in released' /\ pauseWait' = 0 /\ \A t \in Stops : Asked(t)' => t = s
        BY <1>1, <1>3, <2>1, <2>3, <2>4, <2>8
      <3> QED BY <2>7, <3>1, <3>2 DEF Dictating
    <2>12. VoiceTyped'
      BY <1>1, <1>2, <1>5, <2>1, <2>4 DEF VoiceTyped
    <2>13. OtherHelpers'
      BY <1>1, <1>2, <1>3, <1>5, <2>1 DEF OtherHelpers, Within, Silent
    <2>14. Writing'
      BY <1>1, <1>2, <2>1 DEF Writing, Within
    <2> QED BY <2>9, <2>10, <2>11, <2>12, <2>13, <2>14 DEF Orderly
  <1> QED BY <1>7, <1>8, <1>9 DEF Partial

\* A helper that loads, or that was killed and ends.
LEMMA LoadSound == ASSUME Orderly, NEW h \in Helpers, Load(h) PROVE Orderly'
  <1>1. /\ helper[h] = "loading" /\ helper' = [helper EXCEPT ![h] = "idle"]
        /\ UNCHANGED <<controller, commands, audio, lines, telling, listener, stopping, view, spoken, heard>>
    BY DEF Load
  <1>2. UNCHANGED <<child, spawned, listening, committed, partial, teardown, pauseWait, released, commands, audio, lines, telling,
                    listener, stopping, draft, written, spoken, heard>>
    BY <1>1 DEF controller, view
  <1>3. VoiceTyped /\ OtherHelpers /\ Writing /\ Stoppers /\ Resting /\ Opening /\ Dictating
    BY DEF Orderly
  <1>4. helper' \in [Helpers -> HelperStates] /\ helper'[h] = "idle" /\ \A g \in Helpers \ {h} : helper'[g] = helper[g]
    BY <1>1, <1>3 DEF VoiceTyped, HelperStates
  <1>5. h = child /\ child # 0 /\ draft.active
    <2>1. 0 \notin Helpers
      BY VoiceAssumption DEF Helpers
    <2>2. h = child
      BY <1>1, <1>3 DEF OtherHelpers
    <2> QED BY <1>1, <1>3, <2>1, <2>2 DEF Resting
  <1>6. VoiceTyped' /\ OtherHelpers' /\ Writing'
    <2>1. VoiceTyped'
      BY <1>2, <1>3, <1>4 DEF VoiceTyped
    <2>2. OtherHelpers'
      BY <1>2, <1>3, <1>4, <1>5 DEF OtherHelpers, Within, Silent
    <2>3. Writing'
      BY <1>2, <1>3 DEF Writing, Within
    <2> QED BY <2>1, <2>2, <2>3
  <1>7. \A s \in Stops : (Stopping(s)' <=> Stopping(s)) /\ (Asked(s)' <=> Asked(s))
    BY <1>2 DEF Stopping, Asked
  <1>8. Stoppers' /\ Resting'
    BY <1>2, <1>3, <1>5, <1>7 DEF Stoppers, Resting
  <1>9. Opening'
    BY <1>2, <1>3, <1>4, <1>5 DEF Opening, Silent
  <1>10. \A asked \in {<<>>, <<"pause">>} : Stage(h, asked) => Stage(h, asked)'
    <2> SUFFICES ASSUME NEW asked \in {<<>>, <<"pause">>}, Stage(h, asked) PROVE Stage(h, asked)'
      OBVIOUS
    <2>1. Called(h, asked)
      BY <1>1 DEF Stage, Capturing, Flushing
    <2>2. Called(h, asked)'
      BY <1>2, <1>4, <2>1 DEF Called
    <2> QED BY <2>2 DEF Stage
  <1>11. ~Through(h)
    BY <1>1 DEF Through
  <1>12. Dictating'
    <2> SUFFICES ASSUME listener = 0 PROVE Dictating'
      BY <1>2 DEF Dictating
    <2>1. CASE \A s \in Stops : ~Asked(s)
      <3>1. listening /\ pauseWait = 0 /\ Stage(h, <<>>)
        BY <1>3, <1>5, <2>1 DEF Dictating
      <3>2. listening' /\ pauseWait' = 0 /\ Stage(child, <<>>)' /\ child' # 0 /\ \A s \in Stops : ~Asked(s)'
        BY <1>2, <1>5, <1>7, <1>10, <2>1, <3>1
      <3> QED BY <3>2 DEF Dictating
    <2>2. ASSUME NEW s \in Stops, Asked(s) PROVE Dictating'
      <3>1. s \notin released /\ stopping[s] = "waiting" /\ pauseWait = s /\ Stage(h, <<"pause">>) /\ listening
        BY <1>3, <1>5, <1>11, <2>2 DEF Dictating
      <3>2. \A t \in Stops : Asked(t) => t = s
        BY <1>3, <2>2 DEF Stoppers, Asked, Stopping
      <3>3. /\ listening' /\ child' # 0 /\ Stage(child, <<"pause">>)' /\ pauseWait' = s /\ stopping'[s] = "waiting"
            /\ s \notin released' /\ Asked(s)' /\ \A t \in Stops : Asked(t)' => t = s
        BY <1>2, <1>5, <1>7, <1>10, <2>2, <3>1, <3>2
      <3> QED BY <3>3 DEF Dictating
    <2> QED BY <2>1, <2>2
  <1> QED BY <1>6, <1>8, <1>9, <1>12 DEF Orderly

\* A step that changes nothing of the phase, but perhaps a helper that is not the dictation's.
LEMMA ElsewhereSound ==
  ASSUME Orderly, UNCHANGED <<child, spawned, listening, committed, pauseWait, released, commands, audio, lines, telling, listener,
                              stopping, draft, written, spoken, heard>>,
         NEW h \in Helpers \ {child}, NEW state \in {"gone", "waited"}, helper' = [helper EXCEPT ![h] = state]
  PROVE  Orderly'
  <1>1. VoiceTyped /\ OtherHelpers /\ Writing /\ Stoppers /\ Resting /\ Opening /\ Dictating
    BY DEF Orderly
  <1>2. helper' \in [Helpers -> HelperStates] /\ helper'[h] = state /\ \A g \in Helpers \ {h} : helper'[g] = helper[g]
    BY <1>1 DEF VoiceTyped, HelperStates
  <1>3. child' = child /\ (child # 0 => child \in Helpers /\ helper'[child] = helper[child])
    BY <1>1, <1>2 DEF VoiceTyped
  <1>4. VoiceTyped' /\ OtherHelpers' /\ Writing'
    <2>1. VoiceTyped'
      BY <1>1, <1>2 DEF VoiceTyped
    <2>2. OtherHelpers'
      BY <1>1, <1>2, <1>3 DEF OtherHelpers, Within, Silent
    <2>3. Writing'
      BY <1>1 DEF Writing, Within
    <2> QED BY <2>1, <2>2, <2>3
  <1>5. \A s \in Stops : (Stopping(s)' <=> Stopping(s)) /\ (Asked(s)' <=> Asked(s))
    BY DEF Stopping, Asked
  <1>6. Stoppers'
    BY <1>1, <1>5 DEF Stoppers
  <1>7. Resting'
    BY <1>1, <1>3 DEF Resting, Silent
  <1>8. Opening'
    <2>1. listener # 0 => child # 0
      BY <1>1 DEF Opening
    <2> QED BY <1>1, <1>3, <2>1 DEF Opening, Silent
  <1>9. child # 0 => (\A asked : Stage(child, asked) => Stage(child, asked)') /\ (Through(child) => Through(child)')
    <2> SUFFICES ASSUME child # 0 PROVE (\A asked : Stage(child, asked) => Stage(child, asked)') /\ (Through(child) => Through(child)')
      OBVIOUS
    <2>1. Through(child) => Through(child)'
      BY <1>3 DEF Through, Silent, Whole
    <2>2. ASSUME NEW asked, Stage(child, asked) PROVE Stage(child, asked)'
      <3>1. Called(child, asked) => Called(child, asked)'
        BY <1>3 DEF Called
      <3>2. Capturing(child, asked) => Capturing(child, asked)'
        BY <1>3 DEF Capturing, Whole, Partial, Within
      <3>3. Flushing(child) => Flushing(child)'
        BY <1>3 DEF Flushing, Whole, Partial, Within, Delivered
      <3> QED BY <2>2, <3>1, <3>2, <3>3 DEF Stage
    <2> QED BY <2>1, <2>2
  <1>10. Dictating'
    <2>1. (\A s \in Stops : ~Asked(s)') <=> \A s \in Stops : ~Asked(s)
      BY <1>5
    <2> QED BY <1>1, <1>3, <1>5, <1>9, <2>1 DEF Dictating
  <1> QED BY <1>4, <1>6, <1>7, <1>8, <1>10 DEF Orderly

LEMMA StillSound == ASSUME Orderly, UNCHANGED voiceVars PROVE Orderly'
  <1>1. UNCHANGED <<child, spawned, listening, committed, pauseWait, released, helper, commands, audio, lines, telling, listener,
                    stopping, draft, written, spoken, heard>>
    BY DEF voiceVars
  <1>2. VoiceTyped /\ OtherHelpers /\ Writing /\ Stoppers /\ Resting /\ Opening /\ Dictating
    BY DEF Orderly
  <1>3. VoiceTyped' /\ OtherHelpers' /\ Writing'
    BY <1>1, <1>2 DEF VoiceTyped, OtherHelpers, Within, Silent, Writing
  <1>4. \A s \in Stops : (Stopping(s)' <=> Stopping(s)) /\ (Asked(s)' <=> Asked(s))
    BY <1>1 DEF Stopping, Asked
  <1>5. Stoppers' /\ Resting' /\ Opening'
    BY <1>1, <1>2, <1>4 DEF Stoppers, Resting, Opening, Silent
  <1>6. (\A asked : Stage(child, asked) => Stage(child, asked)') /\ (Through(child) => Through(child)')
    <2>1. Through(child) => Through(child)'
      BY <1>1 DEF Through, Silent, Whole
    <2>2. ASSUME NEW asked, Stage(child, asked) PROVE Stage(child, asked)'
      <3>1. Called(child, asked) => Called(child, asked)'
        BY <1>1 DEF Called
      <3>2. Capturing(child, asked) => Capturing(child, asked)'
        BY <1>1 DEF Capturing, Whole, Partial, Within
      <3>3. Flushing(child) => Flushing(child)'
        BY <1>1 DEF Flushing, Whole, Partial, Within, Delivered
      <3> QED BY <2>2, <3>1, <3>2, <3>3 DEF Stage
    <2> QED BY <2>1, <2>2
  <1>7. Dictating'
    <2>1. (\A s \in Stops : ~Asked(s)') <=> \A s \in Stops : ~Asked(s)
      BY <1>4
    <2> QED BY <1>1, <1>2, <1>4, <1>6, <2>1 DEF Dictating
  <1> QED BY <1>3, <1>5, <1>7 DEF Orderly

LEMMA KilledSound == ASSUME Orderly, NEW h \in Helpers, Killed(h) PROVE Orderly'
  <1>1. /\ helper[h] \in {"cut", "killed"} /\ helper' = [helper EXCEPT ![h] = "gone"]
        /\ UNCHANGED <<child, spawned, listening, committed, pauseWait, released, commands, audio, lines, telling, listener,
                       stopping, draft, written, spoken, heard>>
    BY DEF Killed, controller, view
  <1>2. CASE h = child
    <2>1. helper[h] # "cut"
      BY WorkFacts DEF AtWork
    <2>2. helper[h] = "killed" /\ child # 0
      <3>1. 0 \notin Helpers
        BY VoiceAssumption DEF Helpers
      <3> QED BY <1>1, <1>2, <2>1, <3>1
    <2> QED BY <1>2, <2>2, ChildAlive
  <1> QED BY <1>1, <1>2, ElsewhereSound

LEMMA EndsSound == ASSUME Orderly, NEW h \in Helpers, HelperEnds(h) PROVE Orderly'
  <1>1. helper[h] = "gone" /\ helper' = [helper EXCEPT ![h] = "waited"]
    BY DEF HelperEnds
  <1>2. h # child
    <2>1. 0 \notin Helpers
      BY VoiceAssumption DEF Helpers
    <2> QED BY <1>1, <2>1, ChildAlive
  <1>3. UNCHANGED <<child, spawned, listening, committed, pauseWait, released, commands, audio, lines, telling, listener,
                    stopping, draft, written, spoken, heard>>
    BY <1>2 DEF HelperEnds, view
  <1> QED BY <1>1, <1>2, <1>3, ElsewhereSound

-----------------------------------------------------------------------------
(* The interface's steps, and those of the goroutines that stop.            *)
LEMMA StartSound == ASSUME Orderly, StartVoice PROVE Orderly'
  <1>1. /\ ~draft.active /\ listener = 0 /\ draft' = [active |-> TRUE, stopping |-> FALSE, text |-> <<>>] /\ heard' = {}
        /\ \/ child # 0 /\ listener' = child /\ UNCHANGED <<child, spawned, helper>>
           \/ /\ child = 0 /\ spawned < MaxHelpers /\ spawned' = spawned + 1 /\ child' = spawned' /\ listener' = spawned'
              /\ helper' = [helper EXCEPT ![spawned'] = "loading"]
        /\ UNCHANGED <<listening, committed, pauseWait, released, commands, audio, lines, telling, stopping, written, spoken>>
    BY DEF StartVoice
  <1>2. VoiceTyped /\ OtherHelpers /\ Writing /\ Stoppers /\ Resting
    BY DEF Orderly
  <1>3. 0 \notin Helpers /\ (spawned < MaxHelpers => spawned + 1 \in Helpers /\ spawned + 1 \in 0..MaxHelpers)
    BY <1>2, VoiceAssumption DEF VoiceTyped, Helpers
  <1>4. /\ child' \in Helpers /\ listener' = child' /\ child' # 0 /\ spawned' \in 0..MaxHelpers /\ helper' \in [Helpers -> HelperStates]
        /\ Silent(child') /\ helper'[child'] \in {"loading", "idle"}
        /\ \A g \in Helpers \ {child'} : Silent(g) /\ helper'[g] \in {"none", "killed", "gone", "waited"}
    <2>1. CASE child # 0 /\ listener' = child /\ UNCHANGED <<child, spawned, helper>>
      BY <1>1, <1>2, <2>1 DEF VoiceTyped, Resting, OtherHelpers
    <2>2. CASE /\ child = 0 /\ spawned < MaxHelpers /\ spawned' = spawned + 1 /\ child' = spawned' /\ listener' = spawned'
               /\ helper' = [helper EXCEPT ![spawned'] = "loading"]
      <3>1. child' \in Helpers /\ listener' = child' /\ child' # 0 /\ spawned' \in 0..MaxHelpers
        BY <1>3, <2>2
      <3>2. /\ helper' \in [Helpers -> HelperStates] /\ helper'[child'] = "loading"
            /\ \A g \in Helpers \ {child'} : helper'[g] = helper[g]
        BY <1>2, <2>2, <3>1 DEF VoiceTyped, HelperStates
      <3>3. \A g \in Helpers : Silent(g) /\ helper[g] \in {"none", "killed", "gone", "waited"}
        BY <1>2, <1>3, <2>2 DEF OtherHelpers
      <3> QED BY <3>1, <3>2, <3>3
    <2> QED BY <1>1, <2>1, <2>2
  <1>5. Silent(child') => commands'[child'] = <<>> /\ lines'[child'] = <<>> /\ telling'[child'] = <<>>
    BY <1>1 DEF Silent
  <1>6. /\ \A g \in Helpers : Silent(g) => Silent(g)'
        /\ \A g \in Helpers : telling'[g] = <<>>
    <2>1. \A g \in Helpers : Silent(g)
      BY <1>4
    <2> QED BY <1>1, <2>1 DEF Silent
  <1>7. <<>> \in Seq(Nat) /\ draft'.active /\ ~draft'.stopping /\ draft'.text = <<>>
        /\ draft' \in [active : BOOLEAN, stopping : BOOLEAN, text : Seq(Nat)]
    BY <1>1
  <1>8. \A s \in Stops : ~Stopping(s)'
    BY <1>1, <1>2 DEF Stoppers, Stopping
  <1>9. VoiceTyped'
    BY <1>1, <1>2, <1>4, <1>7 DEF VoiceTyped
  <1>10. OtherHelpers'
    BY <1>4, <1>6 DEF OtherHelpers
  <1>11. Stoppers'
    BY <1>1, <1>2, <1>8 DEF Stoppers
  <1>12. Resting'
    BY <1>7 DEF Resting
  <1>13. Opening'
    <2>1. Silent(child)'
      BY <1>4, <1>5 DEF Silent
    <2> QED BY <1>1, <1>2, <1>4, <1>7, <2>1 DEF Opening, Resting
  <1>14. Dictating'
    BY <1>4 DEF Dictating
  <1>15. Writing'
    <2>1. Within(draft.text)'
      BY <1>7, NothingSpoken DEF Within
    <2> QED BY <1>1, <1>2, <2>1 DEF Writing
  <1> QED BY <1>9, <1>10, <1>11, <1>12, <1>13, <1>14, <1>15 DEF Orderly

LEMMA ListenSound == ASSUME Orderly, Listen, ~excused' PROVE Orderly'
  <1>1. listener # 0 /\ listener' = 0 /\ excused' = (excused \/ listening \/ child # listener)
    BY DEF Listen
  <1>2. VoiceTyped /\ OtherHelpers /\ Writing /\ Stoppers /\ Opening
    BY DEF Orderly
  <1>3. /\ draft.active /\ ~draft.stopping /\ child = listener /\ ~listening /\ pauseWait = 0
        /\ heard = {} /\ Silent(child) /\ helper[child] \in {"loading", "idle"}
    BY <1>1, <1>2 DEF Opening
  <1>4. /\ listening' /\ listening' = TRUE /\ committed' = <<>> /\ commands' = Send(listener, "listen")
        /\ UNCHANGED <<child, spawned, pauseWait, released, helper, audio, lines, telling, stopping, draft, written, spoken, heard>>
    BY <1>3 DEF Listen, view
  <1>5. child \in Helpers /\ child # 0
    <2>1. 0 \notin Helpers
      BY VoiceAssumption DEF Helpers
    <2> QED BY <1>1, <1>2, <1>3, <2>1 DEF VoiceTyped
  <1>6. commands' = [commands EXCEPT ![child] = Append(commands[child], "listen")] /\ commands[child] = <<>>
    BY <1>1, <1>3, <1>4 DEF Send, Silent
  <1>7. Append(<<>>, "listen") = <<"listen">> \o <<>> /\ Append(<<>>, "listen") \in Seq({"listen", "pause"})
    OBVIOUS
  <1>8. /\ commands' \in [Helpers -> Seq({"listen", "pause"})] /\ commands'[child] = <<"listen">> \o <<>>
        /\ \A g \in Helpers \ {child} : commands'[g] = commands[g]
    BY <1>2, <1>5, <1>6, <1>7 DEF VoiceTyped
  <1>9. VoiceTyped'
    <2>1. 0 \in Helpers \cup {0} /\ <<>> \in Seq(Nat) /\ listening' \in BOOLEAN
      BY <1>4
    <2> QED BY <1>1, <1>2, <1>4, <1>8, <2>1 DEF VoiceTyped
  <1>10. OtherHelpers'
    BY <1>2, <1>4, <1>8 DEF OtherHelpers, Silent, Within
  <1>11. \A s \in Stops : ~Stopping(s) /\ ~Stopping(s)' /\ ~Asked(s)'
    BY <1>1, <1>2, <1>4 DEF Stoppers, Stopping, Asked
  <1>12. Stoppers'
    BY <1>2, <1>4, <1>11 DEF Stoppers
  <1>13. Resting' /\ Opening'
    BY <1>1, <1>3, <1>4 DEF Resting, Opening
  <1>14. Called(child, <<>>)'
    BY <1>3, <1>4, <1>8 DEF Called, Silent
  <1>15. Dictating'
    <2>1. Stage(child, <<>>)'
      BY <1>14 DEF Stage
    <2> QED BY <1>3, <1>4, <1>5, <1>11, <2>1 DEF Dictating
  <1>16. Writing'
    BY <1>2, <1>4 DEF Writing, Within
  <1> QED BY <1>9, <1>10, <1>12, <1>13, <1>15, <1>16 DEF Orderly

LEMMA EscapeSound == ASSUME Orderly, NEW s \in Stops, Escape(s) PROVE Orderly'
  <1>1. /\ draft.active /\ ~draft.stopping /\ listener = 0 /\ stopping[s] = "none"
        /\ draft' = [draft EXCEPT !.stopping = TRUE] /\ stopping' = [stopping EXCEPT ![s] = "begun"]
        /\ UNCHANGED <<child, spawned, listening, committed, pauseWait, released, helper, commands, audio, lines, telling, listener,
                       written, spoken, heard>>
    BY DEF Escape, controller, helpers
  <1>2. VoiceTyped /\ OtherHelpers /\ Writing /\ Stoppers /\ Dictating
    BY DEF Orderly
  <1>3. stopping' \in [Stops -> StopStates] /\ stopping'[s] = "begun" /\ \A t \in Stops \ {s} : stopping'[t] = stopping[t]
    BY <1>1, <1>2 DEF VoiceTyped, StopStates
  <1>4. /\ draft' \in [active : BOOLEAN, stopping : BOOLEAN, text : Seq(Nat)] /\ draft'.text = draft.text /\ draft'.active /\ draft'.stopping
    BY <1>1, <1>2 DEF VoiceTyped
  <1>5. \A t \in Stops : ~Asked(t) /\ ~Asked(t)' /\ (Stopping(t)' => t = s)
    BY <1>1, <1>2, <1>3 DEF Stoppers, Stopping, Asked
  <1>6. VoiceTyped' /\ OtherHelpers' /\ Writing'
    <2>1. VoiceTyped'
      BY <1>1, <1>2, <1>3, <1>4 DEF VoiceTyped
    <2>2. OtherHelpers'
      BY <1>1, <1>2 DEF OtherHelpers, Within, Silent
    <2>3. Writing'
      BY <1>1, <1>2, <1>4 DEF Writing, Within
    <2> QED BY <2>1, <2>2, <2>3
  <1>7. Stoppers'
    <2>1. \A t \in released' : stopping'[t] \notin {"none", "begun"}
      BY <1>1, <1>2, <1>3 DEF Stoppers, VoiceTyped
    <2> QED BY <1>1, <1>4, <1>5, <2>1 DEF Stoppers
  <1>8. Resting' /\ Opening'
    BY <1>1, <1>4 DEF Resting, Opening
  <1>9. Dictating'
    <2>1. child # 0 /\ listening /\ pauseWait = 0 /\ Stage(child, <<>>)
      BY <1>1, <1>2, <1>5 DEF Dictating
    <2>2. Stage(child, <<>>)'
      BY <1>1, <2>1 DEF Stage, Called, Capturing, Whole, Partial, Within
    <2> QED BY <1>1, <1>5, <2>1, <2>2 DEF Dictating
  <1> QED BY <1>6, <1>7, <1>8, <1>9 DEF Orderly

LEMMA PauseSound == ASSUME Orderly, NEW s \in Stops, PauseAndWait(s) PROVE Orderly'
  <1>1. stopping[s] = "begun"
    BY DEF PauseAndWait
  <1>2. VoiceTyped /\ OtherHelpers /\ Writing /\ Stoppers /\ Dictating
    BY DEF Orderly
  <1>3. draft.active /\ draft.stopping /\ listener = 0 /\ \A t \in Stops : ~Asked(t) /\ (Stopping(t) => t = s)
    <2>1. Stopping(s)
      BY <1>1 DEF Stopping
    <2> QED BY <1>1, <1>2, <2>1 DEF Stoppers, Stopping, Asked
  <1>4. child # 0 /\ listening /\ pauseWait = 0 /\ Stage(child, <<>>) /\ child \in Helpers
    BY <1>2, <1>3 DEF Dictating, VoiceTyped
  <1>5. /\ stopping' = [stopping EXCEPT ![s] = "waiting"] /\ pauseWait' = s /\ commands' = Send(child, "pause")
        /\ UNCHANGED <<child, spawned, listening, committed, released, helper, audio, lines, telling, listener, draft, written, spoken, heard>>
    BY <1>4 DEF PauseAndWait, view
  <1>6. helper[child] \in {"loading", "idle", "capturing"} /\ (Called(child, <<>>) \/ Capturing(child, <<>>))
    BY <1>4, ChildAlive DEF Stage
  <1>7. commands' = [commands EXCEPT ![child] = Append(commands[child], "pause")]
    BY <1>4, <1>5, <1>6 DEF Send
  <1>8. /\ commands' \in [Helpers -> Seq({"listen", "pause"})] /\ commands'[child] = Append(commands[child], "pause")
        /\ \A g \in Helpers \ {child} : commands'[g] = commands[g]
    <2>1. Append(commands[child], "pause") \in Seq({"listen", "pause"})
      BY <1>2, <1>4 DEF VoiceTyped
    <2> QED BY <1>2, <1>4, <1>7, <2>1 DEF VoiceTyped
  <1>9. stopping' \in [Stops -> StopStates] /\ stopping'[s] = "waiting" /\ \A t \in Stops \ {s} : stopping'[t] = stopping[t]
    BY <1>2, <1>5 DEF VoiceTyped, StopStates
  <1>10. s \notin released
    BY <1>1, <1>2 DEF Stoppers
  <1>11. \A t \in Stops : (Stopping(t)' => t = s) /\ (Asked(t)' => t = s)
    BY <1>3, <1>9 DEF Stopping, Asked
  <1>12. VoiceTyped' /\ OtherHelpers' /\ Writing'
    <2>1. VoiceTyped'
      BY <1>2, <1>5, <1>8, <1>9 DEF VoiceTyped
    <2>2. OtherHelpers'
      BY <1>2, <1>5, <1>8 DEF OtherHelpers, Within, Silent
    <2>3. Writing'
      BY <1>2, <1>5 DEF Writing, Within
    <2> QED BY <2>1, <2>2, <2>3
  <1>13. Stoppers'
    <2>1. \A t \in released' : stopping'[t] \notin {"none", "begun"}
      BY <1>2, <1>5, <1>9 DEF Stoppers, VoiceTyped
    <2> QED BY <1>3, <1>5, <1>11, <2>1 DEF Stoppers
  <1>14. Resting' /\ Opening'
    BY <1>3, <1>5 DEF Resting, Opening
  <1>15. Stage(child, <<"pause">>)'
    <2>1. CASE Called(child, <<>>)
      <3>1. Append(<<"listen">> \o <<>>, "pause") = <<"listen">> \o <<"pause">>
        OBVIOUS
      <3>2. Called(child, <<"pause">>)'
        BY <1>5, <1>8, <2>1, <3>1 DEF Called
      <3> QED BY <3>2 DEF Stage
    <2>2. CASE Capturing(child, <<>>)
      <3>1. Append(<<>>, "pause") = <<"pause">>
        OBVIOUS
      <3>2. Capturing(child, <<"pause">>)'
        BY <1>5, <1>8, <2>2, <3>1 DEF Capturing, Whole, Partial, Within
      <3> QED BY <3>2 DEF Stage
    <2> QED BY <1>6, <2>1, <2>2
  <1>16. Dictating'
    <2>1. Asked(s)' /\ child' # 0 /\ listening' /\ s \notin released' /\ pauseWait' = s /\ stopping'[s] = "waiting"
      BY <1>4, <1>5, <1>9, <1>10 DEF Asked
    <2> QED BY <1>11, <1>15, <2>1 DEF Dictating
  <1> QED BY <1>12, <1>13, <1>14, <1>16 DEF Orderly

LEMMA WaitedSound == ASSUME Orderly, NEW s \in Stops, Waited(s), ~excused' PROVE Orderly'
  <1>1. /\ stopping[s] = "waiting" /\ excused' = (excused \/ s \notin released) /\ stopping' = [stopping EXCEPT ![s] = "paused"]
        /\ pauseWait' = (IF pauseWait = s THEN 0 ELSE pauseWait) /\ listening' = FALSE
        /\ UNCHANGED <<child, spawned, committed, released, helper, commands, audio, lines, telling, listener, draft, written, spoken, heard>>
    BY DEF Waited, helpers, view
  <1>2. s \in released
    BY <1>1, Zenon
  <1>3. VoiceTyped /\ OtherHelpers /\ Writing /\ Stoppers /\ Dictating
    BY DEF Orderly
  <1>4. draft.active /\ draft.stopping /\ listener = 0 /\ \A t \in Stops : Stopping(t) => t = s
    <2>1. Stopping(s)
      BY <1>1 DEF Stopping
    <2> QED BY <1>3, <2>1 DEF Stoppers
  <1>5. child # 0 /\ pauseWait = 0 /\ Through(child)
    <2>1. Asked(s)
      BY <1>1 DEF Asked
    <2> QED BY <1>2, <1>3, <1>4, <2>1 DEF Dictating
  <1>6. stopping' \in [Stops -> StopStates] /\ stopping'[s] = "paused" /\ \A t \in Stops \ {s} : stopping'[t] = stopping[t]
    BY <1>1, <1>3 DEF VoiceTyped, StopStates
  <1>7. pauseWait' = 0 /\ listening' \in BOOLEAN /\ ~listening'
    BY <1>1, <1>5
  <1>8. \A t \in Stops : (Stopping(t)' => t = s) /\ (Asked(t)' => t = s)
    BY <1>4, <1>6 DEF Stopping, Asked
  <1>9. VoiceTyped' /\ OtherHelpers' /\ Writing'
    <2>1. VoiceTyped'
      BY <1>1, <1>3, <1>6, <1>7 DEF VoiceTyped
    <2>2. OtherHelpers'
      BY <1>1, <1>3 DEF OtherHelpers, Within, Silent
    <2>3. Writing'
      BY <1>1, <1>3 DEF Writing, Within
    <2> QED BY <2>1, <2>2, <2>3
  <1>10. Stoppers'
    <2>1. \A t \in released' : stopping'[t] \notin {"none", "begun"}
      BY <1>1, <1>3, <1>6 DEF Stoppers, VoiceTyped
    <2> QED BY <1>1, <1>4, <1>8, <2>1 DEF Stoppers
  <1>11. Resting' /\ Opening'
    BY <1>1, <1>4 DEF Resting, Opening
  <1>12. Dictating'
    <2>1. Through(child)'
      BY <1>1, <1>5 DEF Through, Silent, Whole
    <2>2. Asked(s)' /\ child' # 0 /\ ~listening' /\ s \in released' /\ pauseWait' = 0 /\ stopping'[s] = "paused"
      BY <1>1, <1>2, <1>5, <1>6, <1>7 DEF Asked
    <2> QED BY <1>8, <2>1, <2>2 DEF Dictating
  <1> QED BY <1>9, <1>10, <1>11, <1>12 DEF Orderly

LEMMA CommitSound == ASSUME Orderly, NEW s \in Stops, Commit(s) PROVE Orderly'
  <1>1. /\ stopping[s] = "paused" /\ stopping' = [stopping EXCEPT ![s] = "ended"]
        /\ draft' = [active |-> FALSE, stopping |-> FALSE, text |-> <<>>]
        /\ written' = (IF draft.active THEN written \o draft.text ELSE written)
        /\ UNCHANGED <<child, spawned, listening, committed, pauseWait, released, helper, commands, audio, lines, telling, listener,
                       spoken, heard>>
    BY DEF Commit, EndVoice, controller, helpers
  <1>2. VoiceTyped /\ OtherHelpers /\ Writing /\ Stoppers /\ Dictating
    BY DEF Orderly
  <1>3. draft.active /\ draft.stopping /\ listener = 0 /\ \A t \in Stops : Stopping(t) => t = s
    <2>1. Stopping(s)
      BY <1>1 DEF Stopping
    <2> QED BY <1>2, <2>1 DEF Stoppers
  <1>4. child # 0 /\ pauseWait = 0 /\ Through(child) /\ ~listening
    <2>1. Asked(s)
      BY <1>1 DEF Asked
    <2>2. stopping[s] # "waiting"
      BY <1>1
    <2> QED BY <1>2, <1>3, <2>1, <2>2 DEF Dictating
  <1>5. stopping' \in [Stops -> StopStates] /\ stopping'[s] = "ended" /\ \A t \in Stops \ {s} : stopping'[t] = stopping[t]
    BY <1>1, <1>2 DEF VoiceTyped, StopStates
  <1>6. \A t \in Stops : ~Stopping(t)'
    BY <1>3, <1>5 DEF Stopping
  <1>7. /\ draft' \in [active : BOOLEAN, stopping : BOOLEAN, text : Seq(Nat)] /\ ~draft'.active
        /\ written' = written \o draft.text /\ Whole(draft.text) /\ Spoken(written)
    <2>1. <<>> \in Seq(Nat)
      OBVIOUS
    <2> QED BY <1>1, <1>2, <1>3, <1>4, <2>1 DEF Through, Writing
  <1>8. Spoken(written') /\ ToSet(written') = ToSet(written) \cup heard
    <2>1. \A w \in ToSet(written), x \in ToSet(draft.text) : w < x
      BY <1>2, <1>3, <1>7 DEF Writing, Whole
    <2>2. Spoken(draft.text) /\ ToSet(draft.text) = heard
      BY <1>7 DEF Whole
    <2> QED BY <1>7, <2>1, <2>2, JoinSpoken
  <1>9. VoiceTyped'
    <2>1. written' \in Seq(Nat)
      BY <1>8 DEF Spoken
    <2> QED BY <1>1, <1>2, <1>5, <1>7, <2>1 DEF VoiceTyped
  <1>10. OtherHelpers'
    BY <1>1, <1>2 DEF OtherHelpers, Within, Silent
  <1>11. Stoppers'
    <2>1. \A t \in released' : stopping'[t] \notin {"none", "begun"}
      BY <1>1, <1>2, <1>5 DEF Stoppers, VoiceTyped
    <2> QED BY <1>6, <2>1 DEF Stoppers
  <1>12. Resting'
    <2>1. Silent(child)' /\ helper'[child'] = "idle"
      BY <1>1, <1>4 DEF Through, Silent
    <2> QED BY <1>1, <1>3, <1>4, <1>8, <2>1 DEF Resting
  <1>13. Opening' /\ Dictating'
    BY <1>1, <1>3, <1>7 DEF Opening, Dictating
  <1>14. Writing'
    BY <1>1, <1>2, <1>7, <1>8 DEF Writing, VoiceTyped
  <1> QED BY <1>9, <1>10, <1>11, <1>12, <1>13, <1>14 DEF Orderly

LEMMA StopAfterSound == ASSUME Orderly, NEW s \in Stops, StopAfter(s), ~excused' PROVE Orderly'
  <1>1. /\ stopping[s] = "ended" /\ stopping' = [stopping EXCEPT ![s] = "done"] /\ excused' = (excused \/ draft.active)
        /\ listening' = FALSE /\ child' = 0 /\ pauseWait' = 0 /\ released' = released \cup ({pauseWait} \ {0})
        /\ helper' = IF child # 0 /\ helper[child] \in {"loading", "idle", "capturing"}
                     THEN [helper EXCEPT ![child] = IF @ = "capturing" THEN "cut" ELSE "killed"] ELSE helper
        /\ UNCHANGED <<spawned, committed, commands, audio, lines, telling, listener, draft, written, spoken, heard>>
    BY DEF StopAfter, StopHelper, view
  <1>2. ~draft.active
    BY <1>1, Zenon
  <1>3. VoiceTyped /\ OtherHelpers /\ Writing /\ Stoppers /\ Resting
    BY DEF Orderly
  <1>4. /\ listener = 0 /\ ~listening /\ pauseWait = 0 /\ (child # 0 => Silent(child) /\ helper[child] = "idle")
        /\ heard \subseteq ToSet(written)
    BY <1>2, <1>3 DEF Resting
  <1>5. released' = released
    BY <1>1, <1>4
  <1>6. stopping' \in [Stops -> StopStates] /\ stopping'[s] = "done" /\ \A t \in Stops \ {s} : stopping'[t] = stopping[t]
    BY <1>1, <1>3 DEF VoiceTyped, StopStates
  <1>7. \A t \in Stops : ~Stopping(t)'
    BY <1>2, <1>3, <1>6 DEF Stoppers, Stopping
  <1>8. /\ helper' \in [Helpers -> HelperStates]
        /\ \A g \in Helpers : Silent(g) /\ helper'[g] \in {"none", "killed", "gone", "waited"}
    <2>1. CASE child = 0
      <3>1. 0 \notin Helpers
        BY VoiceAssumption DEF Helpers
      <3> QED BY <1>1, <1>3, <2>1, <3>1 DEF VoiceTyped, OtherHelpers
    <2>2. CASE child # 0
      <3>1. child \in Helpers /\ helper[child] = "idle"
        BY <1>3, <1>4, <2>2 DEF VoiceTyped
      <3>2. helper' = [helper EXCEPT ![child] = "killed"]
        BY <1>1, <2>2, <3>1
      <3>3. helper' \in [Helpers -> HelperStates] /\ helper'[child] = "killed" /\ \A g \in Helpers \ {child} : helper'[g] = helper[g]
        BY <1>3, <3>1, <3>2 DEF VoiceTyped, HelperStates
      <3> QED BY <1>3, <1>4, <2>2, <3>3 DEF OtherHelpers
    <2> QED BY <2>1, <2>2
  <1>9. VoiceTyped'
    <2>1. listening' \in BOOLEAN /\ child' \in Helpers \cup {0} /\ pauseWait' \in Stops \cup {0}
      BY <1>1
    <2> QED BY <1>1, <1>3, <1>5, <1>6, <1>8, <2>1 DEF VoiceTyped
  <1>10. OtherHelpers'
    BY <1>1, <1>3, <1>8 DEF OtherHelpers, Silent, Within
  <1>11. Stoppers'
    <2>1. \A t \in released' : stopping'[t] \notin {"none", "begun"}
      BY <1>3, <1>5, <1>6 DEF Stoppers, VoiceTyped
    <2> QED BY <1>7, <2>1 DEF Stoppers
  <1>12. Resting' /\ Opening' /\ Dictating'
    BY <1>1, <1>2, <1>4 DEF Resting, Opening, Dictating
  <1>13. Writing'
    BY <1>1, <1>2, <1>3 DEF Writing
  <1> QED BY <1>9, <1>10, <1>11, <1>12, <1>13 DEF Orderly

-----------------------------------------------------------------------------
LEMMA VoiceStarts == VoiceInit => VoiceInv
  <1> SUFFICES ASSUME VoiceInit PROVE VoiceInv
    OBVIOUS
  <1>1. /\ child = 0 /\ spawned = 0 /\ listening = FALSE /\ committed = <<>> /\ pauseWait = 0 /\ released = {} /\ listener = 0
        /\ helper = [h \in Helpers |-> "none"] /\ commands = [h \in Helpers |-> <<>>] /\ audio = commands /\ lines = commands
        /\ telling = commands /\ stopping = [s \in Stops |-> "none"]
        /\ draft = [active |-> FALSE, stopping |-> FALSE, text |-> <<>>] /\ written = <<>> /\ spoken = 0 /\ heard = {}
        /\ excused = FALSE
    BY DEF VoiceInit
  <1>2. <<>> \in Seq(Nat) /\ <<>> \in Seq({"listen", "pause"}) /\ <<>> \in Seq(HelperLines) /\ <<>> \in Seq(Seq(Nat))
    OBVIOUS
  <1>3. VoiceTyped
    <2>1. 0 \in 0..MaxHelpers
      BY VoiceAssumption
    <2>2. /\ child \in Helpers \cup {0} /\ listener \in Helpers \cup {0} /\ spawned \in 0..MaxHelpers
          /\ listening \in BOOLEAN /\ committed \in Seq(Nat) /\ written \in Seq(Nat)
          /\ pauseWait \in Stops \cup {0} /\ released \subseteq Stops /\ spoken \in Nat /\ heard \subseteq 1..spoken
      BY <1>1, <1>2, <2>1
    <2>3. helper \in [Helpers -> HelperStates] /\ stopping \in [Stops -> StopStates]
      BY <1>1 DEF HelperStates, StopStates
    <2>4. /\ commands \in [Helpers -> Seq({"listen", "pause"})] /\ audio \in [Helpers -> Seq(Nat)]
          /\ lines \in [Helpers -> Seq(HelperLines)] /\ telling \in [Helpers -> Seq(Seq(Nat))]
      BY <1>1, <1>2
    <2>5. draft \in [active : BOOLEAN, stopping : BOOLEAN, text : Seq(Nat)]
      BY <1>1, <1>2
    <2> QED BY <2>2, <2>3, <2>4, <2>5 DEF VoiceTyped
  <1>4. OtherHelpers
    BY <1>1 DEF OtherHelpers, Silent
  <1>5. \A s \in Stops : ~Stopping(s)
    BY <1>1 DEF Stopping
  <1>6. Stoppers /\ Opening /\ Dictating
    BY <1>1, <1>5 DEF Stoppers, Opening, Dictating
  <1>7. Resting
    BY <1>1 DEF Resting
  <1>8. Writing
    BY <1>1, NothingSpoken DEF Writing
  <1> QED BY <1>1, <1>3, <1>4, <1>6, <1>7, <1>8 DEF VoiceInv, Orderly

LEMMA VoiceStep == VoiceInv /\ [VoiceNext]_voiceVars => VoiceInv'
  <1> SUFFICES ASSUME VoiceInv, [VoiceNext]_voiceVars PROVE VoiceInv'
    OBVIOUS
  <1>1. excused \in BOOLEAN
    BY DEF VoiceInv
  <1>2. excused' \in BOOLEAN /\ (excused => excused')
    <2>1. CASE UNCHANGED voiceVars
      BY <1>1, <2>1 DEF voiceVars
    <2>2. CASE StartVoice \/ Listen
      BY <1>1, <2>2, Zenon DEF StartVoice, Listen
    <2>3. ASSUME NEW s \in Stops, Escape(s) \/ PauseAndWait(s) \/ Waited(s) \/ Commit(s) \/ StopAfter(s)
          PROVE  excused' \in BOOLEAN /\ (excused => excused')
      BY <1>1, <2>3, Zenon DEF Escape, PauseAndWait, Waited, Commit, StopAfter
    <2>4. ASSUME NEW h \in Helpers, Obey(h) PROVE excused' \in BOOLEAN /\ (excused => excused')
      <3>1. \/ excused' = excused
            \/ \E decoded \in {audio[h] # <<>>, FALSE} : excused' = (excused \/ (~decoded /\ audio[h] # <<>>))
        <4>1. \/ UNCHANGED <<lines, excused>> \/ UNCHANGED <<helper, audio, lines, excused>>
              \/ \E decoded \in {audio[h] # <<>>, FALSE} : excused' = (excused \/ (~decoded /\ audio[h] # <<>>))
          BY <2>4, Zenon DEF Obey
        <4>2. UNCHANGED <<lines, excused>> \/ UNCHANGED <<helper, audio, lines, excused>> => excused' = excused
          BY Zenon
        <4> QED BY <4>1, <4>2, Zenon
      <3>2. CASE excused' = excused
        BY <1>1, <3>2
      <3>3. ASSUME NEW decoded, excused' = (excused \/ (~decoded /\ audio[h] # <<>>))
            PROVE  excused' \in BOOLEAN /\ (excused => excused')
        BY <1>1, <3>3, Zenon
      <3> QED BY <3>1, <3>2, <3>3
    <2>5. ASSUME NEW h \in Helpers, Load(h) \/ Fails(h) \/ Speak(h) \/ Decode(h) \/ Killed(h) \/ HandleLine(h) \/ Tell(h) \/ HelperEnds(h)
          PROVE  excused' \in BOOLEAN /\ (excused => excused')
      BY <1>1, <2>5, Zenon DEF Load, Fails, Speak, Decode, Killed, HandleLine, Tell, HelperEnds
    <2> QED BY <2>1, <2>2, <2>3, <2>4, <2>5 DEF VoiceNext
  <1>3. ASSUME ~excused' PROVE Orderly'
    <2>1. Orderly
      BY <1>2, <1>3 DEF VoiceInv
    <2>2. CASE UNCHANGED voiceVars
      BY <2>1, <2>2, StillSound
    <2>3. CASE StartVoice
      BY <2>1, <2>3, StartSound
    <2>4. CASE Listen
      BY <1>3, <2>1, <2>4, ListenSound
    <2>5. ASSUME NEW s \in Stops, Escape(s) \/ PauseAndWait(s) \/ Waited(s) \/ Commit(s) \/ StopAfter(s) PROVE Orderly'
      BY <1>3, <2>1, <2>5, EscapeSound, PauseSound, WaitedSound, CommitSound, StopAfterSound
    <2>6. ASSUME NEW h \in Helpers, Fails(h) PROVE Orderly'
      BY <1>3, <2>6 DEF Fails
    <2>7. ASSUME NEW h \in Helpers, Load(h) \/ Obey(h) \/ Speak(h) \/ Decode(h) PROVE Orderly'
      BY <1>3, <2>1, <2>7, LoadSound, ObeySound, SpeakSound, DecodeSound
    <2>8. ASSUME NEW h \in Helpers, Killed(h) \/ HandleLine(h) \/ Tell(h) \/ HelperEnds(h) PROVE Orderly'
      BY <1>3, <2>1, <2>8, KilledSound, HandleSound, TellSound, EndsSound
    <2> QED BY <2>2, <2>3, <2>4, <2>5, <2>6, <2>7, <2>8 DEF VoiceNext
  <1> QED BY <1>2, <1>3 DEF VoiceInv

LEMMA VoiceInvKept == VoiceInv => DictationKept
  <1> SUFFICES ASSUME VoiceInv, ~excused PROVE /\ draft.active => ToSet(draft.text) \subseteq heard
                                               /\ \A i, j \in DOMAIN written : i < j => written[i] < written[j]
                                               /\ ~draft.active => heard \subseteq ToSet(written)
    BY DEF DictationKept
  <1>1. Resting /\ Writing
    BY DEF VoiceInv, Orderly
  <1> QED BY <1>1 DEF Resting, Writing, Within, Spoken

\* However the helper's lines, the reader's reports and a stop interleave
\* (internal/voice/controller.go, internal/tui/chat.go), what was dictated is in the
\* editor once it ended, each word once and in order, as long as no stop gave up, no
\* helper failed and no Listen met a Stop: for any number of helpers, stops and words.
THEOREM DictationStays == VoiceSpec => []DictationKept
  <1>1. VoiceSpec => []VoiceInv
    BY VoiceStarts, VoiceStep, PTL DEF VoiceSpec
  <1> QED BY <1>1, VoiceInvKept, PTL

-----------------------------------------------------------------------------
(* Together: what moves one service leaves the others alone.                *)
LEMMA PartsOfSpec ==
  Spec => /\ WarmerSpec /\ LoginSpec /\ RemoteSpec /\ CredentialsSpec /\ GoalSpec
          /\ StoreSpec /\ FilesSpec /\ RecordsSpec /\ KeysSpec /\ SettingsSpec /\ TasksSpec
  <1>1. Init => /\ WarmerInit /\ LoginInit /\ RemoteInit /\ CredentialsInit /\ GoalInit
                /\ StoreInit /\ FilesInit /\ RecordsInit /\ KeysInit /\ SettingsInit /\ TasksInit
    BY DEF Init
  <1>2. ASSUME [Next]_<<part, linkVars, chatVars, diskVars>>
        PROVE  /\ WarmerNext \/ UNCHANGED warmerVars
               /\ LoginNext \/ UNCHANGED loginVars
               /\ RemoteNext \/ UNCHANGED remoteVars
               /\ CredentialsNext \/ UNCHANGED credentialVars
               /\ GoalNext \/ UNCHANGED goalVars
               /\ StoreNext \/ UNCHANGED storeVars
               /\ FilesNext \/ UNCHANGED filesVars
               /\ RecordsNext \/ UNCHANGED recordVars
               /\ KeysNext \/ UNCHANGED keyVars
               /\ SettingsNext \/ UNCHANGED settingsVars
               /\ TasksNext \/ UNCHANGED taskVars
    BY <1>2 DEF Next, Warmer, Mcp, Wire, Signin, Voice, Provider, Compacting, Mirror, Goals, Tasking, Stored, Filing, Recording, Signed,
                Keying, Setting, linkVars, chatVars, diskVars
  <1>3. [Next]_<<part, linkVars, chatVars, diskVars>>
          => /\ [WarmerNext]_warmerVars /\ [LoginNext]_loginVars /\ [RemoteNext]_remoteVars
             /\ [CredentialsNext]_credentialVars /\ [GoalNext]_goalVars
             /\ [StoreNext]_storeVars /\ [FilesNext]_filesVars /\ [RecordsNext]_recordVars
             /\ [KeysNext]_keyVars /\ [SettingsNext]_settingsVars /\ [TasksNext]_taskVars
    BY <1>2
  <1> QED BY <1>1, <1>3, PTL DEF Spec, WarmerSpec, LoginSpec, RemoteSpec, CredentialsSpec, GoalSpec,
                                 StoreSpec, FilesSpec, RecordsSpec, KeysSpec, SettingsSpec, TasksSpec

\* A login that was settled stays so, a refreshed token is saved and takes nobody's
\* credential away (pkg/hub/login.go, pkg/ai/auth/store.go), a device code or a browser
\* connects an account only by its own answer, and a key that was refused rests
\* (pkg/ai/auth), whatever the other services do.
THEOREM LateAnswersSettle == Spec => []LoginsKept
  <1>1. LoginSettled /\ CredentialsKept /\ SigninSettles /\ KeysRested => LoginsKept
    BY DEF LoginsKept
  <1> QED BY <1>1, PartsOfSpec, LoginsStaySettled, CredentialsAreKept, SigninsSettle, KeysRest, PTL

\* Nothing that was stored is lost, the limit drops the oldest (pkg/hub/store.go,
\* pkg/storage), and settings.json holds what was last put there (internal/settings,
\* pkg/mcpconfig), whatever the other services do.
THEOREM FilesStay == Spec => []FilesKept
  <1>1. StoredSurvives /\ RecentKept /\ SettingsKept => FilesKept
    BY DEF FilesKept
  <1> QED BY <1>1, PartsOfSpec, StoreSurvives, RecentStays, SettingsAreKept, PTL

\* Titles, shell commands and the goal stay with their session (internal/tui, internal/goal),
\* and delegated runs in their limits (internal/chat/task.go), whatever the other services do.
THEOREM SessionStays == Spec => []SessionKept
  <1>1. RecordsKept /\ GoalKept /\ TasksKept => SessionKept
    BY DEF SessionKept
  <1> QED BY <1>1, PartsOfSpec, RecordsStayApart, GoalIsKept, TasksAreKept, PTL
=============================================================================
