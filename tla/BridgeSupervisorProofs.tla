----------------------- MODULE BridgeSupervisorProofs -----------------------
(***************************************************************************)
(* Proofs about BridgeSupervisor for any callers, installations and starts.*)
(***************************************************************************)
EXTENDS BridgeSupervisor, FiniteSetTheorems, TLAPS

Where == {"idle", "queued", "starting", "checking", "taking", "closing", "reading", "watching"}
Places == [at : Where, entry : Entries \cup {None}, proc : Procs \cup {None}]
Processes == [entry : Entries \cup {None}, runs : BOOLEAN, closed : BOOLEAN, ended : BOOLEAN]

Typed ==
    /\ installed \in Entries \cup {None} /\ installs \in 0..MaxInstalls
    /\ process \in [Entries -> Procs \cup {None}]
    /\ lock \in [Entries -> BOOLEAN]
    /\ proc \in [Procs -> Processes]
    /\ caller \in [Callers -> Places]
    /\ stopper \in [Stoppers -> Places]
    /\ watcher \in [Procs -> Places]

\* An operation in progress knows its entry, and its process where it has one.
CallersPlaced ==
    \A c \in Callers :
        /\ caller[c].at # "idle" => caller[c].entry \in Entries
        /\ caller[c].at = "starting" => caller[c].proc \in Procs
StoppersPlaced ==
    \A o \in Stoppers :
        /\ stopper[o].at # "idle" => stopper[o].entry \in Entries
        /\ stopper[o].at = "closing" => stopper[o].proc \in Procs
WatchersPlaced ==
    \A p \in Procs :
        /\ watcher[p].at # "idle" => watcher[p].entry \in Entries
        /\ watcher[p].at = "watching" => watcher[p].proc \in Procs

\* The lock of an entry is held by the one call that starts its process, and
\* only while the entry has none.
StartLocks ==
    /\ \A c \in Callers : caller[c].at = "starting" => lock[caller[c].entry]
    /\ \A e \in Entries : lock[e] =>
           /\ process[e] = None
           /\ \E c \in Callers : caller[c].at = "starting" /\ caller[c].entry = e
    /\ \A c, d \in Callers :
           caller[c].at = "starting" /\ caller[d].at = "starting"
               /\ caller[c].entry = caller[d].entry => c = d

\* Whoever has a process has it alone, and it belongs to the entry.
KnownOwned ==
    \A e \in Entries : process[e] # None =>
        proc[process[e]].entry = e /\ ~proc[process[e]].closed
StartedOwned ==
    \A c \in Callers : caller[c].at = "starting" =>
        proc[caller[c].proc].entry = caller[c].entry /\ ~proc[caller[c].proc].closed
ClosingOwned ==
    \A o \in Stoppers : stopper[o].at = "closing" =>
        /\ proc[stopper[o].proc].entry = stopper[o].entry
        /\ \A e \in Entries : process[e] # stopper[o].proc
        /\ \A c \in Callers : caller[c].at = "starting" => caller[c].proc # stopper[o].proc

\* The output ends only after the process.
EndedStopped == \A p \in Procs : proc[p].ended => ~proc[p].runs

IInv == /\ Typed
        /\ CallersPlaced /\ StoppersPlaced /\ WatchersPlaced
        /\ StartLocks
        /\ KnownOwned /\ StartedOwned /\ ClosingOwned
        /\ EndedStopped
        /\ RunningProcessHeld

\* A call that waits for an entry's lock has nothing yet.
LEMMA FindKeeps ==
  ASSUME IInv, NEW c \in Callers, Find(c)
  PROVE  IInv'
<1>0. /\ Typed /\ CallersPlaced /\ StoppersPlaced /\ WatchersPlaced /\ StartLocks
      /\ KnownOwned /\ StartedOwned /\ ClosingOwned /\ EndedStopped /\ RunningProcessHeld
  BY DEF IInv
<1>1. (StoppersPlaced /\ WatchersPlaced /\ KnownOwned /\ EndedStopped)'
  BY <1>0 DEF StoppersPlaced, WatchersPlaced, KnownOwned, EndedStopped, Find, entryVars
<1>2. Typed'
  BY <1>0 DEF Typed, Find, entryVars, At, Places, Where
<1>3. CallersPlaced'
  BY <1>0 DEF CallersPlaced, Typed, Find, At
<1>4. StartLocks'
  BY <1>0 DEF StartLocks, Find, entryVars, At, Idle
<1>5. StartedOwned'
  BY <1>0 DEF StartedOwned, Find, At
<1>6. ClosingOwned'
  BY <1>0 DEF ClosingOwned, Find, entryVars, At
<1>7. RunningProcessHeld'
  BY <1>0 DEF RunningProcessHeld, Find, entryVars, At, Idle
<1> QED BY <1>1, <1>2, <1>3, <1>4, <1>5, <1>6, <1>7 DEF IInv

\* A call that finds a process takes nothing from the entry.
LEMMA ReuseKeeps ==
  ASSUME IInv, NEW c \in Callers, Reuse(c)
  PROVE  IInv'
<1>0. /\ Typed /\ CallersPlaced /\ StoppersPlaced /\ WatchersPlaced /\ StartLocks
      /\ KnownOwned /\ StartedOwned /\ ClosingOwned /\ EndedStopped /\ RunningProcessHeld
  BY DEF IInv
<1>1. (StoppersPlaced /\ WatchersPlaced /\ KnownOwned /\ EndedStopped)'
  BY <1>0 DEF StoppersPlaced, WatchersPlaced, KnownOwned, EndedStopped, Reuse, entryVars
<1>2. Typed'
  BY <1>0 DEF Typed, Reuse, entryVars, At, Idle, Places, Where
<1>3. CallersPlaced'
  BY <1>0 DEF CallersPlaced, Reuse, At, Idle
<1>4. StartLocks'
  BY <1>0 DEF StartLocks, Reuse, entryVars, At, Idle
<1>5. StartedOwned'
  BY <1>0 DEF StartedOwned, Reuse, At, Idle
<1>6. ClosingOwned'
  BY <1>0 DEF ClosingOwned, Reuse, entryVars, At, Idle
<1>7. RunningProcessHeld'
  BY <1>0 DEF RunningProcessHeld, Reuse, entryVars
<1> QED BY <1>1, <1>2, <1>3, <1>4, <1>5, <1>6, <1>7 DEF IInv

\* The entry had no process, for its lock was held: the new one replaces none.
LEMMA HelloAnsweredKeeps ==
  ASSUME IInv, NEW c \in Callers, HelloAnswered(c)
  PROVE  IInv'
<1>0. /\ Typed /\ CallersPlaced /\ StoppersPlaced /\ WatchersPlaced /\ StartLocks
      /\ KnownOwned /\ StartedOwned /\ ClosingOwned /\ EndedStopped /\ RunningProcessHeld
  BY DEF IInv
<1>1. (StoppersPlaced /\ EndedStopped)'
  BY <1>0 DEF StoppersPlaced, EndedStopped, HelloAnswered
<1>2. Typed'
  BY <1>0 DEF Typed, HelloAnswered, At, Idle, Places, Where
<1>3. CallersPlaced'
  BY <1>0 DEF CallersPlaced, HelloAnswered, At, Idle
<1>4. WatchersPlaced'
  BY <1>0 DEF WatchersPlaced, CallersPlaced, HelloAnswered, At
<1>5. StartLocks'
  BY <1>0 DEF StartLocks, Typed, HelloAnswered, At, Idle
<1>6. KnownOwned'
  BY <1>0 DEF KnownOwned, StartedOwned, HelloAnswered
<1>7. StartedOwned'
  BY <1>0 DEF StartedOwned, HelloAnswered, At, Idle
<1>8. ClosingOwned'
  BY <1>0 DEF ClosingOwned, HelloAnswered, At, Idle
<1>9. RunningProcessHeld'
  BY <1>0 DEF RunningProcessHeld, Typed, CallersPlaced, StartLocks, None, Procs,
      StartedOwned, HelloAnswered
<1> QED BY <1>1, <1>2, <1>3, <1>4, <1>5, <1>6, <1>7, <1>8, <1>9 DEF IInv

\* A process that is killed and closed need not be held, and its entry knew it not.
LEMMA HelloFailsKeeps ==
  ASSUME IInv, NEW c \in Callers, HelloFails(c)
  PROVE  IInv'
<1>0. /\ Typed /\ CallersPlaced /\ StoppersPlaced /\ WatchersPlaced /\ StartLocks
      /\ KnownOwned /\ StartedOwned /\ ClosingOwned /\ EndedStopped /\ RunningProcessHeld
  BY DEF IInv
<1>1. (StoppersPlaced /\ WatchersPlaced)'
  BY <1>0 DEF StoppersPlaced, WatchersPlaced, HelloFails
<1>2. Typed'
  <2>1. proc' \in [Procs -> Processes]
    <3> SUFFICES ASSUME NEW q \in Procs PROVE proc'[q] \in Processes
      BY <1>0 DEF Typed, HelloFails, Killed
    <3>1. proc[q] \in Processes
      BY <1>0 DEF Typed
    <3> QED BY <1>0, <3>1 DEF Typed, HelloFails, Killed, Processes
  <2> QED BY <1>0, <2>1 DEF Typed, HelloFails, GiveUp, Unlock, At, Idle, Places, Where
<1>3. CallersPlaced'
  BY <1>0 DEF CallersPlaced, HelloFails, At, Idle, GiveUp
<1>4. StartLocks'
  BY <1>0 DEF StartLocks, Typed, HelloFails, At, Idle, GiveUp, Unlock
<1>5. KnownOwned'
  BY <1>0 DEF KnownOwned, Typed, StartedOwned, StartLocks, HelloFails, GiveUp, Killed
<1>6. StartedOwned'
  BY <1>0 DEF StartedOwned, Typed, CallersPlaced, StartLocks, HelloFails, At, Idle,
      GiveUp, Killed
<1>7. ClosingOwned'
  BY <1>0 DEF ClosingOwned, Typed, StoppersPlaced, HelloFails, At, Idle, GiveUp, Killed
<1>8. EndedStopped'
  BY <1>0 DEF EndedStopped, Typed, HelloFails, Killed
<1>9. RunningProcessHeld'
  BY <1>0 DEF RunningProcessHeld, Typed, HelloFails, GiveUp, Killed
<1> QED BY <1>1, <1>2, <1>3, <1>4, <1>5, <1>6, <1>7, <1>8, <1>9 DEF IInv

\* A process that ends keeps its owner.
LEMMA ExitKeeps ==
  ASSUME IInv, NEW p \in Procs, Exit(p)
  PROVE  IInv'
<1>0. /\ Typed /\ CallersPlaced /\ StoppersPlaced /\ WatchersPlaced /\ StartLocks
      /\ KnownOwned /\ StartedOwned /\ ClosingOwned /\ EndedStopped /\ RunningProcessHeld
  BY DEF IInv
<1>1. (CallersPlaced /\ StoppersPlaced /\ WatchersPlaced /\ StartLocks)'
  BY <1>0 DEF CallersPlaced, StoppersPlaced, WatchersPlaced, StartLocks, Exit, entryVars
<1>2. Typed'
  <2>1. proc' \in [Procs -> Processes]
    <3> SUFFICES ASSUME NEW q \in Procs PROVE proc'[q] \in Processes
      BY <1>0 DEF Typed, Exit
    <3>1. proc[q] \in Processes
      BY <1>0 DEF Typed
    <3> QED BY <1>0, <3>1 DEF Typed, Exit, Processes
  <2> QED BY <1>0, <2>1 DEF Typed, Exit, entryVars
<1>3. KnownOwned'
  BY <1>0 DEF KnownOwned, Exit, entryVars
<1>4. StartedOwned'
  BY <1>0 DEF StartedOwned, Exit
<1>5. ClosingOwned'
  BY <1>0 DEF ClosingOwned, Exit, entryVars
<1>6. EndedStopped'
  BY <1>0 DEF EndedStopped, Exit
<1>7. RunningProcessHeld'
  BY <1>0 DEF RunningProcessHeld, Exit, entryVars
<1> QED BY <1>1, <1>2, <1>3, <1>4, <1>5, <1>6, <1>7 DEF IInv

\* The output ends after the process.
LEMMA OutputEndsKeeps ==
  ASSUME IInv, NEW p \in Procs, OutputEnds(p)
  PROVE  IInv'
<1>0. /\ Typed /\ CallersPlaced /\ StoppersPlaced /\ WatchersPlaced /\ StartLocks
      /\ KnownOwned /\ StartedOwned /\ ClosingOwned /\ EndedStopped /\ RunningProcessHeld
  BY DEF IInv
<1>1. (CallersPlaced /\ StoppersPlaced /\ WatchersPlaced /\ StartLocks)'
  BY <1>0 DEF CallersPlaced, StoppersPlaced, WatchersPlaced, StartLocks, OutputEnds,
      entryVars
<1>2. Typed'
  <2>1. proc' \in [Procs -> Processes]
    <3> SUFFICES ASSUME NEW q \in Procs PROVE proc'[q] \in Processes
      BY <1>0 DEF Typed, OutputEnds
    <3>1. proc[q] \in Processes
      BY <1>0 DEF Typed
    <3> QED BY <1>0, <3>1 DEF Typed, OutputEnds, Processes
  <2> QED BY <1>0, <2>1 DEF Typed, OutputEnds, entryVars
<1>3. KnownOwned'
  BY <1>0 DEF KnownOwned, OutputEnds, entryVars
<1>4. StartedOwned'
  BY <1>0 DEF StartedOwned, OutputEnds
<1>5. ClosingOwned'
  BY <1>0 DEF ClosingOwned, OutputEnds, entryVars
<1>6. EndedStopped'
  BY <1>0 DEF EndedStopped, OutputEnds
<1>7. RunningProcessHeld'
  BY <1>0 DEF RunningProcessHeld, OutputEnds, entryVars
<1> QED BY <1>1, <1>2, <1>3, <1>4, <1>5, <1>6, <1>7 DEF IInv

\* A watcher owns nothing: it only remembers what the entry held.
LEMMA WatchKeeps ==
  ASSUME IInv, NEW p \in Procs, Watch(p)
  PROVE  IInv'
<1>0. /\ Typed /\ CallersPlaced /\ StoppersPlaced /\ WatchersPlaced /\ StartLocks
      /\ KnownOwned /\ StartedOwned /\ ClosingOwned /\ EndedStopped /\ RunningProcessHeld
  BY DEF IInv
<1>1. (CallersPlaced /\ StoppersPlaced /\ StartLocks /\ KnownOwned /\
       StartedOwned /\ ClosingOwned /\ EndedStopped /\ RunningProcessHeld)'
  BY <1>0 DEF CallersPlaced, StoppersPlaced, StartLocks, KnownOwned, StartedOwned,
      ClosingOwned, EndedStopped, RunningProcessHeld, Watch, entryVars
<1>2. Typed'
  BY <1>0 DEF Typed, WatchersPlaced, Watch, entryVars, At, Idle, Places, Where
<1>3. WatchersPlaced'
  BY <1>0 DEF WatchersPlaced, Typed, Watch, At, Idle
<1> QED BY <1>1, <1>2, <1>3 DEF IInv

\* What a watcher forgets does not run any more.
LEMMA ForgetKeeps ==
  ASSUME IInv, NEW p \in Procs, Forget(p)
  PROVE  IInv'
<1>0. /\ Typed /\ CallersPlaced /\ StoppersPlaced /\ WatchersPlaced /\ StartLocks
      /\ KnownOwned /\ StartedOwned /\ ClosingOwned /\ EndedStopped /\ RunningProcessHeld
  BY DEF IInv
<1>1. (CallersPlaced /\ StoppersPlaced /\ StartedOwned /\ EndedStopped)'
  BY <1>0 DEF CallersPlaced, StoppersPlaced, StartedOwned, EndedStopped, Forget
<1>2. Typed'
  BY <1>0 DEF Typed, Forget, At, Idle, Clear, Places, Where
<1>3. WatchersPlaced'
  BY <1>0 DEF WatchersPlaced, Forget, At, Idle
<1>4. StartLocks'
  BY <1>0 DEF StartLocks, Forget, Clear
<1>5. KnownOwned'
  BY <1>0 DEF KnownOwned, Forget, Clear
<1>6. ClosingOwned'
  BY <1>0 DEF ClosingOwned, StoppersPlaced, None, Procs, Forget, Clear
<1>7. RunningProcessHeld'
  BY <1>0 DEF RunningProcessHeld, EndedStopped, Forget, Clear
<1> QED BY <1>1, <1>2, <1>3, <1>4, <1>5, <1>6, <1>7 DEF IInv

\* An operation that stops the bridge has taken nothing yet.
LEMMA BeginKeeps ==
  ASSUME IInv, NEW o \in Stoppers, Begin(o)
  PROVE  IInv'
<1>0. /\ Typed /\ CallersPlaced /\ StoppersPlaced /\ WatchersPlaced /\ StartLocks
      /\ KnownOwned /\ StartedOwned /\ ClosingOwned /\ EndedStopped /\ RunningProcessHeld
  BY DEF IInv
<1>1. (CallersPlaced /\ WatchersPlaced /\ StartLocks /\ KnownOwned /\
       StartedOwned /\ EndedStopped)'
  BY <1>0 DEF CallersPlaced, WatchersPlaced, StartLocks, KnownOwned, StartedOwned,
      EndedStopped, Begin
<1>2. Typed'
  BY <1>0 DEF Typed, Begin, At, First, Places, Where
<1>3. StoppersPlaced'
  BY <1>0 DEF StoppersPlaced, Typed, Begin, At, First
<1>4. ClosingOwned'
  BY <1>0 DEF ClosingOwned, Begin, At, First
<1>5. RunningProcessHeld'
  BY <1>0 DEF RunningProcessHeld, Begin, At, Idle
<1> QED BY <1>1, <1>2, <1>3, <1>4, <1>5 DEF IInv

\* The process passes from the entry to the operation that will close it.
LEMMA TakeKeeps ==
  ASSUME IInv, NEW o \in Stoppers, Take(o)
  PROVE  IInv'
<1>0. /\ Typed /\ CallersPlaced /\ StoppersPlaced /\ WatchersPlaced /\ StartLocks
      /\ KnownOwned /\ StartedOwned /\ ClosingOwned /\ EndedStopped /\ RunningProcessHeld
  BY DEF IInv
<1>1. (CallersPlaced /\ WatchersPlaced /\ StartedOwned /\ EndedStopped)'
  BY <1>0 DEF CallersPlaced, WatchersPlaced, StartedOwned, EndedStopped, Take
<1>2. Typed'
  BY <1>0 DEF Typed, StoppersPlaced, Take, At, Idle, ForgetTaken, Places, Where
<1>3. StoppersPlaced'
  BY <1>0 DEF StoppersPlaced, Typed, Take, At, Idle
<1>4. StartLocks'
  BY <1>0 DEF StartLocks, Take, ForgetTaken
<1>5. KnownOwned'
  BY <1>0 DEF KnownOwned, Take, ForgetTaken
<1>6. ClosingOwned'
  BY <1>0 DEF ClosingOwned, Typed, StoppersPlaced, StartedOwned, KnownOwned, StartLocks,
      None, Procs, Take, At, Idle, ForgetTaken
<1>7. RunningProcessHeld'
  BY <1>0 DEF RunningProcessHeld, Typed, Take, At, ForgetTaken
<1> QED BY <1>1, <1>2, <1>3, <1>4, <1>5, <1>6, <1>7 DEF IInv

\* What is closed was taken before: no entry knows it and no call starts it.
LEMMA CloseKeeps ==
  ASSUME IInv, NEW o \in Stoppers, Close(o)
  PROVE  IInv'
<1>0. /\ Typed /\ CallersPlaced /\ StoppersPlaced /\ WatchersPlaced /\ StartLocks
      /\ KnownOwned /\ StartedOwned /\ ClosingOwned /\ EndedStopped /\ RunningProcessHeld
  BY DEF IInv
<1>1. (CallersPlaced /\ WatchersPlaced /\ StartLocks)'
  BY <1>0 DEF CallersPlaced, WatchersPlaced, StartLocks, Close, entryVars
<1>2. Typed'
  <2>1. proc' \in [Procs -> Processes]
    <3> SUFFICES ASSUME NEW q \in Procs PROVE proc'[q] \in Processes
      BY <1>0 DEF Typed, Close
    <3>1. proc[q] \in Processes
      BY <1>0 DEF Typed
    <3> QED BY <1>0, <3>1 DEF Typed, Close, Processes
  <2> QED BY <1>0, <2>1 DEF Typed, Close, entryVars, At, Idle, Places, Where
<1>3. StoppersPlaced'
  BY <1>0 DEF StoppersPlaced, Close, At, Idle
<1>4. KnownOwned'
  BY <1>0 DEF KnownOwned, ClosingOwned, Close, entryVars
<1>5. StartedOwned'
  BY <1>0 DEF StartedOwned, ClosingOwned, Close
<1>6. ClosingOwned'
  BY <1>0 DEF ClosingOwned, Close, entryVars, At, Idle
<1>7. EndedStopped'
  BY <1>0 DEF EndedStopped, Close
<1>8. RunningProcessHeld'
  BY <1>0 DEF RunningProcessHeld, Typed, Close, entryVars
<1> QED BY <1>1, <1>2, <1>3, <1>4, <1>5, <1>6, <1>7, <1>8 DEF IInv

\* Looking whether a bridge is idle changes nothing of it.
LEMMA CheckIdleKeeps ==
  ASSUME IInv, CheckIdle
  PROVE  IInv'
<1>0. /\ Typed /\ CallersPlaced /\ StoppersPlaced /\ WatchersPlaced /\ StartLocks
      /\ KnownOwned /\ StartedOwned /\ ClosingOwned /\ EndedStopped /\ RunningProcessHeld
  BY DEF IInv
<1>1. (CallersPlaced /\ WatchersPlaced /\ StartLocks /\ KnownOwned /\
       StartedOwned /\ EndedStopped)'
  BY <1>0 DEF CallersPlaced, WatchersPlaced, StartLocks, KnownOwned, StartedOwned,
      EndedStopped, CheckIdle, entryVars
<1>2. Typed'
  <2>1. stopper' \in [Stoppers -> Places]
    <3>1. CASE stopper' = [stopper EXCEPT !["reap"] = Idle]
      BY <1>0, <3>1 DEF Typed, Places, Where, At, Idle
    <3>2. CASE stopper' = [stopper EXCEPT !["reap"].at = "taking"]
      <4> SUFFICES ASSUME NEW o \in Stoppers PROVE stopper'[o] \in Places
        BY <1>0, <3>2 DEF Typed
      <4>1. stopper[o] \in Places
        BY <1>0 DEF Typed
      <4> QED BY <1>0, <3>2, <4>1 DEF Places, Where
    <3> QED BY <3>1, <3>2 DEF CheckIdle
  <2> QED BY <1>0, <2>1 DEF Typed, CheckIdle, entryVars
<1>3. StoppersPlaced'
  BY <1>0 DEF StoppersPlaced, Typed, Places, CheckIdle, At, Idle
<1>4. ClosingOwned'
  BY <1>0 DEF ClosingOwned, Typed, Places, CheckIdle, entryVars, At, Idle
<1>5. RunningProcessHeld'
  BY <1>0 DEF RunningProcessHeld, Typed, CheckIdle, entryVars
<1> QED BY <1>1, <1>2, <1>3, <1>4, <1>5 DEF IInv

\* An entry that is replaced keeps its process, under its own lock.
LEMMA InstallKeeps ==
  ASSUME IInv, Install
  PROVE  IInv'
<1>0. /\ Typed /\ CallersPlaced /\ StoppersPlaced /\ WatchersPlaced /\ StartLocks
      /\ KnownOwned /\ StartedOwned /\ ClosingOwned /\ EndedStopped /\ RunningProcessHeld
  BY DEF IInv
<1>1. (CallersPlaced /\ StoppersPlaced /\ WatchersPlaced /\ StartLocks /\
       KnownOwned /\ StartedOwned /\ ClosingOwned /\ EndedStopped /\
       RunningProcessHeld)'
  BY <1>0 DEF CallersPlaced, StoppersPlaced, WatchersPlaced, StartLocks, KnownOwned,
      StartedOwned, ClosingOwned, EndedStopped, RunningProcessHeld, Install
<1>2. Typed'
  BY <1>0, SupervisorAssumption DEF Typed, Install, Entries
<1> QED BY <1>1, <1>2 DEF IInv

\* A call that finds the entry empty: either the command cannot be started, or
\* the process is a new one that nobody can have heard of.
LEMMA StartKeeps ==
  ASSUME IInv, NEW c \in Callers, Start(c)
  PROVE  IInv'
<1>0. /\ Typed /\ CallersPlaced /\ StoppersPlaced /\ WatchersPlaced /\ StartLocks
      /\ KnownOwned /\ StartedOwned /\ ClosingOwned /\ EndedStopped /\ RunningProcessHeld
  BY DEF IInv
<1> DEFINE e == caller[c].entry
<1>1. e \in Entries /\ caller[c].at = "queued" /\ process[e] = None /\ ~lock[e]
  BY <1>0 DEF CallersPlaced, Start, Startable, Free
<1>2. UNCHANGED <<installed, installs, process, stopper, watcher>>
  BY DEF Start
<1>3. StoppersPlaced' /\ WatchersPlaced'
  BY <1>0, <1>2 DEF StoppersPlaced, WatchersPlaced
<1>4. CASE caller' = [caller EXCEPT ![c] = Idle] /\ UNCHANGED <<proc, lock>>
  <2>1. \A d \in Callers : caller'[d].at = "starting" => caller'[d] = caller[d] /\ d # c
    BY <1>0, <1>4 DEF Typed, At, Idle
  <2>2. \A d \in Callers : caller[d].at = "starting" => caller'[d] = caller[d]
    BY <1>0, <1>1, <1>4 DEF Typed
  <2>3. Typed'
    BY <1>0, <1>2, <1>4 DEF Typed, Places, Where, At, Idle, None
  <2>4. CallersPlaced'
    BY <1>0, <1>4 DEF Typed, CallersPlaced, At, Idle
  <2>5. StartLocks'
    BY <1>0, <1>2, <1>4, <2>1, <2>2 DEF StartLocks
  <2>6. KnownOwned' /\ EndedStopped'
    BY <1>0, <1>2, <1>4 DEF KnownOwned, EndedStopped
  <2>7. StartedOwned' /\ ClosingOwned'
    BY <1>0, <1>2, <1>4, <2>1 DEF StartedOwned, ClosingOwned
  <2>8. RunningProcessHeld'
    BY <1>0, <1>2, <1>4, <2>2 DEF RunningProcessHeld
  <2> QED BY <1>3, <2>3, <2>4, <2>5, <2>6, <2>7, <2>8 DEF IInv
<1>5. ASSUME NEW p \in Procs, proc[p] = Unborn,
             proc' = [proc EXCEPT ![p] = [Unborn EXCEPT !.entry = e, !.runs = TRUE]],
             lock' = [lock EXCEPT ![e] = TRUE],
             caller' = [caller EXCEPT ![c] = At("starting", e, p)]
      PROVE  IInv'
  <2>1. proc'[p] = [entry |-> e, runs |-> TRUE, closed |-> FALSE, ended |-> FALSE]
    BY <1>0, <1>5 DEF Typed, Unborn
  <2>2. \A q \in Procs : q # p => proc'[q] = proc[q]
    BY <1>0, <1>5 DEF Typed
  <2>3. caller'[c] = At("starting", e, p) /\ \A d \in Callers : d # c => caller'[d] = caller[d]
    BY <1>0, <1>5 DEF Typed
  <2>4. lock'[e] /\ \A f \in Entries : f # e => lock'[f] = lock[f]
    BY <1>0, <1>1, <1>5 DEF Typed
  \* Nobody has a process that was never started.
  <2>5. /\ \A f \in Entries : process[f] # p
        /\ \A d \in Callers : caller[d].at = "starting" => caller[d].proc # p
        /\ \A o \in Stoppers : stopper[o].at = "closing" => stopper[o].proc # p
    <3>1. proc[p].entry \notin Entries
      BY <1>5 DEF Unborn, Entries, None
    <3>2. p # None
      BY SupervisorAssumption DEF Procs, None
    <3> QED BY <1>0, <3>1, <3>2 DEF KnownOwned, StartedOwned, ClosingOwned,
                                    CallersPlaced, StoppersPlaced
  <2>6. Typed'
    <3>1. proc' \in [Procs -> Processes]
      <4>1. proc'[p] \in Processes
        BY <1>0, <1>1, <2>1 DEF Processes
      <4>2. proc \in [Procs -> Processes]
        BY <1>0 DEF Typed
      <4>3. proc' = [proc EXCEPT ![p] = [Unborn EXCEPT !.entry = e, !.runs = TRUE]]
        BY <1>5
      <4>4. [Unborn EXCEPT !.entry = e, !.runs = TRUE] = proc'[p]
        BY <4>2, <4>3
      <4> HIDE DEF Unborn
      <4> QED BY <4>1, <4>2, <4>3, <4>4
    <3>2. caller' \in [Callers -> Places]
      BY <1>0, <1>1, <1>5 DEF Typed, Places, Where, At
    <3>3. lock' \in [Entries -> BOOLEAN]
      BY <1>0, <1>5 DEF Typed
    <3> QED BY <1>0, <1>2, <3>1, <3>2, <3>3 DEF Typed
  <2>7. CallersPlaced'
    BY <1>0, <1>1, <2>3 DEF CallersPlaced, At
  <2>8. StartLocks'
    <3>1. \A d \in Callers : d # c /\ caller[d].at = "starting" => caller[d].entry # e
      BY <1>0, <1>1 DEF StartLocks
    <3>2. \A d \in Callers : caller'[d].at = "starting" => lock'[caller'[d].entry]
      BY <1>0, <2>3, <2>4, <3>1 DEF StartLocks, CallersPlaced, At
    <3>3. ASSUME NEW f \in Entries, lock'[f]
          PROVE  /\ process'[f] = None
                 /\ \E d \in Callers : caller'[d].at = "starting" /\ caller'[d].entry = f
      <4>1. CASE f = e
        BY <1>1, <1>2, <2>3, <4>1 DEF At
      <4>2. CASE f # e
        BY <1>0, <1>1, <1>2, <2>3, <2>4, <3>3, <4>2 DEF StartLocks
      <4> QED BY <4>1, <4>2
    <3>4. \A d, b \in Callers :
             caller'[d].at = "starting" /\ caller'[b].at = "starting"
                 /\ caller'[d].entry = caller'[b].entry => d = b
      BY <1>0, <2>3, <3>1 DEF StartLocks, At
    <3> QED BY <3>2, <3>3, <3>4 DEF StartLocks
  <2>9. KnownOwned'
    BY <1>0, <1>2, <2>2, <2>5 DEF KnownOwned, Typed
  <2>10. StartedOwned'
    BY <1>0, <2>1, <2>2, <2>3, <2>5 DEF StartedOwned, CallersPlaced, At
  <2>11. ClosingOwned'
    BY <1>0, <1>2, <2>2, <2>3, <2>5 DEF ClosingOwned, StoppersPlaced, At
  <2>12. EndedStopped'
    BY <1>0, <2>1, <2>2 DEF EndedStopped
  <2>13. RunningProcessHeld'
    <3> SUFFICES ASSUME NEW q \in Procs, proc'[q].runs, ~proc'[q].closed
                 PROVE  \/ process'[proc'[q].entry] = q
                        \/ \E d \in Callers : caller'[d].at = "starting" /\ caller'[d].proc = q
                        \/ \E o \in Stoppers : stopper'[o].at = "closing" /\ stopper'[o].proc = q
      BY DEF RunningProcessHeld
    <3>1. CASE q = p
      BY <2>3, <3>1 DEF At
    <3>2. CASE q # p
      BY <1>0, <1>1, <1>2, <2>2, <2>3, <3>2 DEF RunningProcessHeld
    <3> QED BY <3>1, <3>2
  <2> QED BY <1>3, <2>6, <2>7, <2>8, <2>9, <2>10, <2>11, <2>12, <2>13 DEF IInv
<1> QED BY <1>4, <1>5 DEF Start

\* At first nothing was started.
LEMMA InitKeeps == Init => IInv
<1> SUFFICES ASSUME Init PROVE IInv
  OBVIOUS
<1>1. Typed
  BY SupervisorAssumption
  DEF Init, Typed, Entries, Procs, None, Processes, Places, Where, Unborn, Idle, At
<1>2. CallersPlaced /\ StoppersPlaced /\ WatchersPlaced
  BY DEF Init, CallersPlaced, StoppersPlaced, WatchersPlaced, Idle, At
<1>3. StartLocks /\ KnownOwned /\ StartedOwned /\ ClosingOwned
  BY DEF Init, StartLocks, KnownOwned, StartedOwned, ClosingOwned, Idle, At
<1>4. EndedStopped /\ RunningProcessHeld
  BY DEF Init, EndedStopped, RunningProcessHeld, Unborn
<1> QED BY <1>1, <1>2, <1>3, <1>4 DEF IInv

\* No step of a call, a process, a watcher or a stop breaks the ownership of the
\* processes.
THEOREM Inductive == IInv /\ [Next]_vars => IInv'
<1> SUFFICES ASSUME IInv, [Next]_vars PROVE IInv'
  OBVIOUS
<1>1. ASSUME NEW c \in Callers,
             Find(c) \/ Reuse(c) \/ Start(c) \/ HelloAnswered(c) \/ HelloFails(c)
      PROVE  IInv'
  BY <1>1, FindKeeps, ReuseKeeps, StartKeeps, HelloAnsweredKeeps, HelloFailsKeeps
<1>2. ASSUME NEW p \in Procs, Exit(p) \/ OutputEnds(p) \/ Watch(p) \/ Forget(p)
      PROVE  IInv'
  BY <1>2, ExitKeeps, OutputEndsKeeps, WatchKeeps, ForgetKeeps
<1>3. ASSUME NEW o \in Stoppers, Begin(o) \/ Take(o) \/ Close(o)
      PROVE  IInv'
  BY <1>3, BeginKeeps, TakeKeeps, CloseKeeps
<1>4. CASE CheckIdle \/ Install
  BY <1>4, CheckIdleKeeps, InstallKeeps
<1>5. CASE UNCHANGED vars
  BY <1>5 DEF vars, entryVars, IInv, Typed, CallersPlaced, StoppersPlaced, WatchersPlaced,
    StartLocks, KnownOwned, StartedOwned, ClosingOwned, EndedStopped, RunningProcessHeld
<1> QED BY <1>1, <1>2, <1>3, <1>4, <1>5 DEF Next

\* Ownership holds in every reachable state.
THEOREM Invariance == Spec => []IInv
<1>1. Init => IInv
  BY InitKeeps
<1>2. IInv /\ [Next]_vars => IInv'
  BY Inductive
<1> QED BY <1>1, <1>2, PTL DEF Spec

\* At any time the lock of an entry is held by exactly one call, the one that
\* starts its process (bridge.go:112-135), and by none when nobody starts one.
THEOREM LockHeldByOneStart == Spec => []TypeOK
<1>1. IInv => TypeOK
  <2> SUFFICES ASSUME IInv PROVE TypeOK
    OBVIOUS
  <2>1. Typed /\ StartLocks
    BY DEF IInv
  <2>2. ASSUME NEW e \in Entries
        PROVE  Cardinality(Starting(e)) = IF lock[e] THEN 1 ELSE 0
    <3>1. CASE lock[e]
      <4>1. PICK c \in Callers : caller[c].at = "starting" /\ caller[c].entry = e
        BY <2>1, <3>1 DEF StartLocks
      <4>2. Starting(e) = {c}
        BY <2>1, <4>1 DEF Starting, StartLocks
      <4> QED BY <3>1, <4>2, FS_Singleton
    <3>2. CASE ~lock[e]
      <4>1. Starting(e) = {}
        BY <2>1, <3>2 DEF Starting, StartLocks
      <4> QED BY <3>2, <4>1, FS_EmptySet
    <3> QED BY <3>1, <3>2
  <2> QED BY <2>1, <2>2 DEF Typed, StartLocks, TypeOK
<1> QED BY <1>1, Invariance, PTL

\* A call that finds a process in the entry may use it: stop takes a process out
\* of the entry before it closes it (bridge.go:211-234).
THEOREM KnownIsUsable == Spec => []KnownProcessUsable
<1>1. IInv => KnownProcessUsable
  BY DEF IInv, KnownOwned, KnownProcessUsable
<1> QED BY <1>1, Invariance, PTL

\* No interleaving of calls, stops, reaps, removals, installations and crashes
\* loses a process that runs: somebody can still close it.
THEOREM NoProcessLost == Spec => []RunningProcessHeld
<1>1. IInv => RunningProcessHeld
  BY DEF IInv
<1> QED BY <1>1, Invariance, PTL
=============================================================================
