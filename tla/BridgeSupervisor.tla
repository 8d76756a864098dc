-------------------------- MODULE BridgeSupervisor ---------------------------
(***************************************************************************)
(* pkg/hub/bridge.go and the BridgeProcess of protocol.go: the hub's       *)
(* supervisor of one installed bridge.                                     *)
(*                                                                         *)
(* A call starts the bridge's process if there is none, holding the lock   *)
(* of the bridge's entry from the spawn to the answer to hello.  Stop,     *)
(* Reap and Uninstall find the entry under the supervisor's lock, take the *)
(* process from it under the entry's, and close it holding neither.  Each  *)
(* start leaves a watcher behind that forgets the process when its output  *)
(* ends.  What a call does with the process it acquired, and the events,   *)
(* change nothing here and are left out.                                   *)
(***************************************************************************)
EXTENDS Integers, FiniteSets

CONSTANTS Callers,     \* goroutines that call the bridge
          MaxInstalls, \* bound: times the bridge is installed
          MaxStarts    \* bound: processes started

ASSUME SupervisorAssumption == MaxInstalls \in Nat \ {0} /\ MaxStarts \in Nat

Entries == 1..MaxInstalls
Procs   == 1..MaxStarts
None    == 0
Stoppers == {"stop", "reap", "remove"}

VARIABLES
    installed, \* Supervisor.bridges[name], or None
    installs,  \* times it was installed so far
    process,   \* bridge.process of each entry, or None
    lock,      \* bridge.mu: held across a start
    proc,      \* each BridgeProcess and the process behind it
    caller,    \* each call in progress
    stopper,   \* each operation that stops the bridge
    watcher    \* the watch goroutine of each start

entryVars == <<installed, installs, process, lock>>
vars == <<entryVars, proc, caller, stopper, watcher>>

\* A process: whether it runs, whether Close was called, whether its output ended.
Unborn == [entry |-> None, runs |-> FALSE, closed |-> FALSE, ended |-> FALSE]
At(where, e, p) == [at |-> where, entry |-> e, proc |-> p]
Idle == At("idle", None, None)

Free(e) == ~lock[e]

Init ==
    /\ installed = 1 /\ installs = 1
    /\ process = [e \in Entries |-> None]
    /\ lock = [e \in Entries |-> FALSE]
    /\ proc = [p \in Procs |-> Unborn]
    /\ caller = [c \in Callers |-> Idle]
    /\ stopper = [o \in Stoppers |-> Idle]
    /\ watcher = [p \in Procs |-> Idle]

------------------------------------------------------------------------------
(* Calls.                                                                  *)

Find(c) ==
    /\ caller[c] = Idle
    /\ installed # None
    /\ caller' = [caller EXCEPT ![c] = At("queued", installed, None)]
    /\ UNCHANGED <<entryVars, proc, stopper, watcher>>

\* acquire, with a process in the entry; and with none, when the call spawns
\* one and keeps the lock, or the command cannot be started.  A call that has
\* its process is over for the supervisor.
Reuse(c) ==
    LET e == caller[c].entry IN
    /\ caller[c].at = "queued" /\ Free(e)
    /\ process[e] # None
    /\ caller' = [caller EXCEPT ![c] = Idle]
    /\ UNCHANGED <<entryVars, proc, stopper, watcher>>

MutStartable(e) == Free(e)
Startable(e) == Free(e) /\ process[e] = None
Start(c) ==
    LET e == caller[c].entry IN
    /\ caller[c].at = "queued" /\ Startable(e)
    /\ \/ \E p \in Procs :
            /\ proc[p] = Unborn /\ (p > 1 => proc[p - 1] # Unborn)
            /\ proc' = [proc EXCEPT ![p] = [Unborn EXCEPT !.entry = e, !.runs = TRUE]]
            /\ lock' = [lock EXCEPT ![e] = TRUE]
            /\ caller' = [caller EXCEPT ![c] = At("starting", e, p)]
       \/ /\ caller' = [caller EXCEPT ![c] = Idle]
          /\ UNCHANGED <<proc, lock>>
    /\ UNCHANGED <<installed, installs, process, stopper, watcher>>

HelloAnswered(c) ==
    LET e == caller[c].entry
        p == caller[c].proc
    IN  /\ caller[c].at = "starting" /\ ~proc[p].ended
        /\ process' = [process EXCEPT ![e] = p]
        /\ lock' = [lock EXCEPT ![e] = FALSE]
        /\ watcher' = [watcher EXCEPT ![p] = At("reading", e, None)]
        /\ caller' = [caller EXCEPT ![c] = Idle]
        /\ UNCHANGED <<installed, installs, proc, stopper>>

\* No answer in ten seconds, or the process ended: it is killed and closed.
Killed(p) == [proc EXCEPT ![p].runs = FALSE, ![p].closed = TRUE]
GiveUp(c) == caller[c].at = "starting" /\ caller' = [caller EXCEPT ![c] = Idle]
Unlock(e) == lock' = [lock EXCEPT ![e] = FALSE]

MutHelloFails(c) ==
    /\ GiveUp(c) /\ proc' = Killed(caller[c].proc)
    /\ UNCHANGED <<entryVars, stopper, watcher>>
HelloFails(c) ==
    /\ GiveUp(c) /\ proc' = Killed(caller[c].proc) /\ Unlock(caller[c].entry)
    /\ UNCHANGED <<installed, installs, process, stopper, watcher>>

------------------------------------------------------------------------------
(* The process and its watcher.                                            *)

\* It dies, obeys the end of its input, or is killed for unreadable output.
Exit(p) ==
    /\ proc[p].runs
    /\ proc' = [proc EXCEPT ![p].runs = FALSE]
    /\ UNCHANGED <<entryVars, caller, stopper, watcher>>

OutputEnds(p) ==
    /\ proc[p] # Unborn /\ ~proc[p].runs /\ ~proc[p].ended
    /\ proc' = [proc EXCEPT ![p].ended = TRUE]
    /\ UNCHANGED <<entryVars, caller, stopper, watcher>>

\* The watcher of a start reads the process when it gets the lock, which may be
\* after a stop, or after a stop and another start.
Watch(p) ==
    LET e == watcher[p].entry IN
    /\ watcher[p].at = "reading" /\ Free(e)
    /\ watcher' = [watcher EXCEPT ![p] =
           IF process[e] = None THEN Idle ELSE At("watching", e, process[e])]
    /\ UNCHANGED <<entryVars, proc, caller, stopper>>

MutClear(e, p) == UNCHANGED process
Clear(e, p) == process' = [process EXCEPT ![e] = IF @ = p THEN None ELSE @]

Forget(p) ==
    LET w == watcher[p] IN
    /\ w.at = "watching" /\ proc[w.proc].ended /\ Free(w.entry)
    /\ Clear(w.entry, w.proc)
    /\ watcher' = [watcher EXCEPT ![p] = Idle]
    /\ UNCHANGED <<installed, installs, lock, proc, caller, stopper>>

------------------------------------------------------------------------------
(* Stopping, removing, installing.                                         *)

\* Stop (and StopAll) keep the entry, Uninstall forgets it, Reap looks whether
\* it is idle before it stops it.
First(o) == IF o = "reap" THEN "checking" ELSE "taking"
Begin(o) ==
    /\ stopper[o] = Idle
    /\ installed # None
    /\ stopper' = [stopper EXCEPT ![o] = At(First(o), installed, None)]
    /\ installed' = IF o = "remove" THEN None ELSE installed
    /\ UNCHANGED <<installs, process, lock, proc, caller, watcher>>

CheckIdle ==
    LET e == stopper["reap"].entry IN
    /\ stopper["reap"].at = "checking" /\ Free(e)
    /\ \/ stopper' = [stopper EXCEPT !["reap"] = Idle]
       \/ process[e] # None /\ stopper' = [stopper EXCEPT !["reap"].at = "taking"]
    /\ UNCHANGED <<entryVars, proc, caller, watcher>>

\* bridge.stop: the process is forgotten first and closed after.
MutForgetTaken(e) == UNCHANGED process
ForgetTaken(e) == process' = [process EXCEPT ![e] = None]

Take(o) ==
    LET e == stopper[o].entry IN
    /\ stopper[o].at = "taking" /\ Free(e)
    /\ ForgetTaken(e)
    /\ stopper' = [stopper EXCEPT ![o] =
           IF process[e] = None THEN Idle ELSE At("closing", e, process[e])]
    /\ UNCHANGED <<installed, installs, lock, proc, caller, watcher>>

\* BridgeProcess.Close; it waits for the end of the output, or three seconds.
Close(o) ==
    /\ stopper[o].at = "closing"
    /\ proc' = [proc EXCEPT ![stopper[o].proc].closed = TRUE]
    /\ stopper' = [stopper EXCEPT ![o] = Idle]
    /\ UNCHANGED <<entryVars, caller, watcher>>

\* Supervisor.add: whatever was installed under the name is replaced.
Install ==
    /\ installs < MaxInstalls
    /\ installs' = installs + 1
    /\ installed' = installs'
    /\ UNCHANGED <<process, lock, proc, caller, stopper, watcher>>

Next ==
    \/ \E c \in Callers : Find(c) \/ Reuse(c) \/ Start(c) \/ HelloAnswered(c) \/ HelloFails(c)
    \/ \E p \in Procs : Exit(p) \/ OutputEnds(p) \/ Watch(p) \/ Forget(p)
    \/ \E o \in Stoppers : Begin(o) \/ Take(o) \/ Close(o)
    \/ CheckIdle \/ Install

\* Watchers go on, and hello is bounded by a timer.  A watcher waits for the
\* entry's lock no longer than for the starts before it, which are bounded.
Fairness ==
    /\ \A c \in Callers : WF_vars(HelloAnswered(c) \/ HelloFails(c))
    /\ \A p \in Procs : WF_vars(Watch(p) \/ Forget(p))

Spec == Init /\ [][Next]_vars /\ Fairness

------------------------------------------------------------------------------
Starting(e) == {c \in Callers : caller[c].at = "starting" /\ caller[c].entry = e}

\* The shape of the state; the lock is held by exactly the call that starts.
TypeOK ==
    /\ installed \in Entries \cup {None} /\ installs \in 0..MaxInstalls
    /\ process \in [Entries -> Procs \cup {None}]
    /\ \A e \in Entries : Cardinality(Starting(e)) = IF lock[e] THEN 1 ELSE 0
    /\ \A e \in Entries : lock[e] => process[e] = None

\* A process the entry knows is one nobody closed: a call that finds it there
\* may use it, and Status does not report a stopped bridge as running.
KnownProcessUsable == \A e \in Entries : process[e] # None => ~proc[process[e]].closed

\* No process is lost: one that runs and was not closed is in its entry, or in
\* the hands of the call that starts it or of an operation about to close it.
RunningProcessHeld ==
    \A p \in Procs : proc[p].runs /\ ~proc[p].closed =>
        \/ process[proc[p].entry] = p
        \/ \E c \in Callers : caller[c].at = "starting" /\ caller[c].proc = p
        \/ \E o \in Stoppers : stopper[o].at = "closing" /\ stopper[o].proc = p

\* A process that died is forgotten, so that the next call starts another: the
\* watchers see to it however they were overtaken by stops and starts.
DeadForgotten == \A p \in Procs : proc[p].ended ~> \A e \in Entries : process[e] # p

\* docs/hub.md: uninstall stops the bridge.  When it has returned and nothing
\* is installed, no process of the bridge is left open.
UninstallStops ==
    (installed = None /\ stopper["remove"] = Idle) =>
        \A p \in Procs : proc[p].runs => proc[p].closed \/ Starting(proc[p].entry) # {}
==============================================================================
