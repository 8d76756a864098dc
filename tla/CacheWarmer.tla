---------------------------- MODULE CacheWarmer ----------------------------
(***************************************************************************)
(* The cache warmer (pkg/agent/cache_warmer.go): after an answer it keeps   *)
(* the provider's prompt cache warm by repeating the request with one       *)
(* token, from a timer's goroutine, until the next request, the end of the  *)
(* run, a change of the session or a deadline.                              *)
(*                                                                          *)
(* Every critical section is an action.  A refresh is a goroutine that      *)
(* waits for the lock, calls the provider without it, and takes the lock    *)
(* again; the serial it was scheduled with tells it whether it is stale.    *)
(* Its environment is a run (loop.go) and the chat that owns the warmer.    *)
(***************************************************************************)
EXTENDS Naturals

CONSTANTS MaxRefreshes,  \* bound: refresh goroutines that a timer may start
          MaxSerial      \* bound: steps that make earlier refreshes stale

ASSUME WarmerAssumption == MaxRefreshes \in Nat /\ MaxSerial \in Nat

VARIABLES
  timer,     \* w.timer: "none", "armed", or "fired" (set, its function running)
  scheduled, \* the serial the timer's function was given
  cancel,    \* w.cancel: the refresh it would cancel, 0 for nil
  serial,    \* w.serial
  closed,    \* w.closed
  idle,      \* w.phase = CacheWarmingIdle
  refresh,   \* per goroutine its point in refresh()
  given,     \* per goroutine the serial it was started with
  live,      \* the goroutines whose context is not cancelled
  loop,      \* per run of the loop: "none", "between" requests, "streaming" one
  superseded  \* an abandoned run scheduled a refresh beside the current request

warmerVars == <<timer, scheduled, cancel, serial, closed, idle, refresh, given, live, loop, superseded>>

Refreshes == 1..MaxRefreshes

\* The chat's run, and one it abandoned after a cancellation and that goes on.
Loops == {"current", "abandoned"}

WarmerTypeOK ==
  /\ timer \in {"none", "armed", "fired"}
  /\ scheduled \in Nat /\ serial \in Nat
  /\ cancel \in Refreshes \cup {0}
  /\ closed \in BOOLEAN /\ idle \in BOOLEAN
  /\ refresh \in [Refreshes -> {"unborn", "fired", "calling", "done"}]
  /\ given \in [Refreshes -> Nat]
  /\ live \in SUBSET Refreshes
  /\ loop \in [Loops -> {"none", "between", "streaming"}]
  /\ superseded \in BOOLEAN

WarmerInit ==
  /\ timer = "none" /\ scheduled = 0 /\ cancel = 0 /\ serial = 0
  /\ closed = FALSE /\ idle = FALSE
  /\ refresh = [r \in Refreshes |-> "unborn"]
  /\ given = [r \in Refreshes |-> 0]
  /\ live = {}
  /\ loop = [l \in Loops |-> "none"]
  /\ superseded = FALSE

----------------------------------------------------------------------------
\* stopLocked: the timer no longer fires, the refresh in flight is cancelled.
stopLocked == timer' = "none" /\ cancel' = 0 /\ live' = live \ {cancel}

\* Stop and the serial++ of settle and Close: what was scheduled is stale.
Invalidate == serial < MaxSerial /\ serial' = serial + 1 /\ stopLocked

\* scheduleLocked with nothing in flight: armed for this serial, unless the
\* request's deadline comes first.
scheduleFresh(s) ==
  \/ timer' = "armed" /\ scheduled' = s
  \/ timer' = "none" /\ UNCHANGED scheduled

Goroutines == <<refresh, given>>

----------------------------------------------------------------------------
(* The loop: streamAssistant stops the warmer before each request, offers   *)
(* it the answer's prefix after it, and the run's end settles it.           *)

BeginRequest ==
  /\ loop["current"] # "streaming" /\ ~closed
  /\ loop' = [loop EXCEPT !["current"] = "streaming"]
  /\ Invalidate
  /\ superseded' = FALSE
  /\ UNCHANGED <<scheduled, closed, idle, Goroutines>>

\* A cancelled run whose loop does not return is left behind (chat's forward).
Abandon ==
  /\ loop["current"] # "none" /\ loop["abandoned"] = "none"
  /\ loop' = [current |-> "none", abandoned |-> loop["current"]]
  /\ UNCHANGED <<timer, scheduled, cancel, serial, closed, idle, Goroutines, live, superseded>>

\* startCacheWarming after a failed or aborted answer.
RequestFails(l) ==
  /\ loop[l] = "streaming"
  /\ loop' = [loop EXCEPT ![l] = "between"]
  /\ UNCHANGED <<timer, scheduled, cancel, serial, closed, idle, Goroutines, live, superseded>>

\* start with warming off, or a model whose thinking would be paid again.
NotWarmed(l) ==
  /\ loop[l] = "streaming"
  /\ loop' = [loop EXCEPT ![l] = "between"]
  /\ Invalidate
  /\ UNCHANGED <<scheduled, closed, idle, Goroutines, superseded>>

\* start otherwise: stopLocked, then scheduling unless closed or not worth it.
start(l) ==
  /\ loop[l] = "streaming"
  /\ loop' = [loop EXCEPT ![l] = "between"]
  /\ \/ stopLocked /\ UNCHANGED <<scheduled, serial, idle, superseded>>
     \/ /\ ~closed /\ serial < MaxSerial
        /\ serial' = serial + 1
        /\ idle' = FALSE
        /\ cancel' = 0 /\ live' = live \ {cancel}
        /\ scheduleFresh(serial + 1)
        /\ superseded' = (superseded \/ loop'["current"] = "streaming")
  /\ UNCHANGED <<closed, Goroutines>>

\* The deferred settle: idle warming goes on only with a timer to go on from.
settle(l) ==
  /\ loop[l] = "between"
  /\ loop' = [loop EXCEPT ![l] = "none"]
  /\ \/ Invalidate /\ UNCHANGED idle
     \/ /\ ~closed /\ timer # "none"
        /\ idle' = TRUE
        /\ UNCHANGED <<timer, cancel, serial, live>>
  /\ UNCHANGED <<scheduled, closed, Goroutines, superseded>>

----------------------------------------------------------------------------
(* The owner: SetModel, SetProfile and SwitchSession stop an idle warmer;   *)
(* SetRuntime, a failover and the end of a run with a warmer of its own     *)
(* close it.                                                                *)

Stop ==
  /\ loop["current"] = "none"
  /\ Invalidate
  /\ UNCHANGED <<scheduled, closed, idle, Goroutines, loop, superseded>>

Close ==
  /\ loop["current"] # "streaming" /\ ~closed
  /\ closed' = TRUE
  /\ Invalidate
  /\ UNCHANGED <<scheduled, idle, Goroutines, loop, superseded>>

----------------------------------------------------------------------------
(* The refresh goroutine.                                                   *)

\* The timer's function starts; it has to wait for the lock.
Fire(r) ==
  /\ timer = "armed" /\ refresh[r] = "unborn"
  /\ timer' = "fired"
  /\ refresh' = [refresh EXCEPT ![r] = "fired"]
  /\ given' = [given EXCEPT ![r] = scheduled]
  /\ UNCHANGED <<scheduled, cancel, serial, closed, idle, live, loop, superseded>>

MutCurrent(r) == ~closed
Current(r) == ~closed /\ given[r] = serial

Stale(r) ==
  /\ refresh[r] \in {"fired", "calling"} /\ ~Current(r)
  /\ refresh' = [refresh EXCEPT ![r] = "done"]
  /\ live' = live \ {r}
  /\ UNCHANGED <<timer, scheduled, cancel, serial, closed, idle, given, loop, superseded>>

Call(r) ==
  /\ refresh[r] = "fired" /\ Current(r)
  /\ refresh' = [refresh EXCEPT ![r] = "calling"]
  /\ cancel' = r /\ live' = live \cup {r}
  /\ timer' = "none"
  /\ UNCHANGED <<scheduled, serial, closed, idle, given, loop, superseded>>

\* A refresh that idleness no longer makes worthwhile.
Refuse(r) ==
  /\ refresh[r] = "fired" /\ Current(r) /\ idle
  /\ refresh' = [refresh EXCEPT ![r] = "done"]
  /\ stopLocked
  /\ UNCHANGED <<scheduled, serial, closed, idle, given, loop, superseded>>

\* The answer came, the context is released, and the next one is scheduled.
Reschedule(r) ==
  /\ refresh[r] = "calling" /\ Current(r)
  /\ refresh' = [refresh EXCEPT ![r] = "done"]
  /\ cancel' = 0 /\ live' = live \ {r}
  /\ scheduleFresh(serial)
  /\ UNCHANGED <<serial, closed, idle, given, loop, superseded>>

WarmerNext ==
  \/ BeginRequest \/ Abandon \/ Stop \/ Close
  \/ \E l \in Loops : RequestFails(l) \/ NotWarmed(l) \/ start(l) \/ settle(l)
  \/ \E r \in Refreshes : Fire(r) \/ Stale(r) \/ Call(r) \/ Refuse(r) \/ Reschedule(r)

WarmerSpec == WarmerInit /\ [][WarmerNext]_warmerVars

----------------------------------------------------------------------------
Calling == {r \in live : refresh[r] = "calling"}

\* "a model switch, new session, or new real request cancels the previous
\* refresh" (line 27): beside a request of the loop, and in a closed warmer,
\* nothing calls the provider, and nothing that a goroutine on its way to the
\* lock, or a timer, could do would call it.
QuietWhenReplaced ==
  (loop["current"] = "streaming" /\ ~superseded) \/ closed =>
    /\ Calling = {} /\ timer = "none"
    /\ \A r \in Refreshes : refresh[r] = "fired" => ~Current(r)

\* "CacheWarmer keeps only the latest provider prefix alive" (line 25): of the
\* armed timer and the goroutines that a stop did not make stale (scheduled at
\* line 135, fired, or calling) there is at most one, so no request is warmed
\* twice as often as paid for; and whatever calls the provider uncancelled is
\* what the next stop would cancel.  A refresh that clears the cancel function
\* of its successor, or re-arms after a stop, breaks it.
OneChain ==
  LET chain == {r \in Refreshes : refresh[r] \in {"fired", "calling"} /\ Current(r)}
  IN /\ \A q, r \in chain : q = r
     /\ timer = "armed" => chain = {}
     /\ Calling \subseteq {cancel}

\* The warmer does what it was last told, and once.
RefreshesAsTold == OneChain /\ QuietWhenReplaced
============================================================================
