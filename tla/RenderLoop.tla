---------------------------- MODULE RenderLoop ----------------------------
(***************************************************************************)
(* When a frame is drawn (internal/tui/base.go, scheduler.go): any          *)
(* goroutine asks for a frame; requests are coalesced by a flag, throttled  *)
(* by a timer that an urgent request cancels, and drawn by the one          *)
(* goroutine that runs every callback.  Stopping drops what is queued and   *)
(* waits for that goroutine before the terminal is given back.  A timer     *)
(* that fired cannot be cancelled any more: its callback is in the queue.   *)
(***************************************************************************)
EXTENDS Naturals, Sequences

CONSTANTS Requesters,           \* goroutines that ask for frames
          MaxTimers, MaxQueue   \* bounds: timers at a time, callbacks in the queue

ASSUME RenderAssumption == MaxTimers \in Nat /\ MaxQueue \in Nat

VARIABLES
  requested, immediate, \* renderRequested, immediateRenderScheduled
  armed, handle,        \* timers that did not fire; renderTimer (0: nil)
  callbacks, loopStopped,   \* loopScheduler: queue, stopped
  doing,                \* what its goroutine is at
  asking,               \* a requester set the flag and is about to Defer
  stopping,             \* "no", "marked" (base stopped), "waiting", "done" (terminal given back)
  stale,                \* something changed since the last frame began
  gaveUp                \* the wait for the loop timed out

renderVars == <<requested, immediate, armed, handle, callbacks, loopStopped, doing, asking, stopping, stale, gaveUp>>

Timers == 1..MaxTimers
Callbacks == {"schedule", "immediate", "fired", "input"}
stopped == stopping # "no"

RenderTypeOK ==
  /\ requested \in BOOLEAN /\ immediate \in BOOLEAN /\ armed \subseteq Timers /\ handle \in 0..MaxTimers
  /\ callbacks \in Seq(Callbacks) /\ loopStopped \in BOOLEAN
  /\ doing \in Callbacks \cup {"nothing", "render", "draw", "renderTimed", "drawTimed", "recheck", "exited"}
  /\ asking \in [Requesters -> {"no", "schedule", "immediate"}]
  /\ stopping \in {"no", "marked", "waiting", "done"} /\ stale \in BOOLEAN /\ gaveUp \in BOOLEAN

RenderInit ==
  /\ requested = FALSE /\ immediate = FALSE /\ armed = {} /\ handle = 0
  /\ callbacks = <<>> /\ loopStopped = FALSE /\ doing = "nothing"
  /\ asking = [r \in Requesters |-> "no"] /\ stopping = "no" /\ stale = FALSE /\ gaveUp = FALSE

----------------------------------------------------------------------------
(* Requests.  The flag and the timer change under renderMu, the Defer       *)
(* follows without it.                                                      *)
cancelRenderTimer == armed' = armed \ {handle} /\ handle' = 0

RequestRender(r) ==
  /\ asking[r] = "no"
  /\ stale' = TRUE /\ requested' = TRUE
  /\ asking' = [asking EXCEPT ![r] = IF requested THEN "no" ELSE "schedule"]
  /\ UNCHANGED <<immediate, armed, handle, callbacks, loopStopped, doing, stopping, gaveUp>>

requestImmediateRender(r) ==
  /\ asking[r] = "no"
  /\ stale' = TRUE /\ requested' = TRUE /\ immediate' = TRUE
  /\ cancelRenderTimer
  /\ asking' = [asking EXCEPT ![r] = IF immediate THEN "no" ELSE "immediate"]
  /\ UNCHANGED <<callbacks, loopStopped, doing, stopping, gaveUp>>

(* Defer drops what comes after the loop was stopped.                       *)
Queued(c) == callbacks' = IF loopStopped THEN callbacks ELSE Append(callbacks, c)

Defer(r) ==
  /\ asking[r] # "no" /\ Len(callbacks) < MaxQueue
  /\ Queued(asking[r])
  /\ asking' = [asking EXCEPT ![r] = "no"]
  /\ UNCHANGED <<requested, immediate, armed, handle, loopStopped, doing, stopping, stale, gaveUp>>

(* AfterFunc's timer, and the terminal's reader, which posts its input.     *)
Fire(i) ==
  /\ i \in armed /\ Len(callbacks) < MaxQueue
  /\ armed' = armed \ {i}
  /\ Queued("fired")
  /\ UNCHANGED <<requested, immediate, handle, loopStopped, doing, asking, stopping, stale, gaveUp>>

PostInput ==
  /\ Len(callbacks) < MaxQueue
  /\ Queued("input")
  /\ UNCHANGED <<requested, immediate, armed, handle, loopStopped, doing, asking, stopping, stale, gaveUp>>

----------------------------------------------------------------------------
(* The loop's goroutine, one callback at a time.                            *)
runLoop ==
  /\ doing = "nothing"
  /\ IF loopStopped THEN doing' = "exited" /\ UNCHANGED callbacks
                    ELSE callbacks # <<>> /\ doing' = Head(callbacks) /\ callbacks' = Tail(callbacks)
  /\ UNCHANGED <<requested, immediate, armed, handle, loopStopped, asking, stopping, stale, gaveUp>>

Rest == UNCHANGED <<callbacks, loopStopped, asking, stopping, stale, gaveUp>>

scheduleRender ==
  IF stopped \/ handle # 0 \/ ~requested THEN UNCHANGED <<armed, handle>>
  ELSE \E i \in Timers \ armed : armed' = armed \cup {i} /\ handle' = i

Schedule ==
  /\ doing \in {"schedule", "recheck"}
  /\ scheduleRender
  /\ doing' = "nothing"
  /\ UNCHANGED <<requested, immediate>> /\ Rest

Immediate ==
  /\ doing = "immediate"
  /\ immediate' = FALSE
  /\ IF stopped \/ ~requested THEN doing' = "nothing" /\ UNCHANGED <<requested, armed, handle>>
     ELSE cancelRenderTimer /\ requested' = FALSE /\ doing' = "render"
  /\ Rest

MutFired ==
  /\ doing = "fired"
  /\ UNCHANGED handle
  /\ IF stopped \/ ~requested THEN doing' = "nothing" /\ UNCHANGED requested
     ELSE requested' = FALSE /\ doing' = "renderTimed"
  /\ UNCHANGED <<immediate, armed>> /\ Rest
Fired ==
  /\ doing = "fired"
  /\ handle' = 0
  /\ IF stopped \/ ~requested THEN doing' = "nothing" /\ UNCHANGED requested
     ELSE requested' = FALSE /\ doing' = "renderTimed"
  /\ UNCHANGED <<immediate, armed>> /\ Rest

(* doRender: a stopped interface draws nothing; a frame shows every change  *)
(* made before it began.                                                    *)
BeginFrame ==
  /\ doing \in {"render", "renderTimed"}
  /\ doing' = IF stopped THEN IF doing = "render" THEN "nothing" ELSE "recheck"
              ELSE IF doing = "render" THEN "draw" ELSE "drawTimed"
  /\ stale' = (stale /\ stopped)
  /\ UNCHANGED <<requested, immediate, armed, handle, callbacks, loopStopped, asking, stopping, gaveUp>>

Drawn ==
  /\ doing \in {"draw", "drawTimed"}
  /\ doing' = IF doing = "draw" THEN "nothing" ELSE "recheck"
  /\ UNCHANGED <<requested, immediate, armed, handle>> /\ Rest

(* An input changes a component and asks for an urgent frame, from the loop *)
(* itself: the Defer is part of the callback.                               *)
Input ==
  /\ doing = "input" /\ Len(callbacks) < MaxQueue
  /\ stale' = TRUE /\ requested' = TRUE /\ immediate' = TRUE
  /\ cancelRenderTimer
  /\ IF immediate THEN UNCHANGED callbacks ELSE Queued("immediate")
  /\ doing' = "nothing"
  /\ UNCHANGED <<loopStopped, asking, stopping, gaveUp>>

----------------------------------------------------------------------------
(* Stop, from another goroutine or from an input's callback.                *)
StopBase ==
  /\ stopping = "no"
  /\ stopping' = "marked"
  /\ cancelRenderTimer
  /\ UNCHANGED <<requested, immediate, callbacks, loopStopped, doing, asking, stale, gaveUp>>

StopLoop ==
  /\ stopping = "marked"
  /\ loopStopped' = TRUE /\ callbacks' = <<>>
  /\ stopping' = "waiting"
  /\ UNCHANGED <<requested, immediate, armed, handle, doing, asking, stale, gaveUp>>

(* The loop does not wait for itself, and nobody waits more than 2 s.       *)
TornDown ==
  /\ stopping = "waiting"
  /\ gaveUp' = (doing \notin {"exited", "input"})
  /\ stopping' = "done"
  /\ UNCHANGED <<requested, immediate, armed, handle, callbacks, loopStopped, doing, asking, stale>>

RenderNext ==
  \/ PostInput \/ runLoop \/ Schedule \/ Immediate \/ Fired \/ BeginFrame \/ Drawn \/ Input
  \/ StopBase \/ StopLoop \/ TornDown
  \/ \E r \in Requesters : RequestRender(r) \/ requestImmediateRender(r) \/ Defer(r)
  \/ \E i \in Timers : Fire(i)

RenderSpec == RenderInit /\ [][RenderNext]_renderVars

----------------------------------------------------------------------------
(* A change is never left undrawn: while a frame did not begin after it,    *)
(* something that will draw one exists, whatever timers were cancelled too  *)
(* late, fired twice or were lost, and whichever request found the flag     *)
(* already set.                                                             *)
ChangeDrawn ==
  stale /\ ~stopped =>
    \/ doing \in {"render", "renderTimed"}
    \/ /\ requested
       /\ \/ \E r \in Requesters : asking[r] # "no"
          \/ \E i \in 1..Len(callbacks) : callbacks[i] \in {"schedule", "immediate", "fired"}
          \/ doing \in {"schedule", "immediate", "fired", "drawTimed", "recheck"} \/ armed # {}

(* Nothing is drawn on a terminal that was given back, unless the frame     *)
(* took more than the 2 s that Stop waits for it.                           *)
QuietWhenStopped == stopping = "done" /\ ~gaveUp => doing \notin {"draw", "drawTimed"}

(* A change is drawn, and nothing is once the terminal was given back.      *)
FramesKept == ChangeDrawn /\ QuietWhenStopped
=============================================================================
