---------------------------- MODULE PromptQueue ----------------------------
(***************************************************************************)
(* The prompts a user submits in the chat view (internal/tui/chat.go): a    *)
(* prompt starts a run or a shell command when the view is idle, and waits  *)
(* in the queue when it is busy; the end of a run takes the next one and    *)
(* starts it from a timer; escape and undo hold the queue; the steer key    *)
(* sends a prompt into the run; an undo and a compaction rebuild the rows   *)
(* of the transcript.  The interface's thread, the timers, the goroutines   *)
(* that consume a run or wait for a shell and the compaction meet at the    *)
(* view's lock, and the session behind it (internal/chat) admits one run at *)
(* a time.  Left out: the editing of a queued prompt, an empty command, the *)
(* switch to another session and the view's closing.                        *)
(***************************************************************************)
EXTENDS Naturals, Sequences, SequencesExt

CONSTANTS Prompts, \* what the user types, each submitted once
          Shells,  \* those that are shell commands ("!...")
          None

ASSUME PromptAssumption == Shells \subseteq Prompts /\ None \notin Prompts

VARIABLES
  fresh,       \* prompts not submitted yet
  queue, held, \* c.queue, c.queueHeld
  dispatching, \* c.queueDispatching
  busy,        \* c.busy
  active,      \* the prompt whose block c.active is, or None
  reverting,   \* c.reverting
  shellCancel, \* c.shellCancel is set
  shells,      \* shell commands that run
  beside,      \* those started beside a run
  moved,       \* those whose row a rebuild moved away from their index
  timers,      \* prompts to be dispatched: in 50 ms, or by the interface's thread (typing)
  starting,    \* prompts that start showed and the session did not answer for
  steering,    \* the prompt being steered, or None
  rowGone,     \* its row was rebuilt away
  typing,      \* the prompt the interface's thread is inside a start or a steer of, or None
  rebuild,     \* an undo's or a compaction's new transcript on its way, with SetTranscript's copies
  run,         \* the session's run, or None
  over,        \* runs whose end is in the event stream
  consumers,   \* runs whose consumer did not reach finishRun
  sent,        \* prompts delivered, as a run, a steer or a shell command, and not brought back
  returned,    \* prompts put back in the editor
  dropped,     \* prompts that are gone
  rewritten,   \* prompts that a rebuild's copy of the queue put back or left out
  stalled,     \* why nobody takes the next prompt since the last start, or "no"
  crossed      \* a start met a busy view, or a rebuild changed a run or the queue

waiting == <<queue, held, dispatching>>
view == <<busy, active, reverting>>
commands == <<shellCancel, shells, beside, moved>>
steer == <<steering, rowGone>>
session == <<run, over, consumers>>
settled == <<returned, dropped>>
history == <<rewritten, stalled, crossed>>
queueVars == <<fresh, waiting, view, commands, timers, starting, steer, typing, rebuild, session, sent, settled, history>>

OrNone == Prompts \cup {None}
Reasons == {"no", "undone", "row", "model", "refused", "steered"}

QueueTypeOK ==
  /\ queue \in Seq(Prompts) /\ {active, steering, run, typing} \subseteq OrNone
  /\ beside \cup moved \subseteq shells /\ shells \subseteq Shells
  /\ \A s \in {fresh, timers, starting, over, consumers, sent, returned, dropped, rewritten} : s \subseteq Prompts
  /\ {held, dispatching, busy, reverting, shellCancel, rowGone, crossed} \subseteq BOOLEAN
  /\ rebuild.by \in {"none", "view", "run", "compact"} /\ rebuild.at \in {"asked", "copied"}
  /\ rebuild.queue \in Seq(Prompts) /\ rebuild.held \in BOOLEAN
  /\ stalled \in Reasons

NoRebuild == [by |-> "none", at |-> "asked", queue |-> <<>>, held |-> FALSE]

QueueInit ==
  /\ fresh = Prompts /\ queue = <<>> /\ held = FALSE /\ dispatching = FALSE
  /\ busy = FALSE /\ active = None /\ reverting = FALSE
  /\ shellCancel = FALSE /\ shells = {} /\ beside = {} /\ moved = {}
  /\ timers = {} /\ starting = {} /\ steering = None /\ rowGone = FALSE /\ typing = None /\ rebuild = NoRebuild
  /\ run = None /\ over = {} /\ consumers = {}
  /\ sent = {} /\ returned = {} /\ dropped = {} /\ rewritten = {} /\ stalled = "no" /\ crossed = FALSE

(* The interface's thread is free; it is inside the start of p.             *)
Idle == typing = None /\ rebuild.by # "view"
Typed(p) == typing = p /\ ~dispatching /\ steering = None

----------------------------------------------------------------------------
(* dispatch and submit end in start or in startShell.  start shows the      *)
(* prompt and marks the view busy before the session is asked.              *)
Begin(p) ==
  /\ busy' = TRUE /\ stalled' = "no"
  /\ IF p \in Shells
     THEN /\ shells' = shells \cup {p} /\ shellCancel' = TRUE /\ active' = None /\ sent' = sent \cup {p}
          /\ UNCHANGED starting
     ELSE starting' = starting \cup {p} /\ active' = p /\ UNCHANGED <<shells, shellCancel, sent>>

(* The view is looked at and the start made in two critical sections.       *)
(* (Without a model the text stays in the editor.)                          *)
submit(p) ==
  /\ Idle /\ p \in fresh
  /\ fresh' = fresh \ {p} /\ held' = FALSE
  /\ IF busy THEN queue' = Append(queue, p) /\ UNCHANGED <<timers, typing>>
             ELSE timers' = timers \cup {p} /\ typing' = p /\ UNCHANGED queue
  /\ UNCHANGED <<dispatching, view, commands, starting, steer, rebuild, session, sent, settled, history>>

dispatch(p) ==
  /\ p \in timers
  /\ timers' = timers \ {p}
  /\ Begin(p)
  /\ typing' = IF Typed(p) /\ p \in Shells THEN None ELSE typing
  /\ crossed' = (crossed \/ busy)
  /\ UNCHANGED <<fresh, waiting, reverting, beside, moved, steer, rebuild, session, settled, rewritten>>

(* Without a provider or a model a prompt from the queue is given back.     *)
NoModel(p) ==
  /\ returned' = returned \cup {p} /\ stalled' = "model"

dispatchReturned(p) ==
  /\ p \in timers \ Shells /\ ~Typed(p)
  /\ timers' = timers \ {p} /\ NoModel(p)
  /\ UNCHANGED <<fresh, waiting, view, commands, starting, steer, typing, rebuild, session, sent, dropped,
                 rewritten, crossed>>

(* The session admits one run; its refusal makes failStart clear the view,  *)
(* whoever set it, and give the prompt back.                                *)
Alone(p) == busy /\ active = p /\ starting = {p} /\ consumers = {} /\ shells = {}
StartAccepted(p) ==
  /\ p \in starting /\ run = None
  /\ starting' = starting \ {p} /\ typing' = (IF Typed(p) THEN None ELSE typing)
  /\ run' = p /\ over' = over \ {p} /\ consumers' = consumers \cup {p} /\ sent' = sent \cup {p}
  /\ crossed' = (crossed /\ ~Alone(p))
  /\ UNCHANGED <<fresh, waiting, view, commands, timers, steer, rebuild, settled, rewritten, stalled>>

failStart(p) ==
  /\ p \in starting
  /\ starting' = starting \ {p} /\ typing' = (IF Typed(p) THEN None ELSE typing)
  /\ active' = None /\ busy' = FALSE /\ stalled' = "refused"
  /\ returned' = returned \cup {p}
  /\ UNCHANGED <<fresh, waiting, reverting, commands, timers, steer, rebuild, session, sent, dropped, rewritten,
                 crossed>>

----------------------------------------------------------------------------
(* The session: the run's end enters the stream, then the run is freed.     *)
RunOver ==
  /\ run \in consumers \ over
  /\ over' = over \cup {run}
  /\ UNCHANGED <<fresh, waiting, view, commands, timers, starting, steer, typing, rebuild, run, consumers, sent,
                 settled, history>>

RunFreed ==
  /\ run \in over
  /\ run' = None
  /\ UNCHANGED <<fresh, waiting, view, commands, timers, starting, steer, typing, rebuild, over, consumers, sent,
                 settled, history>>

(* What the end of a run or of a shell takes from the queue.                *)
Next1 == IF queue # <<>> /\ ~held /\ ~dispatching THEN {Head(queue)} ELSE {}
TakeNext == queue' = IF Next1 = {} THEN queue ELSE Tail(queue)

(* An undo or a compaction asks for a new transcript (bound: one at a time, *)
(* RebuildAsked waits for the last one).                                    *)
RebuildAsked(by) == rebuild.by = "none" /\ rebuild' = [NoRebuild EXCEPT !.by = by]

(* An undo that waited for the end goes on; what the end took from the      *)
(* queue is then not dispatched.                                            *)
RunEnds(p) ==
  /\ p \in consumers \cap over
  /\ consumers' = consumers \ {p}
  /\ IF ~busy THEN UNCHANGED <<view, timers, dropped, stalled, rebuild>>
     ELSE /\ busy' = FALSE /\ active' = None /\ reverting' = FALSE
          /\ IF reverting THEN /\ dropped' = dropped \cup Next1 /\ RebuildAsked("run") /\ UNCHANGED timers
                               /\ stalled' = IF Next1 = {} THEN stalled ELSE "undone"
                          ELSE timers' = timers \cup Next1 /\ UNCHANGED <<dropped, stalled, rebuild>>
  /\ UNCHANGED <<fresh, held, dispatching, commands, starting, steer, typing, run, over, sent, returned, rewritten,
                 crossed>>
MutFinishRun(p) == RunEnds(p) /\ UNCHANGED queue
finishRun(p) == RunEnds(p) /\ IF busy THEN TakeNext ELSE UNCHANGED queue

(* A command whose row is not at its index any more frees the view, but     *)
(* takes nothing from the queue.  The cancel function is the last command's,*)
(* and any command's end clears it.                                         *)
finishShell(p) ==
  /\ p \in shells
  /\ shellCancel' = FALSE /\ shells' = shells \ {p} /\ beside' = beside \ {p} /\ moved' = moved \ {p}
  /\ \/ /\ p \in beside
        /\ UNCHANGED <<queue, busy, active, timers, stalled>>
     \/ /\ p \in moved \ beside
        /\ busy' = FALSE /\ stalled' = "row" /\ UNCHANGED <<queue, active, timers>>
     \/ /\ p \notin moved \cup beside
        /\ busy' = FALSE /\ active' = None /\ TakeNext /\ timers' = timers \cup Next1 /\ UNCHANGED stalled
  /\ UNCHANGED <<fresh, held, dispatching, reverting, starting, steer, typing, rebuild, session, sent, settled,
                 rewritten, crossed>>

----------------------------------------------------------------------------
(* Escape and /undo: both hold the queue of a busy view and stop the run.   *)
(* The end of the run goes on with the undo; with no run to stop, it goes   *)
(* on at once (the flag and Abort's answer are one step here).              *)
escape ==
  /\ Idle /\ busy /\ ~held
  /\ held' = TRUE
  /\ UNCHANGED <<fresh, queue, dispatching, view, commands, timers, starting, steer, typing, rebuild, session, sent,
                 settled, history>>

undo ==
  /\ Idle
  /\ held' = (held \/ busy) /\ reverting' = (busy /\ run # None)
  /\ IF reverting' THEN UNCHANGED rebuild ELSE RebuildAsked("view")
  /\ UNCHANGED <<fresh, queue, dispatching, busy, active, commands, timers, starting, steer, typing, session, sent,
                 settled, history>>

compact ==
  /\ Idle /\ ~busy /\ RebuildAsked("compact")
  /\ UNCHANGED <<fresh, waiting, view, commands, timers, starting, steer, typing, session, sent, settled, history>>

(* There is nothing to undo or to compact, or the session refuses.          *)
NothingUndone ==
  /\ rebuild.by # "none" /\ rebuild.at = "asked"
  /\ rebuild' = NoRebuild
  /\ UNCHANGED <<fresh, waiting, view, commands, timers, starting, steer, typing, session, sent, settled, history>>

(* SetTranscript copies the queue under the lock, and SetSession writes the *)
(* copy under the lock again.                                               *)
SetTranscript ==
  /\ rebuild.by # "none" /\ rebuild.at = "asked"
  /\ rebuild' = [rebuild EXCEPT !.at = "copied", !.queue = queue, !.held = held]
  /\ UNCHANGED <<fresh, waiting, view, commands, timers, starting, steer, typing, session, sent, settled, history>>

(* Bounds: a prompt that the copy brings back is told apart by nothing from *)
(* the one that left, so it comes back once that one is through; and a copy *)
(* that differs waits while a shell command is on its way from the queue.   *)
BroughtBack == ToSet(rebuild.queue) \ ToSet(queue)
LeftOut == ToSet(queue) \ ToSet(rebuild.queue)
SetSession ==
  /\ rebuild.at = "copied"
  /\ BroughtBack \cap (timers \cup starting \cup consumers \cup shells \cup {steering, typing, run}) = {}
  /\ dispatching /\ steering = None => queue = rebuild.queue
  /\ rebuild' = NoRebuild
  /\ queue' = rebuild.queue /\ held' = rebuild.held /\ active' = None
  /\ moved' \in SUBSET shells
  /\ rowGone' = (steering # None)
  /\ sent' = sent \ BroughtBack /\ returned' = returned \ BroughtBack /\ dropped' = dropped \ BroughtBack
  /\ rewritten' = rewritten \cup BroughtBack \cup LeftOut
  /\ crossed' = (crossed \/ starting \cup consumers # {} \/ queue # rebuild.queue \/ held # rebuild.held)
  /\ UNCHANGED <<fresh, dispatching, busy, reverting, shellCancel, shells, beside, timers, starting, steering,
                 typing, session, stalled>>

----------------------------------------------------------------------------
(* The steer key with text in the editor: a shell command beside the run    *)
(* (or, if that ended since it was seen, in its place; the text stays in    *)
(* the editor while another command runs), or a message into the run, sent  *)
(* without the lock.                                                        *)
ParallelShell(p) ==
  /\ shells' = shells \cup {p} /\ shellCancel' = TRUE /\ sent' = sent \cup {p}
  /\ beside' = IF busy THEN beside \cup {p} ELSE beside
  /\ busy' = TRUE /\ active' = IF busy THEN active ELSE None
  /\ stalled' = IF busy THEN stalled ELSE "no"

steerShell(p) ==
  /\ Idle /\ busy /\ p \in fresh \cap Shells
  /\ typing' = p
  /\ UNCHANGED <<fresh, waiting, view, commands, timers, starting, steer, rebuild, session, sent, settled, history>>

steerShellStarts(p) ==
  /\ typing = p /\ p \in fresh \cap Shells
  /\ typing' = None
  /\ IF shellCancel THEN UNCHANGED <<fresh, shellCancel, shells, beside, busy, active, sent, stalled>>
                    ELSE fresh' = fresh \ {p} /\ ParallelShell(p)
  /\ UNCHANGED <<waiting, reverting, moved, timers, starting, steer, rebuild, session, settled, rewritten, crossed>>

steerTyped(p) ==
  /\ Idle /\ busy /\ p \in fresh \ Shells
  /\ fresh' = fresh \ {p} /\ steering' = p /\ rowGone' = FALSE /\ typing' = p
  /\ UNCHANGED <<waiting, view, commands, timers, starting, rebuild, session, sent, settled, history>>

(* The session takes a steer while its run can still answer it.             *)
steerTaken ==
  /\ steering \notin sent \cup {None}
  /\ run # None /\ run \notin over
  /\ sent' = sent \cup {steering}
  /\ UNCHANGED <<fresh, waiting, view, commands, timers, starting, steer, typing, rebuild, session, settled, history>>

(* A steer that the session refuses is submitted as if typed: put in the    *)
(* queue of a busy view, started by an idle one, or left in the editor      *)
(* without a model.  With its row gone it passes for taken, and the prompt  *)
(* is gone with it.                                                         *)
steerAnswered(p) ==
  /\ steering = p /\ ~dispatching
  /\ steering' = None /\ rowGone' = FALSE
  /\ \/ /\ p \in sent \/ rowGone
        /\ typing' = None /\ dropped' = dropped \cup ({p} \ sent)
        /\ UNCHANGED <<queue, held, timers, returned, stalled>>
     \/ /\ p \notin sent /\ ~rowGone
        /\ \/ busy /\ held' = FALSE /\ queue' = Append(queue, p) /\ typing' = None /\ UNCHANGED <<timers, returned, stalled>>
           \/ ~busy /\ held' = FALSE /\ timers' = timers \cup {p} /\ UNCHANGED <<queue, typing, returned, stalled>>
           \/ ~busy /\ NoModel(p) /\ typing' = None /\ UNCHANGED <<queue, held, timers>>
        /\ UNCHANGED dropped
  /\ UNCHANGED <<fresh, dispatching, view, commands, starting, rebuild, session, sent, rewritten, crossed>>

(* The steer key with an empty editor: the head of the queue.               *)
steerQueuedIdle ==
  /\ Idle /\ ~busy /\ queue # <<>>
  /\ queue' = Tail(queue) /\ held' = FALSE
  /\ \/ timers' = timers \cup {Head(queue)} /\ typing' = Head(queue) /\ UNCHANGED <<returned, stalled>>
     \/ Head(queue) \notin Shells /\ NoModel(Head(queue)) /\ UNCHANGED <<timers, typing>>
  /\ UNCHANGED <<fresh, dispatching, view, commands, starting, steer, rebuild, session, sent, dropped, rewritten,
                 crossed>>

steerQueuedShell ==
  /\ Idle /\ busy /\ queue # <<>> /\ Head(queue) \in Shells /\ ~shellCancel
  /\ dispatching' = TRUE /\ typing' = Head(queue)
  /\ UNCHANGED <<fresh, queue, held, view, commands, timers, starting, steer, rebuild, session, sent, settled, history>>

(* The run may end while the flag keeps its end from the queue.             *)
Undispatched == dispatching' = FALSE /\ typing' = None /\ stalled' = IF busy THEN stalled ELSE "steered"

startParallelShell(p) ==
  /\ typing = p /\ dispatching /\ steering = None /\ p \notin sent
  /\ IF shellCancel THEN Undispatched /\ UNCHANGED <<shellCancel, shells, beside, busy, active, sent>>
                    ELSE ParallelShell(p) /\ UNCHANGED <<dispatching, typing>>
  /\ UNCHANGED <<fresh, queue, held, reverting, moved, timers, starting, steer, rebuild, session, settled, rewritten,
                 crossed>>

(* It leaves the queue once it runs; nobody else takes from it meanwhile.   *)
dequeueShell(p) ==
  /\ typing = p /\ dispatching /\ steering = None /\ p \in sent
  /\ Undispatched
  /\ queue' = IF queue # <<>> /\ Head(queue) = p THEN Tail(queue) ELSE queue
  /\ UNCHANGED <<fresh, held, view, commands, timers, starting, steer, rebuild, session, sent, settled, rewritten,
                 crossed>>

steerQueued ==
  /\ Idle /\ busy /\ queue # <<>> /\ Head(queue) \notin Shells
  /\ queue' = Tail(queue) /\ dispatching' = TRUE
  /\ steering' = Head(queue) /\ rowGone' = FALSE /\ typing' = Head(queue)
  /\ UNCHANGED <<fresh, held, view, commands, timers, starting, rebuild, session, sent, settled, history>>

(* Refused, it goes back to the front while the view is busy, and starts a  *)
(* run of its own once the run it was for is gone.                          *)
steerQueuedAnswered(p) ==
  /\ steering = p /\ dispatching
  /\ steering' = None /\ rowGone' = FALSE
  /\ \/ /\ p \in sent \/ rowGone
        /\ Undispatched /\ dropped' = dropped \cup ({p} \ sent)
        /\ UNCHANGED <<queue, held, timers, returned>>
     \/ /\ p \notin sent /\ ~rowGone /\ busy
        /\ Undispatched /\ queue' = <<p>> \o queue
        /\ UNCHANGED <<held, timers, returned, dropped>>
     \/ /\ p \notin sent /\ ~rowGone /\ ~busy
        /\ held' = FALSE /\ dispatching' = FALSE
        /\ \/ timers' = timers \cup {p} /\ UNCHANGED <<typing, returned, stalled>>
           \/ NoModel(p) /\ typing' = None /\ UNCHANGED timers
        /\ UNCHANGED <<queue, dropped>>
  /\ UNCHANGED <<fresh, view, commands, starting, rebuild, session, sent, rewritten, crossed>>

QueueNext ==
  \/ \E p \in Prompts :
       submit(p) \/ dispatch(p) \/ dispatchReturned(p) \/ StartAccepted(p) \/ failStart(p) \/ finishRun(p)
       \/ finishShell(p) \/ steerShell(p) \/ steerShellStarts(p) \/ startParallelShell(p) \/ dequeueShell(p)
       \/ steerTyped(p) \/ steerAnswered(p) \/ steerQueuedAnswered(p)
  \/ RunOver \/ RunFreed \/ escape \/ undo \/ NothingUndone \/ SetTranscript \/ SetSession \/ compact
  \/ steerTaken \/ steerQueuedIdle \/ steerQueuedShell \/ steerQueued

QueueSpec == QueueInit /\ [][QueueNext]_queueVars

----------------------------------------------------------------------------
(* A submitted prompt is in exactly one place, and once: waiting in the     *)
(* queue, on its way to the session, delivered, back in the editor or gone. *)
(* The prompts that are gone are those that the end of an undone run took   *)
(* from a queue the user had filled again meanwhile (chat.go:1828, 1838)    *)
(* and a refused steer whose row was rebuilt away (chat.go:1004, 1085); and *)
(* a rebuild's old copy of the queue (SetTranscript, which is to re-render  *)
(* the conversation "while keeping the queue", chat.go:810) leaves out what *)
(* was queued since, and brings back what was delivered since.              *)
PromptKept ==
  LET Waiting == ToSet(queue) \ (IF dispatching /\ typing \in sent THEN {typing} ELSE {})  \* dequeueShell's
      Going == timers \cup starting \cup ({steering} \ (sent \cup {None}))
      Places == <<fresh, Waiting, Going, sent, returned, dropped>>
  IN /\ IsInjective(queue)
     /\ Prompts \subseteq (UNION Range(Places)) \cup rewritten
     /\ \A i, j \in 1..6 : i # j => Places[i] \cap Places[j] = {}

(* Someone takes the next prompt of a queue that is not held.               *)
Taken == queue # <<>> /\ ~held => busy \/ dispatching \/ timers \cup starting # {}

(* A busy view has a run or a command that frees it.  Until something       *)
(* crossed, it is busy as long as the session's run or a shell in its place *)
(* is, and shows that run; and a queue that is not held always moves:       *)
(* something is busy, or the next prompt is on its way.  A prompt submitted *)
(* in the 50 ms before a dispatch and a rebuild beside a run suspend this,  *)
(* until the next run that starts alone; the queue also stops, until the    *)
(* next start, after an undo's end took from it, a shell whose row is gone  *)
(* (chat.go:1482, though new work is to release the queue, chat.go:844), a  *)
(* start that the session refuses or that has no model, and a steer from    *)
(* the queue that the end of the run overtook.                              *)
QueueMoves ==
  /\ busy => starting \cup consumers \cup (shells \ beside) # {}
  /\ ~crossed => /\ run # None /\ run \in consumers => busy /\ active = run
                 /\ shells \ beside # {} => busy
                 /\ stalled = "no" => Taken

(* No prompt is lost or sent twice, and none waits for nothing              *)
(* (chat.go:1014).                                                          *)
QueueKept == PromptKept /\ QueueMoves
=============================================================================
