----------------------------- MODULE ChatSession -----------------------------
(***************************************************************************)
(* internal/chat/chat.go: the session runtime around the agent loop.       *)
(*                                                                         *)
(* A Chat holds one conversation in memory and its transcript on disk.     *)
(* Prompt starts a goroutine (forward) for each run.  Compact rewrites the *)
(* conversation from a goroutine of the caller, RevertLastPrompt and       *)
(* SwitchSession change it while no run is active.  All of them look at    *)
(* running and messages under the mutex and write the transcript after     *)
(* they released it, so whatever happens between two critical sections of  *)
(* one operation is a step of another.                                     *)
(*                                                                         *)
(* Steer and Abort change the run the chat holds and nothing here: what    *)
(* they do to it is in AgentLoop.                                          *)
(***************************************************************************)
EXTENDS Integers, Sequences

CONSTANTS MaxRuns,         \* bound: prompts admitted
          Sessions,        \* session ids
          First,           \* the session the chat is opened with
          MaxRewrites,     \* bound: histories summarized, and directory changes told
          MaxFaults        \* bound: transcript writes that fail, and restarts

ASSUME ChatAssumption ==
    /\ {MaxRuns, MaxRewrites, MaxFaults} \subseteq Nat
    /\ First \in Sessions

Runs == 1..MaxRuns
NoRun == 0

VARIABLES
    running,    \* Chat.running
    holder,     \* the run Chat.cancel and Chat.steering belong to
    id,         \* Chat.id
    messages,   \* Chat.messages
    disk,       \* the transcript of each session
    run,        \* the goroutine of each run
    compactor,  \* the goroutine inside Compact
    pending,    \* transcripts captured under the mutex and not yet written
    left,       \* what is left of the bounds
    ended,      \* history: runs whose terminal event was pushed
    home,       \* history: the session each run was prompted in
    excused,    \* history: ended turns that need not be on disk any more
    unsaved,    \* history: sessions whose last write failed
    raced       \* history: an operation overtook another (see Overtakes)

chatVars == <<running, holder>>
textVars == <<id, messages>>
history  == <<ended, home, excused, unsaved, raced>>
vars == <<chatVars, textVars, disk, run, compactor, pending, left, history>>

------------------------------------------------------------------------------
(* Conversations.                                                          *)

\* A turn is its prompt and its answer; a checkpoint covers the answers it
\* summarizes; a notice is the synthetic message of a directory change.
Message(kind, turns) == [kind |-> kind, turns |-> turns]
Turn(r) == <<Message("prompt", {r}), Message("answer", {r})>>
Notice  == Message("notice", {})
Answers(h) == UNION {h[i].turns : i \in {j \in DOMAIN h : h[j].kind \in {"answer", "summary"}}}

\* PlanCompaction and ApplyCompaction: one synthetic message for the first k.
Compacted(h, k) ==
    <<Message("summary", Answers(SubSeq(h, 1, k)))>> \o SubSeq(h, k + 1, Len(h))
Cuts(h) == 1..(Len(h) - 1)

Prompts(h) == {i \in DOMAIN h : h[i].kind = "prompt"}
LastPrompt(h) == CHOOSE i \in Prompts(h) : \A j \in Prompts(h) : j <= i

\* A transcript captured under the mutex, to be written after it is released.
\* RevertLastPrompt reads the session's id only when it writes.
Write(session, text) == [session |-> session, text |-> text]
Compactor == -1
Reverter == -2
Writers == Runs \cup {Compactor, Reverter}
Idle(w) == pending[w] = <<>>

Phases == {"none", "opening", "fitting", "asking", "recording", "finished", "ended", "gone"}
\* forward has not called finish yet.
Active(r) == run[r].phase \in {"opening", "fitting", "asking", "recording"}
Goroutine(phase, seen) == [phase |-> phase, seen |-> seen]
NotCompacting == [phase |-> "idle", session |-> First, seen |-> <<>>]

Init ==
    /\ running = FALSE /\ holder = NoRun
    /\ id = First /\ messages = <<>>
    /\ disk = [s \in Sessions |-> <<>>]
    /\ run = [r \in Runs |-> Goroutine("none", <<>>)]
    /\ compactor = NotCompacting
    /\ pending = [w \in Writers |-> <<>>]
    /\ left = [rewrites |-> MaxRewrites, faults |-> MaxFaults]
    /\ ended = {} /\ excused = {} /\ unsaved = {} /\ raced = FALSE
    /\ home = [r \in Runs |-> First]

Spend(bound) == left[bound] > 0 /\ left' = [left EXCEPT ![bound] = @ - 1]

\* The critical section of appendMessages and replaceMessages.
Install(w, text) ==
    /\ messages' = text
    /\ pending' = [pending EXCEPT ![w] = <<Write(id, text)>>]

\* Three ways for an operation to overtake another: the deferred finish of a
\* run releases a newer one, a rewrite is computed from a conversation that is
\* no longer the current one, and a transcript is written that no longer is.
Overtakes(condition) == raced' = (raced \/ condition)

------------------------------------------------------------------------------
(* Runs.                                                                   *)

Prompt(r) ==
    /\ run[r].phase = "none" /\ (r > 1 => run[r - 1].phase # "none")
    /\ ~running
    /\ running' = TRUE /\ holder' = r
    /\ run' = [run EXCEPT ![r] = Goroutine("opening", messages)]
    /\ home' = [home EXCEPT ![r] = id]
    /\ UNCHANGED <<textVars, disk, compactor, pending, left, ended, excused, unsaved, raced>>

\* The head of forward: a changed directory is told in a message of its own.
Tell(r) ==
    /\ run[r].phase = "opening"
    /\ \/ /\ Spend("rewrites")
          /\ Install(r, Append(messages, Notice))
          /\ run' = [run EXCEPT ![r] = Goroutine("fitting", Append(@.seen, Notice))]
       \/ /\ run' = [run EXCEPT ![r].phase = "fitting"]
          /\ UNCHANGED <<messages, pending, left>>
    /\ UNCHANGED <<chatVars, id, disk, compactor, history>>

\* Compaction before the first turn, of the history the run was given.
Fit(r) ==
    /\ run[r].phase = "fitting" /\ Idle(r)
    /\ run' = [run EXCEPT ![r] = Goroutine("asking", <<>>)]
    /\ \/ /\ Spend("rewrites")
          /\ \E k \in Cuts(run[r].seen) : Install(r, Compacted(run[r].seen, k))
          /\ Overtakes(messages # run[r].seen)
       \/ UNCHANGED <<messages, pending, left, raced>>
    /\ UNCHANGED <<chatVars, id, disk, compactor, ended, home, excused, unsaved>>

\* The loop ended, or the context did: the turn joins the conversation.
Record(r) ==
    /\ run[r].phase = "asking" /\ Idle(r)
    /\ run' = [run EXCEPT ![r].phase = "recording"]
    /\ Install(r, messages \o Turn(r))
    /\ UNCHANGED <<chatVars, id, disk, compactor, left, history>>

\* finish, in forward: it does not look whose run the chat holds.
Release == running' = FALSE /\ holder' = NoRun

Advance(r, phase) ==
    /\ run' = [run EXCEPT ![r].phase = phase]
    /\ UNCHANGED <<textVars, disk, compactor, pending, left, history>>

MutFinish(r)      == run[r].phase = "recording" /\ Idle(r) /\ UNCHANGED chatVars /\ Advance(r, "finished")
MutFinishEarly(r) == run[r].phase = "recording" /\ Release /\ Advance(r, "finished")
Finish(r)         == run[r].phase = "recording" /\ Idle(r) /\ Release /\ Advance(r, "finished")

\* The terminal event is pushed; the goal's turn is recorded after it.
End(r) ==
    /\ run[r].phase = "finished"
    /\ run' = [run EXCEPT ![r].phase = "ended"]
    /\ ended' = ended \cup {r}
    /\ UNCHANGED <<chatVars, textVars, disk, compactor, pending, left, home, excused, unsaved, raced>>

\* forward returns through its deferred finish.
Return(r) ==
    /\ run[r].phase = "ended"
    /\ run' = [run EXCEPT ![r].phase = "gone"]
    /\ Release
    /\ Overtakes(holder \notin {r, NoRun})
    /\ UNCHANGED <<textVars, disk, compactor, pending, left, ended, home, excused, unsaved>>

------------------------------------------------------------------------------
(* Rewriting the conversation.                                             *)

\* Compact looks at running once, and holds nothing while it summarizes.
CompactReads ==
    /\ compactor.phase = "idle" /\ Idle(Compactor)
    /\ ~running
    /\ Cuts(messages) # {}
    /\ Spend("rewrites")
    /\ compactor' = [phase |-> "summarizing", session |-> id, seen |-> messages]
    /\ UNCHANGED <<chatVars, textVars, disk, run, pending, history>>

CompactEnds ==
    /\ compactor.phase = "summarizing"
    /\ compactor' = NotCompacting
    /\ \/ /\ \E k \in Cuts(compactor.seen) : Install(Compactor, Compacted(compactor.seen, k))
          /\ Overtakes(<<id, messages>> # <<compactor.session, compactor.seen>>)
       \/ UNCHANGED <<messages, pending, raced>>    \* the summary failed
    /\ UNCHANGED <<chatVars, id, disk, run, left, ended, home, excused, unsaved>>

MutSaveReverted(rest) == UNCHANGED pending
SaveReverted(rest) == pending' = [pending EXCEPT ![Reverter] = <<Write("the current", rest)>>]

RevertLastPrompt ==
    /\ ~running /\ Idle(Reverter)
    /\ Prompts(messages) # {}
    /\ LET last == LastPrompt(messages)
           rest == SubSeq(messages, 1, last - 1)
       IN  /\ messages' = rest
           /\ SaveReverted(rest)
           /\ excused' = excused \cup messages[last].turns
    /\ UNCHANGED <<chatVars, id, disk, run, compactor, left, ended, home, unsaved, raced>>

------------------------------------------------------------------------------
(* The transcript.                                                         *)

Target(w) == IF w = Reverter THEN id ELSE pending[w][1].session

\* WriteTranscript replaces the file or leaves it as it was.
Persist(w) ==
    /\ ~Idle(w)
    /\ pending' = [pending EXCEPT ![w] = <<>>]
    /\ \/ /\ disk' = [disk EXCEPT ![Target(w)] = pending[w][1].text]
          /\ unsaved' = unsaved \ {Target(w)}
          /\ UNCHANGED left
       \/ /\ Spend("faults")
          /\ unsaved' = unsaved \cup {Target(w)}
          /\ UNCHANGED disk
    /\ Overtakes(<<Target(w), pending[w][1].text>> # <<id, messages>>)
    /\ UNCHANGED <<chatVars, textVars, run, compactor, ended, home, excused>>

\* What a failed write costs when the conversation leaves memory.
Forgotten == IF id \in unsaved THEN Answers(messages) \ Answers(disk[id]) ELSE {}

Open(s) ==
    /\ id' = s
    /\ messages' = disk[s]
    /\ excused' = excused \cup Forgotten
    /\ unsaved' = unsaved \ {id}

Reopen(s) == Open(s) /\ UNCHANGED <<chatVars, disk, run, compactor, pending, left, ended, home, raced>>
MutSwitchSession(s) == s # id /\ Reopen(s)
SwitchSession(s)    == s # id /\ ~running /\ Reopen(s)

\* The process dies and New opens a session again.
Restart(s) ==
    /\ Spend("faults")
    /\ running' = FALSE /\ holder' = NoRun
    /\ Open(s)
    /\ run' = [r \in Runs |-> IF run[r].phase = "none" THEN run[r] ELSE Goroutine("gone", <<>>)]
    /\ compactor' = NotCompacting
    /\ pending' = [w \in Writers |-> <<>>]
    /\ UNCHANGED <<disk, ended, home, raced>>

------------------------------------------------------------------------------
Next ==
    \/ \E r \in Runs : Prompt(r) \/ Tell(r) \/ Fit(r) \/ Record(r) \/ Finish(r) \/ End(r) \/ Return(r)
    \/ CompactReads \/ CompactEnds \/ RevertLastPrompt
    \/ \E w \in Writers : Persist(w)
    \/ \E s \in Sessions : SwitchSession(s) \/ Restart(s)

Spec == Init /\ [][Next]_vars

------------------------------------------------------------------------------
\* finish comes before the terminal event, so that nobody who saw the run end
\* finds the chat busy: a busy chat holds a run that has not finished, and an
\* idle one holds none (forward, and the comment on its finish).
BusyMeansRun == IF running THEN holder # NoRun /\ Active(holder) ELSE holder = NoRun

\* appendMessages writes the transcript before the terminal event: whoever saw
\* a run end finds its turn in its session's transcript, whatever else happened
\* since, a restart of the process included.  It may be summarized there.  The
\* exceptions are a turn taken back, a failed write, and operations that
\* overtook each other.
EndedTurnsDurable ==
    ~raced => \A r \in ended \ excused : home[r] \in unsaved \/ r \in Answers(disk[home[r]])

\* When no write is under way and the last one succeeded, the transcript is the
\* conversation: a restart resumes exactly what was on the screen.
TranscriptFollows ==
    (~raced /\ id \notin unsaved /\ \A w \in Writers : Idle(w)) => disk[id] = messages

\* A turn is only ever in the conversation and the transcript of the session it
\* was prompted in, once.
SessionsKeptApart ==
    ~raced => \A s \in Sessions : LET h == IF s = id THEN messages ELSE disk[s] IN
        /\ \A r \in Answers(h) : home[r] = s
        /\ \A i, j \in DOMAIN h : i # j /\ {h[i].kind, h[j].kind} \subseteq {"answer", "summary"}
                                    => h[i].turns \cap h[j].turns = {}

\* What the comments on finish (idempotent, and called before the end so that
\* nobody finds the chat busy) promise: while a run is active the chat is busy
\* with it, so that Abort and Steer reach it and a second prompt is refused.
ActiveRunHeld == \A r \in Runs : Active(r) => running /\ holder = r

\* Compact "refuses while a run is active": it never drops a turn it did not
\* summarize from the conversation.
CompactionKeepsTurns == [][CompactEnds => Answers(messages) \subseteq Answers(messages')]_vars
==============================================================================
