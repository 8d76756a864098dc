---------------------------- MODULE VoiceControl ----------------------------
(***************************************************************************)
(* Dictation: the controller (internal/voice/controller.go), the helper     *)
(* that hears and transcribes (parakeet.go), and the view's draft           *)
(* (internal/tui/chat.go, StartVoice to EndVoice).  The interface's thread  *)
(* starts and stops dictation; stopping runs in a goroutine of its own that *)
(* waits for the helper's last text; one goroutine per helper reads its     *)
(* lines.  A text is the sequence of words heard, numbered as spoken.       *)
(***************************************************************************)
EXTENDS Naturals, Sequences, SequencesExt

CONSTANTS MaxHelpers, \* bound: helpers spawned
          MaxStops,   \* bound: times dictation is stopped
          MaxWords    \* bound: words spoken

ASSUME VoiceAssumption == MaxHelpers \in Nat /\ MaxStops \in Nat /\ MaxWords \in Nat

Helpers == 1..MaxHelpers
Stops == 1..MaxStops

VARIABLES
  child,     \* c.child, 0 for nil
  spawned,
  listening, \* c.listening
  committed, partial, \* c.committed, c.partial
  teardown,  \* c.teardown
  pauseWait, \* the stop whose channel is c.pauseWait, 0 for nil
  released,  \* stops whose channel was closed
  helper,    \* per helper: its loop
  commands,  \* per helper: commands it has not taken
  audio,     \* per helper: the words captured since "listen"
  lines,     \* per helper: lines it wrote that were not read
  telling,   \* per helper: the text its reader is about to report, at most one
  listener,  \* the helper that Listen is about to use, 0 outside of Listen
  stopping,  \* per stop: its goroutine
  draft,     \* the view: [active, stopping, text]
  written,   \* words put in the prompt editor, in order
  spoken,
  heard,     \* words captured since dictation started
  excused    \* a stop gave up waiting, a helper or a transcription failed, or Listen met a Stop

voiceVars == <<child, spawned, listening, committed, partial, teardown, pauseWait, released, helper, commands,
               audio, lines, telling, listener, stopping, draft, written, spoken, heard, excused>>
controller == <<child, spawned, listening, committed, partial, teardown, pauseWait, released>>
helpers == <<helper, commands, audio, lines>>
view == <<draft, written>>

Words == Seq(1..MaxWords)
Text(kind, words) == [kind |-> kind, words |-> words]
Plain(kind) == Text(kind, <<>>)

VoiceTypeOK ==
  /\ child \in 0..spawned /\ spawned \in 0..MaxHelpers /\ listener \in 0..spawned
  /\ listening \in BOOLEAN /\ teardown \in BOOLEAN /\ excused \in BOOLEAN
  /\ committed \in Words /\ partial \in Words /\ written \in Words
  /\ pauseWait \in 0..MaxStops /\ released \subseteq Stops
  /\ helper \in [Helpers -> {"none", "loading", "idle", "capturing", "cut", "killed", "gone", "waited"}]
  /\ stopping \in [Stops -> {"none", "begun", "waiting", "paused", "ended", "done"}]
  /\ spoken \in 0..MaxWords /\ heard \subseteq 1..MaxWords
  /\ draft.active \in BOOLEAN /\ draft.stopping \in BOOLEAN /\ draft.text \in Words

VoiceInit ==
  /\ child = 0 /\ spawned = 0 /\ listening = FALSE /\ committed = <<>> /\ partial = <<>>
  /\ teardown = FALSE /\ pauseWait = 0 /\ released = {}
  /\ helper = [h \in Helpers |-> "none"] /\ commands = [h \in Helpers |-> <<>>]
  /\ audio = commands /\ lines = commands /\ telling = commands
  /\ listener = 0 /\ stopping = [s \in Stops |-> "none"]
  /\ draft = [active |-> FALSE, stopping |-> FALSE, text |-> <<>>] /\ written = <<>>
  /\ spoken = 0 /\ heard = {} /\ excused = FALSE

----------------------------------------------------------------------------
(* The interface: /voice starts the view's dictation, finds or spawns the   *)
(* helper, and then, under the lock again, tells it to listen.              *)
StartVoice ==
  /\ ~draft.active /\ listener = 0
  /\ draft' = [active |-> TRUE, stopping |-> FALSE, text |-> <<>>]
  /\ heard' = {}
  /\ IF child # 0
     THEN listener' = child /\ UNCHANGED <<child, spawned, teardown, helper>>
     ELSE /\ spawned < MaxHelpers
          /\ spawned' = spawned + 1 /\ child' = spawned' /\ listener' = spawned'
          /\ teardown' = FALSE
          /\ helper' = [helper EXCEPT ![spawned'] = "loading"]
  /\ UNCHANGED <<listening, committed, partial, pauseWait, released, commands, audio, lines, telling, stopping,
                 written, spoken, excused>>

(* A write to a helper whose input is closed fails, and nobody looks.       *)
Send(h, command) ==
  IF h = 0 \/ helper[h] \in {"cut", "killed", "gone", "waited"} THEN commands
  ELSE [commands EXCEPT ![h] = Append(@, command)]

Listen ==
  /\ listener # 0
  /\ listener' = 0
  /\ excused' = (excused \/ listening \/ child # listener)
  /\ IF listening THEN UNCHANGED <<listening, committed, partial, commands>>
     ELSE /\ listening' = TRUE /\ committed' = <<>> /\ partial' = <<>>
          /\ commands' = Send(listener, "listen")
  /\ UNCHANGED <<child, spawned, teardown, pauseWait, released, helper, audio, lines, telling, stopping, view,
                 spoken, heard>>

(* Escape: BeginVoiceStop, then stopVoice's goroutine.                      *)
Escape(s) ==
  /\ draft.active /\ ~draft.stopping /\ listener = 0
  /\ stopping[s] = "none" /\ \A earlier \in 1..(s - 1) : stopping[earlier] # "none"
  /\ draft' = [draft EXCEPT !.stopping = TRUE]
  /\ stopping' = [stopping EXCEPT ![s] = "begun"]
  /\ UNCHANGED <<controller, helpers, telling, listener, written, spoken, heard, excused>>

(* PauseAndWait: ask for the pause, wait for its end or the time limit.     *)
MutPauseAndWait(s) ==
  /\ stopping[s] = "begun"
  /\ stopping' = [stopping EXCEPT ![s] = IF listening /\ child # 0 THEN "waiting" ELSE "paused"]
  /\ IF listening /\ child # 0 THEN pauseWait' = s /\ commands' = Send(child, "pause")
                               ELSE UNCHANGED <<pauseWait, commands>>
  /\ listening' = FALSE
  /\ UNCHANGED <<child, spawned, committed, partial, teardown, released, helper, audio, lines, telling, listener,
                 view, spoken, heard, excused>>
PauseAndWait(s) ==
  /\ stopping[s] = "begun"
  /\ stopping' = [stopping EXCEPT ![s] = IF listening /\ child # 0 THEN "waiting" ELSE "paused"]
  /\ IF listening /\ child # 0 THEN pauseWait' = s /\ commands' = Send(child, "pause") /\ UNCHANGED listening
                               ELSE listening' = FALSE /\ UNCHANGED <<pauseWait, commands>>
  /\ UNCHANGED <<child, spawned, committed, partial, teardown, released, helper, audio, lines, telling, listener,
                 view, spoken, heard, excused>>

Waited(s) ==
  /\ stopping[s] = "waiting"
  /\ excused' = (excused \/ s \notin released)
  /\ stopping' = [stopping EXCEPT ![s] = "paused"]
  /\ pauseWait' = IF pauseWait = s THEN 0 ELSE pauseWait
  /\ listening' = FALSE
  /\ UNCHANGED <<child, spawned, committed, partial, teardown, released, helpers, telling, listener, view, spoken,
                 heard>>

(* EndVoice: the draft's text goes to the editor, once.                     *)
EndVoice ==
  /\ draft' = [active |-> FALSE, stopping |-> FALSE, text |-> <<>>]
  /\ written' = IF draft.active THEN written \o draft.text ELSE written

Commit(s) ==
  /\ stopping[s] = "paused"
  /\ stopping' = [stopping EXCEPT ![s] = "ended"]
  /\ EndVoice
  /\ UNCHANGED <<controller, helpers, telling, listener, spoken, heard, excused>>

(* Stop: the helper is let go and killed, whoever waits is released.        *)
StopHelper ==
  /\ teardown' = TRUE /\ listening' = FALSE /\ child' = 0
  /\ pauseWait' = 0 /\ released' = released \cup ({pauseWait} \ {0})
  /\ helper' = IF child # 0 /\ helper[child] \in {"loading", "idle", "capturing"}
               THEN [helper EXCEPT ![child] = IF @ = "capturing" THEN "cut" ELSE "killed"] ELSE helper

StopAfter(s) ==
  /\ stopping[s] = "ended"
  /\ stopping' = [stopping EXCEPT ![s] = "done"]
  /\ StopHelper
  /\ excused' = (excused \/ draft.active)
  /\ UNCHANGED <<spawned, committed, partial, commands, audio, lines, telling, listener, view, spoken, heard>>

----------------------------------------------------------------------------
(* The helper: it loads its model, then obeys commands while words come in. *)
Emits(h, line) == lines' = [lines EXCEPT ![h] = Append(@, line)]

Load(h) ==
  /\ helper[h] = "loading"
  /\ helper' = [helper EXCEPT ![h] = "idle"]
  /\ UNCHANGED <<controller, commands, audio, lines, telling, listener, stopping, view, spoken, heard, excused>>

(* No model, no microphone or no transcription: an error, and the end.      *)
Fails(h) ==
  /\ helper[h] \in {"loading", "idle", "capturing"}
  /\ helper' = [helper EXCEPT ![h] = "gone"]
  /\ Emits(h, Plain("error"))
  /\ excused' = TRUE
  /\ UNCHANGED <<controller, commands, audio, telling, listener, stopping, view, spoken, heard>>

Obey(h) ==
  /\ helper[h] \in {"idle", "capturing"} /\ commands[h] # <<>>
  /\ commands' = [commands EXCEPT ![h] = Tail(@)]
  /\ \/ /\ Head(commands[h]) = "listen"
        /\ helper' = [helper EXCEPT ![h] = "capturing"]
        /\ audio' = IF helper[h] = "idle" THEN [audio EXCEPT ![h] = <<>>] ELSE audio
        /\ UNCHANGED <<lines, excused>>
     \/ /\ Head(commands[h]) = "pause" /\ helper[h] = "capturing"
        /\ helper' = [helper EXCEPT ![h] = "idle"]
        /\ \E decoded \in {audio[h] # <<>>, FALSE} :  \* a transcription that fails is not told
             /\ lines' = [lines EXCEPT ![h] = @ \o (IF decoded THEN <<Text("final", audio[h])>> ELSE <<>>)
                                                \o <<Plain("paused")>>]
             /\ excused' = (excused \/ (~decoded /\ audio[h] # <<>>))
        /\ UNCHANGED audio
     \/ /\ Head(commands[h]) = "pause" /\ helper[h] = "idle"
        /\ UNCHANGED <<helper, audio, lines, excused>>
  /\ UNCHANGED <<controller, telling, listener, stopping, view, spoken, heard>>

Speak(h) ==
  /\ helper[h] = "capturing" /\ spoken < MaxWords
  /\ spoken' = spoken + 1
  /\ audio' = [audio EXCEPT ![h] = Append(@, spoken')]
  /\ heard' = heard \cup {spoken'}
  /\ UNCHANGED <<controller, helper, commands, lines, telling, listener, stopping, view, excused>>

Decode(h) ==
  /\ helper[h] \in {"capturing", "cut"} /\ audio[h] # <<>>
  /\ ~Contains(lines[h], Text("partial", audio[h]))
  /\ Emits(h, Text("partial", audio[h]))
  /\ UNCHANGED <<controller, helper, commands, audio, telling, listener, stopping, view, spoken, heard, excused>>

(* A killed helper ends when it looks at its context, perhaps one decoding  *)
(* later.                                                                   *)
Killed(h) ==
  /\ helper[h] \in {"cut", "killed"}
  /\ helper' = [helper EXCEPT ![h] = "gone"]
  /\ UNCHANGED <<controller, commands, audio, lines, telling, listener, stopping, view, spoken, heard, excused>>

----------------------------------------------------------------------------
(* The reader: handleLine changes the controller under the lock and reports *)
(* the text to the view after it.  It does not ask whose line it is.        *)
HandleLine(h) ==
  /\ lines[h] # <<>> /\ telling[h] = <<>>
  /\ lines' = [lines EXCEPT ![h] = Tail(@)]
  /\ LET line == Head(lines[h]) IN
     \/ /\ line.kind = "partial"
        /\ partial' = IF listening THEN line.words ELSE partial
        /\ telling' = IF listening THEN [telling EXCEPT ![h] = <<committed \o line.words>>] ELSE telling
        /\ UNCHANGED <<committed, pauseWait, released, listening, child, teardown, helper, view>>
     \/ /\ line.kind = "final"
        /\ partial' = <<>>
        /\ committed' = IF listening THEN committed \o line.words ELSE committed
        /\ telling' = IF listening THEN [telling EXCEPT ![h] = <<committed'>>] ELSE telling
        /\ UNCHANGED <<pauseWait, released, listening, child, teardown, helper, view>>
     \/ /\ line.kind = "paused"
        /\ pauseWait' = 0 /\ released' = released \cup ({pauseWait} \ {0})
        /\ UNCHANGED <<committed, partial, telling, listening, child, teardown, helper, view>>
     \/ /\ line.kind = "error"  \* reportError ends the dictation, then Stop
        /\ EndVoice /\ StopHelper
        /\ UNCHANGED <<committed, partial, telling>>
  /\ UNCHANGED <<spawned, commands, audio, listener, stopping, spoken, heard, excused>>

(* SetVoiceText                                                             *)
Tell(h) ==
  /\ telling[h] # <<>>
  /\ telling' = [telling EXCEPT ![h] = <<>>]
  /\ draft' = IF draft.active THEN [draft EXCEPT !.text = telling[h][1]] ELSE draft
  /\ UNCHANGED <<controller, helpers, listener, stopping, written, spoken, heard, excused>>

(* The output ended: wait clears the controller if the helper is still its  *)
(* own, and says so to the view unless it was told to stop.                 *)
HelperEnds(h) ==
  /\ helper[h] = "gone" /\ lines[h] = <<>> /\ telling[h] = <<>>
  /\ helper' = [helper EXCEPT ![h] = "waited"]
  /\ IF child # h THEN UNCHANGED <<child, listening, committed, partial, pauseWait, released, view>>
     ELSE /\ child' = 0 /\ listening' = FALSE
          /\ pauseWait' = 0 /\ released' = released \cup ({pauseWait} \ {0})
          /\ IF teardown THEN UNCHANGED <<committed, partial, view>>
             ELSE committed' = committed \o partial /\ partial' = <<>> /\ EndVoice
  /\ UNCHANGED <<spawned, teardown, commands, audio, lines, telling, listener, stopping, spoken, heard, excused>>

VoiceNext ==
  \/ StartVoice \/ Listen
  \/ \E s \in Stops : Escape(s) \/ PauseAndWait(s) \/ Waited(s) \/ Commit(s) \/ StopAfter(s)
  \/ \E h \in Helpers :
       Load(h) \/ Fails(h) \/ Obey(h) \/ Speak(h) \/ Decode(h) \/ Killed(h) \/ HandleLine(h) \/ Tell(h) \/ HelperEnds(h)

VoiceSpec == VoiceInit /\ [][VoiceNext]_voiceVars

----------------------------------------------------------------------------
(* As long as no stop gave up on a slow or failed helper, every last        *)
(* transcription succeeded and no Listen met a Stop: the draft shows only   *)
(* words of its own dictation, no word is written twice or out of order,    *)
(* and every word the helper captured is in the editor once the dictation   *)
(* ended, however the helper's lines, the reader's reports and the stop     *)
(* interleave.                                                              *)
DictationKept ==
  ~excused => /\ draft.active => ToSet(draft.text) \subseteq heard
              /\ \A i, j \in DOMAIN written : i < j => written[i] < written[j]
              /\ ~draft.active => heard \subseteq ToSet(written)
=============================================================================
