---------------------------- MODULE StdinBuffer ----------------------------
(***************************************************************************)
(* The input splitter (internal/tui/stdin_buffer.go): whatever pieces the   *)
(* terminal's bytes arrive in, it hands over whole key sequences and whole  *)
(* pastes.  A timer flushes an incomplete sequence; the reading thread, the *)
(* timer's goroutine and a discard (when the terminal is handed over) meet  *)
(* at its two locks.  Bytes are the few that the grammar tells apart:       *)
(* "esc", "[", "S" and "E" (what is left of the paste markers after CSI),   *)
(* "c" a printable character, and "K" the rest of the kitty sequence for it.*)
(***************************************************************************)
EXTENDS Naturals, Sequences, SequencesExt

CONSTANTS MaxTyped,  \* bound: keys, marks and characters that arrive
          MaxBreaks  \* bound: flushes by the timer and discards

Bytes == {"esc", "[", "S", "E", "c", "K"}

VARIABLES
  pieces,     \* b.buffer
  pasteMode, pasteBuffer,
  kitty,      \* b.hasPendingKittyPrintable
  timer,      \* the generations of timers armed or fired whose goroutine did not run
  generation, \* b.timerGeneration
  epoch,      \* b.eventGeneration
  outbox,     \* events not dispatched yet by the goroutine holding dispatchMu
  handing,    \* the one it is handing over, its epoch checked: at most one
  delivered,  \* events handed over, of the current epoch
  late,       \* how many were handed over after their epoch ended
  coming,     \* bytes the terminal has sent and nobody read
  typed,      \* bytes that arrived in the current epoch
  broken,     \* the timer flushed a part since: the pieces matter
  breaks

stdinVars == <<pieces, pasteMode, pasteBuffer, kitty, timer, generation, epoch, outbox, handing,
               delivered, late, coming, typed, broken, breaks>>
parser == <<pieces, pasteMode, pasteBuffer, kitty>>

Event(kind, data) == [kind |-> kind, data |-> data]

StdinTypeOK ==
  /\ pieces \in Seq(Bytes) /\ pasteBuffer \in Seq(Bytes) /\ typed \in Seq(Bytes) /\ coming \in Seq(Bytes)
  /\ pasteMode \in BOOLEAN /\ kitty \in BOOLEAN /\ broken \in BOOLEAN
  /\ \A g \in timer : g <= generation
  /\ \A k \in DOMAIN outbox : outbox[k].epoch <= epoch
  /\ Len(handing) <= 1 /\ late \in Nat

(* What a terminal sends: characters, keys as escape sequences, pastes.     *)
Kitty == <<"esc", "[", "K">>
PasteStart == <<"esc", "[", "S">>
PasteEnd == <<"esc", "[", "E">>
Sent == {<<"c">>, <<"esc">>, Kitty, PasteStart, PasteEnd}

StdinInit ==
  /\ \E keys \in SeqOf(Sent, MaxTyped) : coming = FlattenSeq(keys)
  /\ pieces = <<>> /\ pasteMode = FALSE /\ pasteBuffer = <<>> /\ kitty = FALSE
  /\ timer = {} /\ generation = 0 /\ epoch = 0 /\ outbox = <<>> /\ handing = <<>> /\ late = 0 /\ delivered = <<>> /\ typed = <<>>
  /\ broken = FALSE /\ breaks = 0

----------------------------------------------------------------------------
(* completeInputSequence, for a candidate that begins with an escape: a     *)
(* lone one waits, CSI ends with a final byte, an escape and any other      *)
(* character are complete.                                                  *)
Final(b) == b \in {"S", "E", "K", "c"}
Complete(s) ==
  \/ Len(s) >= 2 /\ s[2] # "["
  \/ Len(s) >= 3 /\ Final(Last(s))

(* extractCompleteInputSequences: the shortest complete prefix at a time;   *)
(* two escapes are a key of their own unless a sequence starts at the       *)
(* second.  What is left is incomplete.                                     *)
Candidate(s) ==
  IF s[1] # "esc" THEN 1
  ELSE LET ends == {k \in 1..Len(s) : Complete(SubSeq(s, 1, k))}
       IN IF ends = {} THEN 0
          ELSE LET k == CHOOSE k \in ends : \A j \in ends : k <= j
               IN IF SubSeq(s, 1, k) = <<"esc", "esc">> /\ k < Len(s) /\ s[k + 1] = "[" THEN 1 ELSE k

RECURSIVE Extract(_)
Extract(s) ==
  IF s = <<>> THEN [found |-> <<>>, rest |-> <<>>]
  ELSE LET k == Candidate(s) IN
       IF k = 0 THEN [found |-> <<>>, rest |-> s]
       ELSE LET tail == Extract(SubSeq(s, k + 1, Len(s)))
            IN [found |-> <<SubSeq(s, 1, k)>> \o tail.found, rest |-> tail.rest]

(* emitDataLocked: a terminal that reports a key both as a kitty sequence   *)
(* and as its character is heard once.                                      *)
RECURSIVE EmitData(_, _)
EmitData(found, pending) ==
  IF found = <<>> THEN [events |-> <<>>, kitty |-> pending]
  ELSE IF pending /\ Head(found) = <<"c">> THEN EmitData(Tail(found), FALSE)
  ELSE LET rest == EmitData(Tail(found), Head(found) = Kitty)
       IN [events |-> <<Event("data", Head(found))>> \o rest.events, kitty |-> rest.kitty]

(* The first place where a marker begins, 0 if there is none.               *)
Find(s, marker) ==
  LET places == {k \in 1..(Len(s) - 2) : SubSeq(s, k, k + 2) = marker}
  IN IF places = {} THEN 0 ELSE CHOOSE k \in places : \A j \in places : k <= j

(* processLocked: pastes first, keys outside of them.                       *)
RECURSIVE Process(_)
Process(st) ==
  IF st.pasteMode THEN
    LET whole == st.paste \o st.pieces
        end == Find(whole, PasteEnd)
        rest == SubSeq(whole, end + 3, Len(whole))
    IN IF end = 0 THEN [st EXCEPT !.paste = whole, !.pieces = <<>>]
       ELSE LET out == [st EXCEPT !.pasteMode = FALSE, !.paste = <<>>, !.kitty = FALSE, !.pieces = rest,
                                  !.events = Append(@, Event("paste", SubSeq(whole, 1, end - 1)))]
            IN IF rest = <<>> THEN out ELSE Process(out)
  ELSE LET start == Find(st.pieces, PasteStart) IN
    IF start # 0
    THEN LET before == EmitData(Extract(SubSeq(st.pieces, 1, start - 1)).found, st.kitty)
         IN Process([st EXCEPT !.events = @ \o before.events, !.kitty = FALSE, !.pasteMode = TRUE,
                               !.paste = SubSeq(st.pieces, start + 3, Len(st.pieces)), !.pieces = <<>>])
    ELSE LET keys == Extract(st.pieces)
             out == EmitData(keys.found, st.kitty)
         IN [st EXCEPT !.events = @ \o out.events, !.kitty = out.kitty, !.pieces = keys.rest]

Parse(st, data) == Process([st EXCEPT !.pieces = @ \o data])
Empty == [pieces |-> <<>>, pasteMode |-> FALSE, paste |-> <<>>, kitty |-> FALSE, events |-> <<>>]
Now == [pieces |-> pieces, pasteMode |-> pasteMode, paste |-> pasteBuffer, kitty |-> kitty, events |-> <<>>]

Becomes(st) ==
  /\ pieces' = st.pieces /\ pasteMode' = st.pasteMode /\ pasteBuffer' = st.paste /\ kitty' = st.kitty

Stamped(events) == [k \in DOMAIN events |-> [event |-> events[k], epoch |-> epoch]]

----------------------------------------------------------------------------
(* The reading thread: a piece of input arrives; its timer replaces the     *)
(* last one, whose goroutine may already wait for the lock.                 *)
Arrives(data) ==
  /\ outbox = <<>> /\ handing = <<>> /\ data # <<>>
  /\ coming' = SubSeq(coming, Len(data) + 1, Len(coming))
  /\ typed' = typed \o data
  /\ LET st == Parse(Now, data) IN
       /\ Becomes(st)
       /\ outbox' = Stamped(st.events)
       /\ generation' = generation + 1
       /\ timer' = IF st.pieces = <<>> THEN timer ELSE timer \cup {generation'}
  /\ UNCHANGED <<epoch, handing, delivered, late, broken, breaks>>

(* The timer's goroutine, in time or too late.                              *)
FlushTimer(g) ==
  /\ outbox = <<>> /\ handing = <<>> /\ g \in timer
  /\ timer' = timer \ {g}
  /\ IF g # generation \/ pieces = <<>> THEN UNCHANGED <<pieces, kitty, outbox, broken, breaks>>
     ELSE /\ breaks < MaxBreaks /\ breaks' = breaks + 1
          /\ outbox' = Stamped(<<Event("data", pieces)>>)
          /\ pieces' = <<>> /\ kitty' = FALSE /\ broken' = TRUE
  /\ UNCHANGED <<pasteMode, pasteBuffer, generation, epoch, handing, delivered, late, coming, typed>>

(* dispatch, event by event: one of an epoch that a discard ended is        *)
(* dropped under the state's lock, another is handed over after the unlock. *)
CheckEpoch ==
  /\ outbox # <<>> /\ handing = <<>>
  /\ outbox' = Tail(outbox)
  /\ handing' = IF Head(outbox).epoch = epoch THEN <<Head(outbox)>> ELSE <<>>
  /\ UNCHANGED <<parser, timer, generation, epoch, delivered, late, coming, typed, broken, breaks>>

HandOver ==
  /\ handing # <<>>
  /\ handing' = <<>>
  /\ IF handing[1].epoch = epoch THEN delivered' = Append(delivered, handing[1].event) /\ UNCHANGED late
                                 ELSE late' = late + 1 /\ UNCHANGED delivered
  /\ UNCHANGED <<parser, timer, generation, epoch, outbox, coming, typed, broken, breaks>>

(* discardPendingEvents takes the state's lock only, also while events wait *)
(* to be dispatched and while one is handed over.                           *)
Discard ==
  /\ breaks < MaxBreaks /\ breaks' = breaks + 1
  /\ generation' = generation + 1 /\ epoch' = epoch + 1
  /\ Becomes(Empty)
  /\ typed' = <<>> /\ delivered' = <<>> /\ broken' = FALSE
  /\ UNCHANGED <<timer, outbox, handing, late, coming>>

StdinNext ==
  \/ \E n \in 1..Len(coming) : Arrives(SubSeq(coming, 1, n))
  \/ \E g \in timer : FlushTimer(g)
  \/ CheckEpoch \/ HandOver \/ Discard

StdinSpec == StdinInit /\ [][StdinNext]_stdinVars

----------------------------------------------------------------------------
(* Whatever the pieces: while no timer cut a sequence, what was handed over *)
(* and what still waits is what the whole input would have given in one     *)
(* piece.  Two escapes in a row are the exception: read together with what  *)
(* follows, they are an escape and a sequence or a paste, read apart a key  *)
(* and text.  And of what a discard threw away (stdin_buffer.go:324) no     *)
(* more than the one event is handed over that was past its check already.  *)
Waiting == LET mine == SelectSeq(handing \o outbox, LAMBDA e : e.epoch = epoch)
           IN [k \in DOMAIN mine |-> mine[k].event]

SplitIndependent ==
  /\ late + Len(SelectSeq(handing, LAMBDA e : e.epoch # epoch)) <= epoch
  /\ ~broken /\ (\A k \in 1..(Len(typed) - 1) : ~(typed[k] = "esc" /\ typed[k + 1] = "esc"))
       => LET whole == Parse(Empty, typed)
          IN /\ delivered \o Waiting = whole.events
             /\ Now = [whole EXCEPT !.events = <<>>]
=============================================================================
