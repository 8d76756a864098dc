--------------------------- MODULE ProviderStream ---------------------------
(***************************************************************************)
(* The four readers of a provider's answer (pkg/ai/providers): OpenAI's     *)
(* responses and completions, Anthropic's messages and Google's chunks.     *)
(* Each turns the lines of its own wire format into the same events (start, *)
(* delta and end of a block of content, then done or error) and a message.  *)
(* The provider (external) sends blocks in pieces, several open at a time   *)
(* where its format allows it, then says why it stopped; the connection     *)
(* may end, break, carry garbage or be cancelled between any two lines.     *)
(* Usage, ids, signatures and the separators between the parts of a         *)
(* summary are left out.                                                    *)
(***************************************************************************)
EXTENDS Naturals, Sequences, SequencesExt

CONSTANTS Apis,      \* the wire formats
          MaxBlocks, \* bound: blocks of an answer
          MaxPieces  \* bound: pieces of a block

VARIABLES
  api,
  sent,     \* per block of the provider: kind, pieces in all, pieces sent, done
  reason,   \* why the provider stopped, "none" before
  stopSent, \* message_stop was sent (messages only)
  out       \* the reader: [content: output.Content, slot: content index per block
            \*  (0: none), current: the open block (google), stop: output.StopReason,
            \*  pushed: the events]

providerVars == <<api, sent, reason, stopSent, out>>

KnownKinds == {"text", "thinking", "call"}
BlockKinds == KnownKinds \cup {"other"}
Blocks == 1..MaxBlocks

ProviderTypeOK ==
  /\ api \in Apis /\ Len(sent) <= MaxBlocks
  /\ \A i \in DOMAIN sent : /\ sent[i].kind \in BlockKinds /\ sent[i].done \in BOOLEAN
                            /\ sent[i].plan \in 0..MaxPieces /\ sent[i].n \in 0..sent[i].plan
  /\ reason \in {"none", "stop", "tool", "length", "refused"} /\ stopSent \in BOOLEAN
  /\ out.slot \in [Blocks -> 0..Len(out.content)] /\ out.current \in 0..Len(out.content)
  /\ out.stop \in {"pending", "complete", "toolUse", "length", "error", "aborted"}
  /\ \A c \in DOMAIN out.content : out.content[c].kind \in KnownKinds

\* pushStart, and what an answer begins with.
ProviderInit ==
  /\ api \in Apis /\ sent = <<>> /\ reason = "none" /\ stopSent = FALSE
  /\ out = [content |-> <<>>, slot |-> [i \in Blocks |-> 0], current |-> 0, stop |-> "pending",
            pushed |-> <<[type |-> "start", kind |-> "answer", at |-> 0, text |-> <<>>]>>]

----------------------------------------------------------------------------
(* The readers' common steps, as operators on their state.                  *)

pushUpdate(s, type, c, text) ==
  [s EXCEPT !.pushed = Append(@, [type |-> type, kind |-> s.content[c].kind, at |-> c, text |-> text])]

\* Pieces name their block; the last one makes a call's JSON parse.
PiecesOf(i, m, n, plan) == [k \in 1..(n - m) |-> <<i, IF m + k = plan THEN "last" ELSE "part">>]
parseArguments(json) == IF json # <<>> /\ Last(json)[2] = "last" THEN json ELSE <<>>

\* createSlot: a block of a kind the reader does not know gets none.
SlotFor(s, i, kind) ==
  IF kind = "other" THEN s
  ELSE LET c == Len(s.content) + 1
       IN pushUpdate([s EXCEPT !.content = Append(@, [kind |-> kind, text |-> <<>>, args |-> <<>>]),
                               !.slot[i] = c], "start", c, <<>>)

WithPieces(s, i, pieces) ==
  LET c == s.slot[i]
  IN IF c = 0 THEN s
     ELSE pushUpdate([s EXCEPT !.content[c].text = @ \o pieces,
                               !.content[c].args = parseArguments(s.content[c].text \o pieces)],
                     "delta", c, pieces)

\* What an end event carries: the text, or a copy of the call.
Carried(b) == IF b.kind = "call" THEN b.args ELSE b.text
PushEnd(s, c) == pushUpdate(s, "end", c, Carried(s.content[c]))

\* finishSlot: the item that is done carries its text again, or nothing.
finishSlot(s, i, full) ==
  LET c == s.slot[i]
      b == s.content[c]
      text == IF full # <<>> THEN full ELSE b.text
  IN IF c = 0 THEN s
     ELSE PushEnd([s EXCEPT !.content[c] = [b EXCEPT !.text = text, !.args = parseArguments(text)],
                        !.slot[i] = 0], c)

\* google: a block is open until a part of another kind, a call or the end.
finishBlock(s) == IF s.current = 0 THEN s ELSE [PushEnd(s, s.current) EXCEPT !.current = 0]

\* completions: every block ends with the answer.
EndAll(s) == FoldLeft(LAMBDA t, c : PushEnd(t, c), s, [c \in DOMAIN s.content |-> c])

hasToolCall(s) == \E c \in DOMAIN s.content : s.content[c].kind = "call"

\* The provider's reason as the message's.
Mapped(r) == CASE r = "stop" -> "complete" [] r = "tool" -> "toolUse"
               [] r = "length" -> "length" [] r = "refused" -> "error"

----------------------------------------------------------------------------
(* The lines, each as the provider sends it and its reader takes it.        *)
AnswerOver == Last(out.pushed).type \in {"done", "error"}
Reading(format) == api = format /\ reason = "none" /\ ~AnswerOver
NewBlock == Len(sent) + 1
BlockBegun(kind, plan, n) == NewBlock \in Blocks /\ sent' = Append(sent, [kind |-> kind, plan |-> plan, n |-> n, done |-> FALSE])
LineRead == UNCHANGED <<api, reason, stopSent>>

\* The next piece of a block.
NextPiece(i) ==
  /\ ~sent[i].done /\ sent[i].n < sent[i].plan
  /\ sent' = [sent EXCEPT ![i].n = @ + 1]
  /\ out' = WithPieces(out, i, PiecesOf(i, sent[i].n, sent[i].n + 1, sent[i].plan))

\* Why the provider stopped: a block is cut short by the token limit only.
StopReasons == {"stop", "tool", "length", "refused"}
StopsFor(r, without) ==
  /\ r \in StopReasons \ without
  /\ r \in {"stop", "tool"} => \A i \in DOMAIN sent : sent[i].n = sent[i].plan
  /\ reason' = r
  /\ UNCHANGED <<api, sent, stopSent>>

(* OpenAI responses.                                                        *)
ItemAdded(kind, plan) ==
  /\ Reading("responses") /\ BlockBegun(kind, plan, 0)
  /\ out' = SlotFor(out, NewBlock, kind)
  /\ LineRead

ItemDelta(i) == Reading("responses") /\ NextPiece(i) /\ LineRead

\* What the deltas of a call's arguments did not bring.
ArgumentsDone(i) ==
  /\ Reading("responses") /\ ~sent[i].done /\ sent[i].kind = "call"
  /\ sent' = [sent EXCEPT ![i].n = sent[i].plan]
  /\ out' = IF sent[i].n = sent[i].plan THEN out
            ELSE WithPieces(out, i, PiecesOf(i, sent[i].n, sent[i].plan, sent[i].plan))
  /\ LineRead

ItemDone(i) ==
  /\ Reading("responses") /\ ~sent[i].done
  /\ sent' = [sent EXCEPT ![i].done = TRUE]
  /\ \E full \in {<<>>, PiecesOf(i, 0, sent[i].n, sent[i].plan)} : out' = finishSlot(out, i, full)
  /\ LineRead

\* An item that is announced only when it is done.
ItemOnlyDone(kind, plan) ==
  /\ Reading("responses") /\ NewBlock \in Blocks
  /\ sent' = Append(sent, [kind |-> kind, plan |-> plan, n |-> plan, done |-> TRUE])
  /\ out' = finishSlot(SlotFor(out, NewBlock, kind), NewBlock, PiecesOf(NewBlock, 0, plan, plan))
  /\ LineRead

finalizeResponse(r) ==
  /\ Reading("responses") /\ \A i \in DOMAIN sent : sent[i].done
  /\ StopsFor(r, {"tool"})
  /\ out' = [out EXCEPT !.stop = Mapped(IF r = "stop" /\ hasToolCall(out) THEN "tool" ELSE r)]

(* Anthropic messages.                                                      *)
startBlock(kind, plan) ==
  /\ Reading("messages") /\ BlockBegun(kind, plan, 0)
  /\ out' = SlotFor(out, NewBlock, kind)
  /\ LineRead

updateBlock(i) == Reading("messages") /\ NextPiece(i) /\ LineRead

stopBlock(i) ==
  /\ Reading("messages") /\ ~sent[i].done
  /\ sent' = [sent EXCEPT ![i].done = TRUE]
  /\ out' = IF out.slot[i] = 0 THEN out ELSE PushEnd([out EXCEPT !.slot[i] = 0], out.slot[i])
  /\ LineRead

mapStop(r) ==
  /\ Reading("messages") /\ \A i \in DOMAIN sent : sent[i].done
  /\ StopsFor(r, IF hasToolCall(out) THEN {"stop"} ELSE {"tool"})
  /\ out' = [out EXCEPT !.stop = Mapped(r)]

MessageStop ==
  /\ api = "messages" /\ reason # "none" /\ ~stopSent /\ ~AnswerOver
  /\ stopSent' = TRUE
  /\ UNCHANGED <<api, sent, reason, out>>

(* OpenAI completions: one text and one thinking for the whole answer, and  *)
(* calls by index; a block begins with its first delta.                     *)
TextBegins(kind, plan) ==
  /\ Reading("completions") /\ kind \in {"text", "thinking"} /\ plan > 0
  /\ \A i \in DOMAIN sent : sent[i].kind # kind
  /\ BlockBegun(kind, plan, 1)
  /\ out' = WithPieces(SlotFor(out, NewBlock, kind), NewBlock, PiecesOf(NewBlock, 0, 1, plan))
  /\ LineRead

CallBegins(plan) ==
  /\ Reading("completions")
  /\ LET n == IF plan = 0 THEN 0 ELSE 1
     IN /\ BlockBegun("call", plan, n)
        /\ out' = WithPieces(SlotFor(out, NewBlock, "call"), NewBlock, PiecesOf(NewBlock, 0, n, plan))
  /\ LineRead

ChoiceDelta(i) == Reading("completions") /\ NextPiece(i) /\ LineRead

mapCompletionStop(r) ==
  /\ Reading("completions")
  /\ StopsFor(r, IF hasToolCall(out) THEN {"stop"} ELSE {"tool"})
  /\ out' = [out EXCEPT !.stop = Mapped(r)]

(* Google: text goes on in the open block of its kind or opens one.         *)
PartBegins(kind, plan) ==
  /\ Reading("google") /\ kind \in {"text", "thinking"} /\ plan > 0
  /\ sent # <<>> => Last(sent).kind # kind
  /\ BlockBegun(kind, plan, 1)
  /\ LET s == SlotFor(finishBlock(out), NewBlock, kind)
     IN out' = [WithPieces(s, NewBlock, PiecesOf(NewBlock, 0, 1, plan)) EXCEPT !.current = s.slot[NewBlock]]
  /\ LineRead

PartGoesOn == Reading("google") /\ sent # <<>> /\ NextPiece(Len(sent)) /\ LineRead

\* A call comes whole and is told at once.
FunctionCall(plan) ==
  /\ Reading("google") /\ BlockBegun("call", plan, plan)
  /\ LET s == WithPieces(SlotFor(finishBlock(out), NewBlock, "call"), NewBlock, PiecesOf(NewBlock, 0, plan, plan))
     IN out' = PushEnd(s, s.slot[NewBlock])
  /\ LineRead

FinishReason(r) ==
  /\ Reading("google") /\ StopsFor(r, {"tool"})
  /\ out' = [out EXCEPT !.stop = Mapped(IF r = "stop" /\ hasToolCall(out) THEN "tool" ELSE r)]

----------------------------------------------------------------------------
(* The body ends: cleanly, broken (or with the provider's own error), or    *)
(* after the request was cancelled.  An answer without its format's last    *)
(* line is an error.                                                        *)
AnswerEnds(s, how, complete) ==
  /\ ~AnswerOver
  /\ LET stop == IF how = "cancelled" THEN "aborted"
                 ELSE IF how = "broken" \/ ~complete THEN "error"
                 ELSE s.stop
         type == IF stop \in {"error", "aborted"} THEN "error" ELSE "done"
     IN out' = [s EXCEPT !.stop = stop,
                         !.pushed = Append(@, [type |-> type, kind |-> "answer", at |-> 0, text |-> <<>>])]
  /\ UNCHANGED <<api, sent, reason, stopSent>>

ResponsesEnd(how) == api = "responses" /\ AnswerEnds(out, how, out.stop # "pending")
MessagesEnd(how) == api = "messages" /\ AnswerEnds(out, how, stopSent /\ out.stop # "pending")

\* A body that is over is a message that is over.
MutCompletionsEnd(how) == api = "completions" /\ AnswerEnds(EndAll(out), how, TRUE)
CompletionsEnd(how) == api = "completions" /\ AnswerEnds(EndAll(out), how, out.stop # "pending")
GoogleEnd(how) == api = "google" /\ AnswerEnds(finishBlock(out), how, out.stop # "pending")

ProviderNext ==
  \/ \E kind \in BlockKinds, plan \in 0..MaxPieces :
       \/ ItemAdded(kind, plan) \/ ItemOnlyDone(kind, plan) \/ startBlock(kind, plan)
       \/ TextBegins(kind, plan) \/ PartBegins(kind, plan)
  \/ \E i \in DOMAIN sent : \/ ItemDelta(i) \/ ArgumentsDone(i) \/ ItemDone(i)
                            \/ updateBlock(i) \/ stopBlock(i) \/ ChoiceDelta(i)
  \/ \E plan \in 0..MaxPieces : CallBegins(plan) \/ FunctionCall(plan)
  \/ \E r \in StopReasons : finalizeResponse(r) \/ mapStop(r) \/ mapCompletionStop(r) \/ FinishReason(r)
  \/ \E how \in {"clean", "broken", "cancelled"} :
       ResponsesEnd(how) \/ MessagesEnd(how) \/ CompletionsEnd(how) \/ GoogleEnd(how)
  \/ PartGoesOn \/ MessageStop

ProviderSpec == ProviderInit /\ [][ProviderNext]_providerVars

----------------------------------------------------------------------------
\* A consumer that assembles the answer from its events alone: a block starts at
\* the next index, grows and ends while it is open and of the kind said; "wrong"
\* if an event does not fit.
Consumed ==
  LET Take(view, e) ==
        CASE e.kind = "answer" -> view
          [] e.type = "start" /\ e.at = Len(view) + 1 ->
               Append(view, [kind |-> e.kind, text |-> <<>>, open |-> TRUE])
          [] e.type = "delta" /\ e.at \in DOMAIN view /\ view[e.at].open /\ view[e.at].kind = e.kind ->
               [view EXCEPT ![e.at].text = @ \o e.text]
          [] e.type = "end" /\ e.at \in DOMAIN view /\ view[e.at].open /\ view[e.at].kind = e.kind ->
               [view EXCEPT ![e.at].text = e.text, ![e.at].open = FALSE]
          [] OTHER -> <<[kind |-> "wrong", text |-> <<>>, open |-> FALSE]>>
  IN FoldLeft(Take, <<>>, out.pushed)

\* What the provider said, in the order in which the reader met the blocks.
Said == LET known == SelectSeq([i \in DOMAIN sent |-> i], LAMBDA i : sent[i].kind \in KnownKinds)
        IN [k \in DOMAIN known |->
              [kind |-> sent[known[k]].kind,
               text |-> LET b == sent[known[k]] IN PiecesOf(known[k], 0, b.n, b.plan)]]

\* Whatever the format, the interleaving of blocks and the end of the connection:
\* the events fit together and tell the text that the message has, and an answer
\* is done only if the provider ended it (openai/stream.go:111, completions.go:405,
\* anthropic/stream.go:120, google/stream.go:141), with every block ended and all the
\* provider said; a call cut by the token limit has no arguments (loop.go:270 refuses
\* it), every other call has them whole.  Dropping the test for the last line, a
\* slot used twice, or text that is told twice would break it.
AnswerWhole ==
  LET view == Consumed
      done == Last(out.pushed).type = "done"
  IN /\ Len(view) = Len(out.content)
     /\ \A c \in DOMAIN view :
          /\ view[c].kind = out.content[c].kind
          /\ view[c].text = IF view[c].open THEN out.content[c].text ELSE Carried(out.content[c])
     /\ done =>
          /\ reason \notin {"none", "refused"} /\ out.stop \notin {"pending", "error", "aborted"}
          /\ Len(view) = Len(Said)
          /\ \A c \in DOMAIN view :
               /\ ~view[c].open /\ out.content[c].text = Said[c].text
               /\ view[c].kind = "call" /\ reason # "length" => view[c].text = Said[c].text
=============================================================================
