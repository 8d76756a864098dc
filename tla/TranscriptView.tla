--------------------------- MODULE TranscriptView ---------------------------
(***************************************************************************)
(* The rows of a conversation on the screen, which are made twice: from the *)
(* events of a run while it goes on (internal/tui/chat.go, applyEvent), and  *)
(* from the stored messages when the session is opened again                *)
(* (internal/tui/transcript.go, buildTranscriptEntries).  The events are     *)
(* those AgentLoop can push, some time after the loop pushed them, so the    *)
(* loop may take a steered message later than at the next boundary seen      *)
(* here.  Times, costs, toasts and layout are left out; a text is the        *)
(* sequence of the pieces that came in.  Cancelled runs, which store less    *)
(* than they showed (ChatForward), and shell rows are left out.              *)
(***************************************************************************)
EXTENDS Naturals, Sequences, SequencesExt, FiniteSetsExt

CONSTANTS Answers,   \* what a model may answer: sequences of kinds of content
          SteerTexts, \* what a user may type while a run is active
          MaxRuns,   \* bound: prompts
          MaxTurns,  \* bound: answers of a run
          MaxSteers  \* bound: steers

VARIABLES
  entries, \* Chat.entries
  current, \* Chat.active: the row that events go to, 0 for none
  log,     \* the messages of the latest run
  from,    \* the latest run's first row
  loop,    \* the loop as its events show it: its phase, the turn, the answer so
           \*  far, what is left of it, and its calls
  admitted, \* steers admitted and not yet echoed
  asked,   \* the row id of a steer whose admission is awaited, 0 for none
  counts,  \* runs started, steers typed
  excused  \* something happened to this run after which its rows may differ

viewVars == <<entries, current, log, from, loop, admitted, asked, counts, excused>>

User(text, steer, id) == [kind |-> "user", text |-> text, steer |-> steer, id |-> id, segments |-> <<>>, tools |-> <<>>]
Block == [kind |-> "assistant", text |-> <<>>, steer |-> "none", id |-> 0, segments |-> <<>>, tools |-> <<>>]
CompactID == <<0, 0, 0>>  \* the "call" of a compaction's row
NoRun == [phase |-> "idle", turn |-> 0, said |-> <<>>, left |-> <<>>, calls |-> <<>>]

ViewTypeOK ==
  /\ current \in 0..Len(entries) /\ current # 0 => entries[current].kind = "assistant"
  /\ loop.phase \in {"idle", "opening", "turn", "stream", "calls", "finish", "landing"}
  /\ (current # 0) = (loop.phase # "idle") /\ from \in 0..(Len(entries) + 1)
  /\ \A i \in DOMAIN entries : entries[i].steer \in {"none", "pending", "landed"}
  /\ excused \in BOOLEAN /\ asked \in Nat /\ counts.runs \in 0..MaxRuns /\ counts.steers \in 0..MaxSteers

ViewInit ==
  /\ entries = <<>> /\ current = 0 /\ log = <<>> /\ from = 0 /\ loop = NoRun
  /\ admitted = <<>> /\ asked = 0 /\ counts = [runs |-> 0, steers |-> 0] /\ excused = FALSE

----------------------------------------------------------------------------
(* A block of an answer's rows, as transcript.go builds it.                  *)

\* Text or thinking goes on in the last segment if that is of its kind.
appendDelta(b, kind, piece) ==
  LET n == Len(b.segments)
  IN IF n > 0 /\ b.segments[n].kind = kind
     THEN [b EXCEPT !.segments[n].text = Append(@, piece)]
     ELSE [b EXCEPT !.segments = Append(@, [kind |-> kind, text |-> <<piece>>])]

WithText(b, kind, piece) ==
  appendDelta(IF kind = "text" THEN [b EXCEPT !.text = Append(@, piece)] ELSE b, kind, piece)

hasTool(b, call) == \E k \in DOMAIN b.tools : b.tools[k].call = call

WithTool(b, call, status) ==
  IF hasTool(b, call) THEN [b EXCEPT !.tools = [k \in DOMAIN @ |-> IF @[k].call = call THEN [@[k] EXCEPT !.status = status] ELSE @[k]]]
  ELSE [b EXCEPT !.tools = Append(@, [call |-> call, status |-> status]),
                 !.segments = Append(@, [kind |-> "tool", text |-> <<call>>])]

(* The rows of stored messages.                                             *)
appendAssistantContent(b, content) ==
  FoldLeft(LAMBDA x, part : IF part.kind = "call"
                            THEN (IF hasTool(x, part.id) THEN x ELSE WithTool(x, part.id, "running"))
                            ELSE WithText(x, part.kind, part.id), b, content)

\* A new block, unless the last row is one.
BuilderBlock(built) == IF built # <<>> /\ Last(built).kind = "assistant" THEN built ELSE Append(built, Block)

buildTranscriptEntries(messages) ==
  LET Add(built, m) ==
        IF m.role = "user" THEN Append(built, User(m.text, "none", 0))
        ELSE LET opened == BuilderBlock(built)
                 b == Last(opened)
             IN Append(Front(opened),
                       IF m.role = "tool" THEN WithTool(b, m.call, "done") ELSE appendAssistantContent(b, m.content))
  IN FoldLeft(Add, <<>>, messages)

----------------------------------------------------------------------------
(* What the events do to the rows.                                          *)
ToActive(b) == entries' = [entries EXCEPT ![current] = b]

\* The first row that waits for this text has been heard.
Unheard(r, text) == {i \in DOMAIN r : r[i].kind = "user" /\ r[i].steer = "pending" /\ r[i].text = text}
Heard(r, i) == [r EXCEPT ![i].steer = "landed"]
markSteerLanded(r, text) == IF Unheard(r, text) = {} THEN r ELSE Heard(r, Min(Unheard(r, text)))

\* The turn after a steer goes below it, in a block of its own.
beginSteeredTurn ==
  LET landed == {i \in DOMAIN entries : entries[i].steer = "landed"}
      settled == [i \in DOMAIN entries |-> IF i \in landed THEN [entries[i] EXCEPT !.steer = "none"] ELSE entries[i]]
  IN IF landed = {} THEN UNCHANGED <<entries, current>>
     ELSE entries' = InsertAt(settled, Max(landed) + 1, Block) /\ current' = Max(landed) + 1

\* An answer without a piece of text so far shows the text of its message.
MessageEndRow(b, content) ==
  LET texts == SelectSeq(content, LAMBDA part : part.kind = "text")
  IN IF b.text = <<>> /\ texts # <<>>
     THEN FoldLeft(LAMBDA x, part : WithText(x, "text", part.id), b, texts) ELSE b

\* The end of the run: a block without text gets the run's last text.
AgentEndRow(b, messages) ==
  LET texts(m) == IF m.role = "assistant" THEN SelectSeq(m.content, LAMBDA part : part.kind = "text") ELSE <<>>
      speaking == {i \in DOMAIN messages : texts(messages[i]) # <<>>}
  IN IF b.text = <<>> /\ speaking # {}
     THEN [b EXCEPT !.text = [k \in DOMAIN texts(messages[Max(speaking)]) |-> texts(messages[Max(speaking)])[k].id]]
     ELSE b

----------------------------------------------------------------------------
(* A run.                                                                   *)
\* start: the prompt's row and a block.  A row that an earlier run left waiting
\* may be taken for one of this run's.
Start ==
  /\ loop.phase = "idle" /\ counts.runs < MaxRuns
  /\ entries' = entries \o <<User("prompt", "none", 0), Block>>
  /\ current' = Len(entries) + 2 /\ from' = Len(entries) + 1
  /\ log' = <<[role |-> "user", text |-> "prompt"]>>
  /\ loop' = [NoRun EXCEPT !.phase = "opening"]
  /\ admitted' = <<>>
  /\ counts' = [counts EXCEPT !.runs = @ + 1]
  /\ excused' = \E i \in DOMAIN entries : entries[i].steer # "none"
  /\ UNCHANGED asked

\* A compaction is shown like a tool; it stands in no message.
CompactionEvent ==
  /\ loop.phase = "opening" /\ entries[current].tools = <<>>
  /\ ToActive(WithTool(entries[current], CompactID, "done"))
  /\ UNCHANGED <<current, log, from, loop, admitted, asked, counts, excused>>

TurnStart ==
  /\ loop.phase \in {"opening", "landing"} /\ loop.turn < MaxTurns
  /\ beginSteeredTurn
  /\ loop' = [NoRun EXCEPT !.phase = "turn", !.turn = loop.turn + 1]
  /\ UNCHANGED <<log, from, admitted, asked, counts, excused>>

\* The answer's content: piece k of turn t.
Pieces(kinds) == [k \in DOMAIN kinds |-> [kind |-> kinds[k], id |-> <<counts.runs, loop.turn, k>>]]

MessageStart(kinds) ==
  /\ loop.phase = "turn"
  /\ loop' = [loop EXCEPT !.phase = "stream", !.left = Pieces(kinds)]
  /\ UNCHANGED <<entries, current, log, from, admitted, asked, counts, excused>>

\* A delta; of a call nothing is shown before it is executed.
MessageUpdate ==
  /\ loop.phase = "stream" /\ loop.left # <<>>
  /\ LET part == Head(loop.left)
     IN /\ IF part.kind = "call" THEN UNCHANGED entries ELSE ToActive(WithText(entries[current], part.kind, part.id))
        /\ loop' = [loop EXCEPT !.left = Tail(@), !.said = Append(@, part)]
  /\ UNCHANGED <<current, log, from, admitted, asked, counts, excused>>

CallsOf(content) == SelectSeq(content, LAMBDA part : part.kind = "call")

\* The answer is there, all of it or (openai/stream.go:223) its rest at once; a
\* rest that is text is not shown in a block that has some.
MessageEnd ==
  /\ loop.phase = "stream"
  /\ loop.left # <<>> => loop.said = <<>> /\ \A k \in DOMAIN loop.left : loop.left[k].kind = "text"
  /\ LET content == loop.said \o loop.left
     IN /\ ToActive(MessageEndRow(entries[current], content))
        /\ log' = Append(log, [role |-> "assistant", content |-> content])
        /\ loop' = [loop EXCEPT !.phase = IF CallsOf(content) = <<>> THEN "finish" ELSE "calls",
                                !.calls = [k \in DOMAIN CallsOf(content) |-> [id |-> CallsOf(content)[k].id, at |-> "new"]]]
        /\ excused' = (excused \/ (loop.left # <<>> /\ entries[current].text # <<>>))
  /\ UNCHANGED <<current, from, admitted, asked, counts>>

\* tool_execution_start, in the calls' order, and tool_execution_end in any.
ToolStart(k) ==
  /\ loop.phase = "calls" /\ loop.calls[k].at = "new" /\ \A j \in 1..(k - 1) : loop.calls[j].at # "new"
  /\ ToActive(WithTool(entries[current], loop.calls[k].id, "running"))
  /\ loop' = [loop EXCEPT !.calls[k].at = "started"]
  /\ UNCHANGED <<current, log, from, admitted, asked, counts, excused>>

ToolEnd(k) ==
  /\ loop.phase = "calls" /\ loop.calls[k].at = "started"
  /\ ToActive(WithTool(entries[current], loop.calls[k].id, "done"))
  /\ loop' = [loop EXCEPT !.calls[k].at = "ended"]
  /\ UNCHANGED <<current, log, from, admitted, asked, counts, excused>>

\* The results are messages; the run goes on, or would finish here.
TurnEnd ==
  /\ loop.phase = "calls" /\ \A k \in DOMAIN loop.calls : loop.calls[k].at = "ended"
  /\ log' = log \o [k \in DOMAIN loop.calls |-> [role |-> "tool", call |-> loop.calls[k].id]]
  /\ \E phase \in {"landing", "finish"} : loop' = [loop EXCEPT !.phase = phase, !.calls = <<>>]
  /\ UNCHANGED <<entries, current, from, admitted, asked, counts, excused>>

\* A steered message is taken and echoed.
SteerEchoed ==
  /\ loop.phase \in {"landing", "finish"} /\ admitted # <<>> /\ loop.turn < MaxTurns
  /\ log' = Append(log, [role |-> "user", text |-> Head(admitted)])
  /\ entries' = markSteerLanded(entries, Head(admitted))
  /\ admitted' = Tail(admitted)
  /\ loop' = [loop EXCEPT !.phase = "landing"]
  /\ UNCHANGED <<current, from, asked, counts, excused>>

\* agent_end and finishRun.
EndRun(messages) ==
  /\ ToActive(AgentEndRow(entries[current], messages))
  /\ current' = 0 /\ loop' = NoRun /\ admitted' = <<>>
  /\ UNCHANGED <<from, asked, counts>>

AgentEnd ==
  /\ loop.phase = "finish" /\ admitted = <<>>
  /\ EndRun(log)
  /\ UNCHANGED <<log, excused>>

\* The model fails: what it said so far is its message, and the run ends.  A call
\* in it has a row only when it is read back; and a block without text is given
\* the text of the block before it.
ModelFailed ==
  /\ loop.phase = "stream"
  /\ LET messages == Append(log, [role |-> "assistant", content |-> loop.said])
     IN /\ EndRun(messages)
        /\ log' = messages
        /\ excused' = (excused \/ CallsOf(loop.said) # <<>> \/ entries[current].segments = <<>>)

(* The user.                                                                *)
\* steerTyped, steerQueued: the row comes before the loop can echo the message.
SteerTyped(text) ==
  /\ current # 0 /\ asked = 0 /\ counts.steers < MaxSteers
  /\ counts' = [counts EXCEPT !.steers = @ + 1]
  /\ asked' = counts.steers + 1
  /\ entries' = Append(entries, User(text, "pending", asked'))
  /\ UNCHANGED <<current, log, from, loop, admitted, excused>>

AskedRow == {i \in DOMAIN entries : entries[i].steer = "pending" /\ entries[i].id = asked}

SteerAdmitted ==
  /\ asked # 0 /\ loop.phase # "idle" /\ AskedRow # {}
  /\ admitted' = Append(admitted, entries[CHOOSE i \in AskedRow : TRUE].text)
  /\ asked' = 0
  /\ UNCHANGED <<entries, current, log, from, loop, counts, excused>>

\* The run is over, or about to be: the row goes.
SteerRefused ==
  /\ asked # 0
  /\ entries' = IF AskedRow = {} THEN entries ELSE RemoveAt(entries, CHOOSE i \in AskedRow : TRUE)
  /\ asked' = 0
  /\ UNCHANGED <<current, log, from, loop, admitted, counts, excused>>

ViewNext ==
  \/ (asked = 0 /\ Start) \/ CompactionEvent \/ TurnStart \/ MessageUpdate \/ MessageEnd
  \/ TurnEnd \/ SteerEchoed \/ AgentEnd \/ ModelFailed \/ SteerAdmitted \/ SteerRefused
  \/ \E kinds \in Answers : MessageStart(kinds)
  \/ \E k \in DOMAIN loop.calls : ToolStart(k) \/ ToolEnd(k)
  \/ \E text \in SteerTexts : SteerTyped(text)

ViewSpec == ViewInit /\ [][ViewNext]_viewVars

----------------------------------------------------------------------------
\* What a reader sees: prompts, and the segments of blocks that have any; a block
\* without segments shows its text (transcript.go:446).
Visible(r) ==
  LET kept == SelectSeq(r, LAMBDA row : row.steer # "pending")
      tool(row, call) == row.tools[CHOOSE k \in DOMAIN row.tools : row.tools[k].call = call].status
      segments(row) ==
        IF row.segments = <<>> /\ row.text # <<>> THEN <<[kind |-> "text", text |-> row.text, status |-> ""]>>
        ELSE [k \in DOMAIN row.segments |->
                [kind |-> row.segments[k].kind, text |-> row.segments[k].text,
                 status |-> IF row.segments[k].kind = "tool" THEN tool(row, row.segments[k].text[1]) ELSE ""]]
      shown(row) == SelectSeq(segments(row), LAMBDA s : s.text # <<CompactID>>)
  IN SelectSeq([i \in DOMAIN kept |-> [kind |-> kept[i].kind,
                                       text |-> IF kept[i].kind = "user" THEN <<kept[i].text>> ELSE shown(kept[i])]],
               LAMBDA row : row.text # <<>>)

\* "Otherwise a fast provider can win the race and attach its continuation to the
\* assistant block above the steer" (chat.go:988): once a run is over, what it
\* showed is what will be shown when its session is opened again, in the same
\* order, whenever steers were typed, admitted, refused or taken, whatever order
\* the calls ended in, and if the model failed.  While it goes on, the rows that
\* wait are those of the steers that nobody has heard.
ShownAsStored ==
  ~excused /\ from # 0 =>
    LET mine == SubSeq(entries, from, Len(entries))
        waiting == SelectSeq(mine, LAMBDA row : row.steer = "pending")
        owed == IF asked = 0 THEN Len(admitted) ELSE Len(admitted) + 1
    IN IF loop.phase = "idle" THEN Visible(mine) = Visible(buildTranscriptEntries(log))
       ELSE /\ Len(waiting) = owed
            /\ \A i \in DOMAIN admitted : waiting[i].text = admitted[i]
=============================================================================
