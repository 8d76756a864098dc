------------------------------- MODULE Editor -------------------------------
(***************************************************************************)
(* The prompt editor (internal/tui/editor.go, editor_chips.go): a text with *)
(* a cursor, undo, a kill ring, recalled prompts, long pastes that are shown *)
(* as markers, and pasted files that are shown as chips.  A text is a        *)
(* sequence of cells.  A marker or a chip is two: all of it up to the        *)
(* bracket, and the bracket; the cursor may come between.  Left out are the  *)
(* slash menu, "!" for a shell command, and what is drawn.                   *)
(***************************************************************************)
EXTENDS Integers, Sequences, SequencesExt, FiniteSetsExt

CONSTANTS Width,      \* columns of a line
          MaxText,    \* bound: cells
          MaxUndo,    \* the code keeps 200 states
          MaxKills,   \* and 60 killed texts
          MaxPrompts, \* and 100 prompts
          MaxPastes,  \* bound: pastes
          MaxEdits    \* bound: inputs

VARIABLES
  ed,    \* the Editor
  pasted, \* pastes so far, long ones and files: every one is told apart
  edits,  \* inputs so far
  yankOf, \* the text and the cursor when the last yank began
  odd     \* what happened after which something of the promise is not made

editorVars == <<ed, pasted, edits, yankOf, odd>>

Cell(k, id, of) == [k |-> k, id |-> id, of |-> of]
Letter == Cell("letter", 0, 0)
Space == Cell("space", 0, 0)
Break == Cell("newline", 0, 0)
Body(of) == Cell("body", 0, of)          \* what was pasted
Marker(id, of) == <<Cell("paste", id, of), Cell("bracket", 0, 0)>>
Chip(of) == <<Cell("chip", 1, of), Cell("bracket", 0, 0)>>  \* all files have one name

NoPastes == [id \in 1..MaxPastes |-> 0]
NewEditor == [text |-> <<>>, cursor |-> 0, undo |-> <<>>, kills |-> <<>>, last |-> "", yankStart |-> 0,
          history |-> <<>>, index |-> 0, draft |-> <<>>, pastes |-> NoPastes, counter |-> 0, chip |-> 0, prefer |-> -1]

EditorTypeOK ==
  /\ ed.cursor \in 0..Len(ed.text) /\ ed.yankStart \in Nat /\ ed.index \in 0..Len(ed.history)
  /\ Len(ed.undo) <= MaxUndo /\ Len(ed.kills) <= MaxKills /\ Len(ed.history) <= MaxPrompts
  /\ ed.counter \in 0..MaxPastes /\ ed.chip \in 0..MaxPastes /\ ed.prefer \in -1..Width
  /\ ed.last \in {"", "type-word", "kill", "yank"} /\ pasted \in 0..MaxPastes /\ edits \in 0..MaxEdits

\* Something may have been killed before.
EditorInit ==
  /\ ed \in {NewEditor, [NewEditor EXCEPT !.kills = <<<<Letter>>, <<Space, Letter>>>>]} /\ pasted = 0 /\ edits = 0
  /\ yankOf = [text |-> <<>>, cursor |-> 0]
  /\ odd = {}

----------------------------------------------------------------------------
(* Pieces of the handlers.                                                  *)
Latest(s, n) == IF Len(s) > n THEN SubSeq(s, Len(s) - n + 1, Len(s)) ELSE s
First(s, n) == SubSeq(s, 1, IF Len(s) > n THEN n ELSE Len(s))
From(s, i) == SubSeq(s, i + 1, Len(s))

leaveHistory(e) == [e EXCEPT !.index = 0, !.draft = <<>>]
resetPreferred(e) == [e EXCEPT !.prefer = -1]
\* The end of every change to the text.
changed(e, last) == [leaveHistory(resetPreferred(e)) EXCEPT !.last = last]

\* A state to come back to: the chips are not part of it.
MutPushUndo(e) == [e EXCEPT !.undo = Latest(Append(@, [text |-> e.text, cursor |-> e.cursor, pastes |-> NoPastes, counter |-> e.counter]), MaxUndo)]
pushUndo(e) == [e EXCEPT !.undo = Latest(Append(@, [text |-> e.text, cursor |-> e.cursor, pastes |-> e.pastes, counter |-> e.counter]), MaxUndo)]

insertRaw(e, cells) == [e EXCEPT !.text = SubSeq(@, 1, e.cursor) \o cells \o From(@, e.cursor), !.cursor = @ + Len(cells)]
Without(e, from, to) == [e EXCEPT !.text = SubSeq(@, 1, from) \o From(@, to), !.cursor = from]

\* Killed text joins the one before it if nothing came between.
pushKill(e, cells, prepend, accumulate) ==
  IF accumulate /\ e.kills # <<>>
  THEN [e EXCEPT !.kills[1] = IF prepend THEN cells \o @ ELSE @ \o cells]
  ELSE [e EXCEPT !.kills = First(<<cells>> \o @, MaxKills)]

\* A marker or a chip that begins behind position i.  Only chips the editor knows
\* are atomic.
Whole(e, i, kind) == i >= 0 /\ i + 2 <= Len(e.text) /\ e.text[i + 1].k = kind /\ e.text[i + 2].k = "bracket"
MarkerAt(e, i) == Whole(e, i, "paste")
ChipAt(e, i) == Whole(e, i, "chip") /\ e.chip # 0

removePasteAt(e, i) == IF e.text[i + 1].id \in DOMAIN e.pastes THEN [e EXCEPT !.pastes[e.text[i + 1].id] = 0] ELSE e

----------------------------------------------------------------------------
(* Moves of the cursor.                                                     *)
editorWordClass(cell) == IF cell.k \in {"space", "newline"} THEN 0 ELSE IF cell.k = "bracket" THEN 2 ELSE 1

WordLeft(text, c) ==
  LET words == {j \in 1..c : editorWordClass(text[j]) # 0}
  IN IF words = {} THEN 0
     ELSE Min({k \in 0..(Max(words) - 1) : \A j \in (k + 1)..Max(words) : editorWordClass(text[j]) = editorWordClass(text[Max(words)])})
WordRight(text, c) ==
  LET words == {j \in (c + 1)..Len(text) : editorWordClass(text[j]) # 0}
  IN IF words = {} THEN Len(text)
     ELSE Max({k \in Min(words)..Len(text) : \A j \in Min(words)..k : editorWordClass(text[j]) = editorWordClass(text[Min(words)])})

lineStart(e) == Max({0} \cup {j \in 1..e.cursor : e.text[j].k = "newline"})
lineEnd(e) == Min({Len(e.text)} \cup {j - 1 : j \in {i \in (e.cursor + 1)..Len(e.text) : e.text[i].k = "newline"}})

moveTo(e, c) == [changed(e, "") EXCEPT !.cursor = c]
moveHorizontal(e, direction) ==
  moveTo(e, IF direction < 0
            THEN (IF ChipAt(e, e.cursor - 2) THEN e.cursor - 2 ELSE IF e.cursor > 0 THEN e.cursor - 1 ELSE 0)
            ELSE (IF ChipAt(e, e.cursor) THEN e.cursor + 2 ELSE IF e.cursor < Len(e.text) THEN e.cursor + 1 ELSE e.cursor))
moveWord(e, direction) == moveTo(e, IF direction < 0 THEN WordLeft(e.text, e.cursor) ELSE WordRight(e.text, e.cursor))

\* These leave the last action, and the recalled prompt, as they are.
keyLine(e, c) == [resetPreferred(e) EXCEPT !.cursor = c]

(* The lines on the screen: start and end of each, and whether the text's own *)
(* line ends with it.                                                        *)
ColumnsOf(cell) == IF cell.k \in {"paste", "chip"} THEN 2 ELSE 1
RECURSIVE Columns(_)
Columns(cells) == IF cells = <<>> THEN 0 ELSE ColumnsOf(Head(cells)) + Columns(Tail(cells))

\* A line that is too long is cut behind its last space, or else where it is full.
RECURSIVE wrapEditorLine(_, _, _, _, _)
wrapEditorLine(text, start, pos, end, lastBreak) ==
  IF pos = end THEN <<[start |-> start, end |-> end, logicalEnd |-> TRUE]>>
  ELSE LET columns == Columns(SubSeq(text, start + 1, pos))
           gw == ColumnsOf(text[pos + 1])
           cut == IF lastBreak > start /\ Columns(SubSeq(text, lastBreak + 1, pos)) + gw <= Width THEN lastBreak ELSE pos
           full == columns + gw > Width /\ pos > start
           broken(old) == IF text[pos + 1].k = "space" THEN pos + 1 ELSE old
       IN IF full THEN <<[start |-> start, end |-> cut, logicalEnd |-> FALSE]>> \o wrapEditorLine(text, cut, pos + 1, end, broken(-1))
          ELSE wrapEditorLine(text, start, pos + 1, end, broken(lastBreak))

layout(text) ==
  LET breaks == {j \in DOMAIN text : text[j].k = "newline"}
      ends == SetToSortSeq({j - 1 : j \in breaks} \cup {Len(text)}, <)
  IN FlattenSeq([i \in DOMAIN ends |->
       LET start == IF i = 1 THEN 0 ELSE ends[i - 1] + 1
       IN wrapEditorLine(text, start, start, ends[i], -1)])

OnLine(c, line) == c >= line.start /\ (c < line.end \/ (c = line.end /\ line.logicalEnd))
cursorVisualLine(e) == LET on == {i \in DOMAIN layout(e.text) : OnLine(e.cursor, layout(e.text)[i])}
                       IN IF on = {} THEN Len(layout(e.text)) ELSE Min(on)

byteAtColumn(text, line, target) ==
  Max({c \in line.start..line.end : c = line.start \/ Columns(SubSeq(text, line.start + 1, c)) <= target})

----------------------------------------------------------------------------
(* The handlers.                                                            *)
navigateHistory(e, direction) ==
  LET next == e.index - direction
      was == IF e.index = 0 THEN e.text ELSE e.draft
  IN IF next < 0 \/ next > Len(e.history) THEN e
     ELSE LET shown == IF next = 0 THEN was ELSE e.history[next]
          IN resetPreferred([e EXCEPT !.index = next, !.draft = IF next > 0 THEN was ELSE @, !.text = shown, !.cursor = Len(shown)])

moveVertical(e, delta) ==
  LET lines == layout(e.text)
      at == cursorVisualLine(e)
      target == lines[Max({1, Min({Len(lines), at + delta})})]
      column == IF e.prefer >= 0 THEN e.prefer ELSE Columns(SubSeq(e.text, lines[at].start + 1, e.cursor))
  IN IF delta < 0 /\ at = 1 THEN (IF e.history = <<>> THEN e ELSE navigateHistory(e, -1))
     ELSE IF delta > 0 /\ at = Len(lines) /\ e.index > 0 THEN navigateHistory(e, 1)
     ELSE [leaveHistory(e) EXCEPT !.prefer = column, !.cursor = byteAtColumn(e.text, target, column), !.last = ""]

insertTyped(e, cell) ==
  changed(insertRaw(IF cell = Space \/ e.last # "type-word" THEN pushUndo(e) ELSE e, <<cell>>), "type-word")
InsertText(e, cells) == changed(insertRaw(pushUndo(e), cells), "")

backspace(e) ==
  LET u == pushUndo(e)
  IN IF e.cursor = 0 THEN e
     ELSE IF MarkerAt(e, e.cursor - 2) THEN changed(Without(removePasteAt(u, e.cursor - 2), e.cursor - 2, e.cursor), "")
     ELSE IF ChipAt(e, e.cursor - 2) THEN changed(Without([u EXCEPT !.chip = 0], e.cursor - 2, e.cursor), "")
     ELSE changed(Without(u, e.cursor - 1, e.cursor), "")

deleteForward(e) ==
  LET u == pushUndo(e)
  IN IF e.cursor = Len(e.text) THEN e
     ELSE IF MarkerAt(e, e.cursor) THEN changed(Without(removePasteAt(u, e.cursor), e.cursor, e.cursor + 2), "")
     ELSE IF ChipAt(e, e.cursor) THEN changed(Without([u EXCEPT !.chip = 0], e.cursor, e.cursor + 2), "")
     ELSE changed(Without(u, e.cursor, e.cursor + 1), "")

deleteRange(e, start, end, prepend) ==
  IF start = end THEN e
  ELSE changed(Without(pushKill(pushUndo(e), SubSeq(e.text, start + 1, end), prepend, e.last = "kill"), start, end), "kill")

deleteWord(e, direction) ==
  LET target == moveWord(e, direction).cursor
  IN IF target = e.cursor THEN moveWord(e, direction)
     ELSE deleteRange(leaveHistory(e), Min({e.cursor, target}), Max({e.cursor, target}), direction < 0)

yank(e) ==
  IF e.kills = <<>> THEN e
  ELSE [resetPreferred(insertRaw([pushUndo(e) EXCEPT !.yankStart = e.cursor], e.kills[1])) EXCEPT !.last = "yank"]

yankPop(e) ==
  IF e.last # "yank" \/ Len(e.kills) < 2 THEN e
  ELSE LET cut == [pushUndo(e) EXCEPT !.text = SubSeq(@, 1, e.yankStart) \o From(@, e.cursor), !.cursor = e.yankStart,
                                      !.kills = Append(Tail(@), Head(@))]
       IN resetPreferred(insertRaw(cut, cut.kills[1]))

undoLast(e) ==
  IF e.undo = <<>> THEN e
  ELSE LET s == Last(e.undo)
       IN changed([e EXCEPT !.undo = Front(@), !.text = s.text, !.cursor = s.cursor, !.pastes = s.pastes, !.counter = s.counter], "")

pasteLong(e, of) ==
  LET id == e.counter + 1
  IN changed(insertRaw([pushUndo(e) EXCEPT !.counter = id, !.pastes[id] = of], Marker(id, of)), "")
pasteFile(e, of) == changed(insertRaw([pushUndo(e) EXCEPT !.chip = of], Append(Chip(of), Space)), "")

SetText(e, cells) ==
  changed([(IF cells # e.text THEN pushUndo(e) ELSE e) EXCEPT !.text = cells, !.cursor = Len(cells), !.pastes = NoPastes,
                                                            !.counter = 0, !.chip = 0], e.last)

\* Every whole marker whose paste is known is replaced by the paste.
ExpandedText(e) ==
  FlattenSeq([i \in DOMAIN e.text |->
    IF MarkerAt(e, i - 1) /\ e.pastes[e.text[i].id] # 0 THEN <<Body(e.pastes[e.text[i].id])>>
    ELSE IF i > 1 /\ MarkerAt(e, i - 2) /\ e.pastes[e.text[i - 1].id] # 0 THEN <<>>
    ELSE <<e.text[i]>>])
Trimmed(cells) ==
  LET said == {i \in DOMAIN cells : editorWordClass(cells[i]) # 0}
  IN IF said = {} THEN <<>> ELSE SubSeq(cells, Min(said), Max(said))

AddToHistory(e, cells) ==
  IF e.history # <<>> /\ e.history[1] = cells THEN e ELSE [e EXCEPT !.history = First(<<cells>> \o @, MaxPrompts)]
takeSubmission(e) ==
  LET value == Trimmed(ExpandedText(e))
  IN IF value = <<>> THEN e
     ELSE changed([AddToHistory(e, value) EXCEPT !.text = <<>>, !.cursor = 0, !.undo = <<>>, !.pastes = NoPastes, !.counter = 0, !.chip = 0], "")

----------------------------------------------------------------------------
(* Inputs.                                                                  *)
\* A chip's label stands for one file: a second file of that name takes it over.
\* A yanked marker may stand for a paste that is no longer known by its number, or
\* be a copy, which shares its paste with the marker it was copied from; and half a
\* marker that was sent may be recalled and given its bracket.
\* Home, End, a recalled prompt and SetText leave the last action: after a yank, the
\* next yank-pop cuts at the wrong place, or fails where the text is too short.
Cells(s) == {s[i] : i \in DOMAIN s}
SharedPaste(e, cells) == \E c \in Cells(cells) : c.k = "paste" /\ (c \in Cells(e.text) \/ e.pastes[c.id] # c.of)

Do(e) ==
  /\ ed' = e
  /\ odd' = odd \cup (IF e.last = "yank" /\ <<e.text, e.cursor>> # <<ed.text, ed.cursor>> THEN {"strayed"} ELSE {})
                   \cup (IF \E t \in Cells(e.history) : \E c \in Cells(t) : c.k = "paste" THEN {"copied"} ELSE {})
  /\ UNCHANGED <<pasted, yankOf>>

Edit ==
  \/ Do(insertTyped(ed, Letter)) \/ Do(insertTyped(ed, Space)) \/ Do(InsertText(ed, <<Break>>))
  \/ Do(backspace(ed)) \/ Do(deleteForward(ed)) \/ Do(undoLast(ed))
  \/ \E d \in {-1, 1} : Do(deleteWord(ed, d)) \/ Do(moveWord(ed, d)) \/ Do(moveHorizontal(ed, d)) \/ Do(moveVertical(ed, d))
  \/ \E d \in {-1, 1} : ed.history # <<>> /\ Do(navigateHistory(ed, d))
  \/ Do(deleteRange(ed, lineStart(ed), ed.cursor, TRUE)) \/ Do(deleteRange(ed, ed.cursor, lineEnd(ed), FALSE))
  \/ Do(takeSubmission(ed)) \/ Do(SetText(ed, <<Letter>>))
  \/ \E c \in {lineStart(ed), lineEnd(ed)} : Do(keyLine(ed, c))

Copied(cells) == IF SharedPaste(ed, cells) THEN {"copied"} ELSE {}
Yank ==
  /\ ed.kills # <<>>
  /\ ed' = yank(ed)
  /\ yankOf' = [text |-> ed.text, cursor |-> ed.cursor]
  /\ odd' = (odd \ {"strayed"}) \cup Copied(ed.kills[1])
  /\ UNCHANGED pasted

YankPop ==
  /\ ed.last = "yank" /\ Len(ed.kills) >= 2 /\ ed.yankStart <= Len(ed.text)
  /\ ed' = yankPop(ed)
  /\ odd' = odd \cup Copied(ed.kills[2])
  /\ UNCHANGED <<pasted, yankOf>>

Paste ==
  /\ pasted < MaxPastes /\ pasted' = pasted + 1
  /\ \/ ed' = pasteLong(ed, pasted') /\ UNCHANGED odd
     \/ ed' = pasteFile(ed, pasted') /\ odd' = odd \cup (IF pasted > 0 THEN {"samename"} ELSE {})
  /\ UNCHANGED yankOf

EditorNext ==
  /\ edits < MaxEdits /\ edits' = edits + 1
  /\ Edit \/ Yank \/ YankPop \/ Paste
  /\ Len(ed'.text) <= MaxText

EditorSpec == EditorInit /\ [][EditorNext]_editorVars

----------------------------------------------------------------------------
\* "no chip silently points at the wrong file" (chips.go:236): whatever is typed,
\* deleted, undone, killed, recalled and pasted, a marker in the text stands for
\* what was pasted when it appeared, and a chip for its own file or for none.
PastesKept ==
  \A i \in DOMAIN ed.text :
    /\ MarkerAt(ed, i - 1) /\ "copied" \notin odd => ed.pastes[ed.text[i].id] = ed.text[i].of
    /\ ChipAt(ed, i - 1) /\ "samename" \notin odd => ed.chip = ed.text[i].of

\* After a yank and any number of yank-pops the text is the one before the yank
\* with the killed text of the turn in it.
YankReplaces ==
  ed.last = "yank" /\ "strayed" \notin odd =>
    ed.text = SubSeq(yankOf.text, 1, yankOf.cursor) \o ed.kills[1] \o From(yankOf.text, yankOf.cursor)

\* The cursor, wherever it may go, is on exactly one line of the screen, and no
\* line is wider than the screen unless it is one cell.
CursorOnOneLine ==
  LET lines == layout(ed.text)
  IN /\ \A c \in 0..Len(ed.text) : Cardinality({i \in DOMAIN lines : OnLine(c, lines[i])}) = 1
     /\ \A i \in DOMAIN lines : Columns(SubSeq(ed.text, lines[i].start + 1, lines[i].end)) <= Width \/ lines[i].end = lines[i].start + 1

TextKept == PastesKept /\ YankReplaces /\ CursorOnOneLine
=============================================================================
