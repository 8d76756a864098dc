---------------------------- MODULE MainScreen ----------------------------
(***************************************************************************)
(* The renderer of the main screen (internal/tui/main_screen.go): a frame   *)
(* is drawn by moving the terminal's cursor from where the renderer thinks  *)
(* it is and rewriting the rows that changed; only what cannot be reached   *)
(* that way is drawn from nothing.  The terminal (external) is the rows it  *)
(* keeps from the frame's first one on, scrolled out or not, and a cursor   *)
(* that relative moves cannot take off the screen.  Rows count from 0.      *)
(* Images and Termux, which keeps its rows at a resize, are left out.       *)
(***************************************************************************)
EXTENDS Naturals, Integers, Sequences, SequencesExt, FiniteSetsExt

CONSTANTS Lines,    \* what a row of a frame can hold
          MaxLines, \* bound: the rows of a frame
          Sizes,    \* sizes of the terminal, [w, h]
          Blank, Mixed \* an empty row, and one drawn over another

VARIABLES
  size,        \* the terminal's size
  rows, cur,   \* the terminal's rows, and the row of its cursor
  drawn,       \* t.previousLines
  drawnSize,   \* t.previousWidth, t.previousHeight
  hardwareRow, \* t.hardwareCursorRow
  maxRendered, \* t.maxLinesRendered
  viewportTop, \* t.previousViewportTop
  clearOnShrink, ended,
  adrift       \* the cursor was sent to a row above the viewport, where it cannot go, or the
               \* terminal was resized and back between two frames

screenVars == <<size, rows, cur, drawn, drawnSize, hardwareRow, maxRendered, viewportTop, clearOnShrink, ended, adrift>>

Frames == UNION {[1..n -> Lines] : n \in 0..MaxLines}
NoSize == [w |-> 0, h |-> 0]
Forgotten == [w |-> -1, h |-> -1]

ScreenTypeOK ==
  /\ size \in Sizes /\ drawnSize \in Sizes \cup {NoSize, Forgotten}
  /\ ToSet(rows) \subseteq Lines \cup {Blank, Mixed} /\ Len(rows) >= size.h /\ cur \in 0..(Len(rows) - 1)
  /\ drawn \in Seq(Lines) /\ hardwareRow \in 0..MaxLines /\ maxRendered \in 0..MaxLines /\ viewportTop \in 0..MaxLines
  /\ clearOnShrink \in BOOLEAN /\ ended \in BOOLEAN /\ adrift \in BOOLEAN

(* The shell's output is above the cursor, and nothing below it.            *)
ScreenInit ==
  /\ size \in Sizes /\ cur \in 0..(size.h - 1)
  /\ rows = [i \in 1..size.h |-> IF i <= cur THEN Mixed ELSE Blank]
  /\ drawn = <<>> /\ drawnSize = NoSize /\ hardwareRow = 0 /\ maxRendered = 0 /\ viewportTop = 0
  /\ clearOnShrink \in BOOLEAN /\ ended = FALSE /\ adrift = FALSE

----------------------------------------------------------------------------
(* The terminal: what one piece of output does to [rows, cur].              *)
Top(t) == Len(t.rows) - size.h
Within(t, r) == Max({Top(t), Min({Len(t.rows) - 1, r})})
Put(t, l) == [t EXCEPT !.rows[t.cur + 1] = l]
Exec(t, op) ==
  CASE op[1] = "move" -> [t EXCEPT !.cur = Within(t, t.cur + op[2])]
    [] op[1] = "nl" -> [rows |-> IF t.cur = Len(t.rows) - 1 THEN Append(t.rows, Blank) ELSE t.rows, cur |-> t.cur + 1]
    [] op[1] = "clear" -> Put(t, Blank)
    [] op[1] = "line" -> Put(t, IF t.rows[t.cur + 1] = Blank THEN op[2] ELSE Mixed)
    [] op[1] = "wipe" -> [rows |-> [i \in 1..size.h |-> Blank], cur |-> 0]

Written(t, ops) == FoldLeft(Exec, t, ops)

Move(n) == <<<<"move", n>>>>
NewLine == <<<<"nl">>>>
Clear == <<<<"clear">>>>
Wipe == <<<<"wipe">>>>
Times(n, ops) == FlattenSeq([i \in 1..n |-> ops])

(* The renderer's answer to a frame: what it writes, and where it then      *)
(* believes the cursor and the top of the viewport to be.                   *)
Answer(ops, hw, top, most) == [ops |-> ops, hw |-> hw, top |-> top, most |-> most]

MutFullRender(new, clear) ==
  Answer((IF clear THEN Wipe ELSE <<>>)
           \o FlattenSeq([i \in 1..Len(new) |-> (IF i > 1 THEN NewLine ELSE <<>>) \o <<<<"line", new[i]>>>>]),
         Len(new) - 1, Max({0, Len(new) - size.h}), IF clear THEN Len(new) ELSE Max({maxRendered, Len(new)}))
fullRender(new, clear) ==
  Answer((IF clear THEN Wipe ELSE <<>>)
           \o FlattenSeq([i \in 1..Len(new) |-> (IF i > 1 THEN NewLine ELSE <<>>) \o <<<<"line", new[i]>>>>]),
         Max({0, Len(new) - 1}), Max({0, Len(new) - size.h}),
         IF clear THEN Len(new) ELSE Max({maxRendered, Len(new)}))

LineAt(f, i) == IF i < Len(f) THEN f[i + 1] ELSE Blank
Changed(new) == {i \in 0..(Max({Len(new), Len(drawn)}) - 1) : LineAt(drawn, i) # LineAt(new, i)}
Extra(new) == Len(drawn) - Len(new)

(* Rows went from the end only: they are cleared below the last row kept.   *)
Truncated(new) ==
  LET kept == Max({0, Len(new) - 1})
      below == IF new = <<>> THEN 0 ELSE 1
  IN Answer(Move(kept - hardwareRow) \o Move(below) \o Clear \o Times(Extra(new) - 1, Move(1) \o Clear)
              \o Move(-(Extra(new) - 1 + below)),
            kept, viewportTop, maxRendered)

(* From the first changed row to the last, then the rows that went.         *)
Rewritten(new) ==
  LET first == Min(Changed(new))
      end == Min({Max(Changed(new)), Len(new) - 1})
      append == first = Len(drawn)
      start == (IF append THEN first - 1 ELSE first)
      final == IF Extra(new) > 0 THEN Len(new) - 1 ELSE end
  IN Answer(Move(start - hardwareRow) \o (IF append THEN NewLine ELSE <<>>)
              \o FlattenSeq([i \in 1..(end - first + 1) |->
                   (IF i > 1 THEN NewLine ELSE <<>>) \o Clear \o <<<<"line", new[first + i]>>>>])
              \o (IF Extra(new) > 0
                  THEN Move(final - end) \o Times(Extra(new), NewLine \o Clear) \o Move(-Extra(new))
                  ELSE <<>>),
            final, Max({viewportTop, final - size.h + 1}), Max({maxRendered, Len(new)}))

(* renderMainScreenLocked chooses; positionHardwareCursor follows.          *)
Resized == drawnSize # NoSize /\ drawnSize # size
Shrunk(new) == clearOnShrink /\ Len(new) < maxRendered
Cut(new) == Changed(new) # {} /\ Min(Changed(new)) >= Len(new)
Unreachable(new) ==
  /\ Changed(new) # {}
  /\ IF Cut(new) THEN Max({0, Len(new) - 1}) < viewportTop \/ Extra(new) > size.h
                 ELSE Min(Changed(new)) < viewportTop

Draw(new, overlays) ==
  IF drawn = <<>> /\ ~Resized THEN fullRender(new, FALSE)
  ELSE IF Resized \/ (Shrunk(new) /\ ~overlays) \/ Unreachable(new) THEN fullRender(new, TRUE)
  ELSE IF Changed(new) = {} THEN Answer(<<>>, hardwareRow, viewportTop, maxRendered)
  ELSE IF Cut(new) THEN Truncated(new)
  ELSE Rewritten(new)

(* The rows above both the frame and the screen are forgotten.              *)
Kept(t, hw) ==
  LET gone == Max({0, Min({t.cur - hw, Top(t)})})
  IN rows' = SubSeq(t.rows, gone + 1, Len(t.rows)) /\ cur' = t.cur - gone

render(new, overlays) ==
  /\ ~ended
  /\ LET d == Draw(new, overlays)
         t == Written([rows |-> rows, cur |-> cur], d.ops)
     IN /\ \E row \in {-1} \cup (Max({0, Len(new) - size.h})..(Len(new) - 1)) :
             LET hw == IF row = -1 THEN d.hw ELSE row
             IN /\ Kept(Exec(t, Move(hw - d.hw)[1]), hw)
                /\ hardwareRow' = hw
                /\ adrift' = ((adrift /\ (d.ops = <<>> \/ Head(d.ops) # Head(Wipe))) \/ row \in 0..(d.top - 1))
        /\ viewportTop' = d.top /\ maxRendered' = d.most
  /\ drawn' = new /\ drawnSize' = size
  /\ UNCHANGED <<size, clearOnShrink, ended>>

(* A forced render forgets what was drawn; the size is what makes the next  *)
(* frame start from nothing.                                                *)
resetRenderState ==
  /\ ~ended
  /\ drawn' = <<>> /\ drawnSize' = Forgotten
  /\ hardwareRow' = 0 /\ maxRendered' = 0 /\ viewportTop' = 0
  /\ UNCHANGED <<size, rows, cur, clearOnShrink, ended, adrift>>

(* A resize after the first frame leaves whatever the terminal makes of it. *)
Resize(s) ==
  /\ ~ended /\ s # size /\ drawnSize # NoSize
  /\ size' = s /\ rows' = [i \in 1..s.h |-> Mixed] /\ cur' \in 0..(s.h - 1)
  /\ adrift' = (adrift \/ s = drawnSize)
  /\ UNCHANGED <<drawn, drawnSize, hardwareRow, maxRendered, viewportTop, clearOnShrink, ended>>

(* beforeTerminalStop writes a space where the cursor is and leaves the      *)
(* cursor below the frame, for the shell.                                   *)
StopScreen ==
  /\ ~ended /\ ended' = TRUE
  /\ IF drawn = <<>> THEN UNCHANGED <<rows, cur>>
     ELSE Kept(Written([rows |-> rows, cur |-> cur],
                       <<<<"line", Blank>>>> \o Move(Len(drawn) - hardwareRow) \o NewLine), Len(drawn))
  /\ UNCHANGED <<size, drawn, drawnSize, hardwareRow, maxRendered, viewportTop, clearOnShrink, adrift>>

ScreenNext ==
  \/ \E new \in Frames, overlays \in {FALSE, clearOnShrink} : render(new, overlays)
  \/ \E s \in Sizes : Resize(s)
  \/ resetRenderState \/ StopScreen

ScreenSpec == ScreenInit /\ [][ScreenNext]_screenVars

----------------------------------------------------------------------------
(* Whatever was drawn before, and by whichever shortcut, the terminal shows *)
(* the last frame and nothing else: from the row where the renderer         *)
(* believes its cursor to be, the frame's rows are where they belong, on    *)
(* the screen or scrolled out, and the rows after it are empty; a renderer  *)
(* that stopped leaves the shell an empty row with nothing below.  A frame  *)
(* that shrank keeps the viewport (main_screen.go:598) but looks for its    *)
(* cursor in its own last rows (overlay.go:751): a cursor above the         *)
(* viewport suspends the promise until the next frame drawn from nothing,   *)
(* and so does a resize undone before the next frame.                       *)
ScreenShowsFrame ==
  LET origin == cur - hardwareRow
      Below(r) == ToSet(SubSeq(rows, r + 1, Len(rows)))
  IN drawnSize = size /\ drawn # <<>> /\ ~adrift =>
       IF ended THEN Below(cur) \subseteq {Blank}
       ELSE /\ origin >= 0 /\ origin + Len(drawn) <= Len(rows)
            /\ SubSeq(rows, origin + 1, origin + Len(drawn)) = drawn
            /\ Below(origin + Len(drawn)) \subseteq {Blank}
=============================================================================
