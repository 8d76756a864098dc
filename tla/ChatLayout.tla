--------------------------- MODULE ChatLayout ---------------------------
(***************************************************************************)
(* Who gets which rows of the screen (internal/tui stack.go, layout.go and  *)
(* the chat's composition in chat_viewport.go): a gap, the header, the      *)
(* transcript, the dock with its own four parts and a gap again share the   *)
(* screen's rows; what a part loses is cut off, and the cursor must not be. *)
(***************************************************************************)
EXTENDS Naturals, Integers, Sequences, SequencesExt, FiniteSetsExt

CONSTANTS MaxScreen, MaxDock

VARIABLE shape \* the screen's height and the rows each part wants

layoutVars == <<shape>>

Unbounded == 99

Entry(basis, grow, shrink, least) == [basis |-> basis, grow |-> grow, shrink |-> shrink, min |-> least, max |-> Unbounded]

LayoutTotal(s) == FoldLeft(LAMBDA a, b : a + b, 0, s)

-----------------------------------------------------------------------------
clampStackSize(size, e) == Max({e.min, Min({Max({e.min, e.max}), size})})

Candidates(sizes, entries, grow) ==
  {i \in 1..Len(entries) : IF grow THEN entries[i].grow > 0 /\ sizes[i] < entries[i].max
                           ELSE entries[i].shrink > 0 /\ sizes[i] > entries[i].min}

(* One pass over the candidates: each takes its weighted share of what is   *)
(* still left, at least one row and no more than its room.                  *)
Distribute(sizes, entries, remaining, grow) ==
  LET able == Candidates(sizes, entries, grow)
      Weight(i) == IF grow THEN entries[i].grow ELSE entries[i].shrink * Max({1, sizes[i]})
      total == LayoutTotal([i \in 1..Len(entries) |-> IF i \in able THEN Weight(i) ELSE 0])
      Take(s, i) ==
        LET room == IF grow THEN entries[i].max - s.sizes[i] ELSE s.sizes[i] - entries[i].min
            delta == Min({s.left, Max({1, (s.left * Weight(i)) \div total}), room})
        IN  IF i \notin able \/ s.left = 0 THEN s
            ELSE [sizes |-> [s.sizes EXCEPT ![i] = IF grow THEN @ + delta ELSE @ - delta], left |-> s.left - delta]
  IN  FoldLeft(Take, [sizes |-> sizes, left |-> remaining], [i \in 1..Len(entries) |-> i])

RECURSIVE distributeStackSizes(_, _, _, _)
distributeStackSizes(sizes, entries, remaining, grow) ==
  IF remaining = 0 \/ Candidates(sizes, entries, grow) = {} THEN sizes
  ELSE LET pass == Distribute(sizes, entries, remaining, grow)
       IN  IF pass.left = remaining THEN pass.sizes ELSE distributeStackSizes(pass.sizes, entries, pass.left, grow)

(* available < 0: the stack may be as tall as it wants.                     *)
AllocateStackSizes(entries, natural, available) ==
  LET wanted == [i \in 1..Len(entries) |-> clampStackSize(IF entries[i].basis >= 0 THEN entries[i].basis ELSE natural[i], entries[i])]
      total == LayoutTotal(wanted)
  IN  IF available < 0 \/ total = available THEN wanted
      ELSE IF total < available THEN distributeStackSizes(wanted, entries, available - total, TRUE)
      ELSE distributeStackSizes(wanted, entries, total - available, FALSE)

-----------------------------------------------------------------------------
(* NewChatViewport.                                                         *)
Gap == Entry(-1, 0, 1, 0)
RootEntries == <<Gap, Entry(-1, 0, 0, 1), Entry(0, 1, 1, 1), Entry(-1, 0, 1, 1), Gap>>
DockEntries == <<Entry(-1, 0, 0, 1), Entry(-1, 0, 1, 0), Entry(-1, 0, 1, 3), Entry(-1, 0, 1, 1)>>

DockWants == <<1, shape.pending, shape.editor, 1>>
RootWants == <<shape.padding, shape.header, shape.document, LayoutTotal(AllocateStackSizes(DockEntries, DockWants, -1)), shape.padding>>

Boxes(y, sizes, clip) ==
  [i \in 1..Len(sizes) |->
     LET top == y + LayoutTotal([k \in 1..i - 1 |-> sizes[k]])
     IN  [y |-> top, height |-> sizes[i], rows |-> (top..(top + sizes[i] - 1)) \cap clip]]

RootBoxes == Boxes(0, AllocateStackSizes(RootEntries, RootWants, shape.screen), 0..(shape.screen - 1))
DockBoxes(root) == Boxes(root[4].y, AllocateStackSizes(DockEntries, DockWants, root[4].height), root[4].rows)

(* A leaf taller than its box shows its first lines, or those that end with *)
(* the cursor's.                                                            *)
LineOffset(lines, height, cursor) == IF lines > height /\ height > 0 /\ cursor >= height THEN cursor - height + 1 ELSE 0
LineAtRow(box, lines, cursor, row) == LineOffset(lines, box.height, cursor) + row - box.y

(* A press goes to the deepest box that holds its row.                      *)
PartAt(root, row) ==
  LET dock == DockBoxes(root)
      Hit(boxes) == {i \in 1..Len(boxes) : row \in boxes[i].rows}
  IN  IF 4 \in Hit(root) THEN {<<"dock", i>> : i \in Hit(dock)} ELSE {<<"root", i>> : i \in Hit(root)}

-----------------------------------------------------------------------------
JsRound(n, d) == (2 * n + d) \div (2 * d)

(* GetScrollbarGeometry: where the thumb stands in its track.               *)
Thumb(content, track, top) ==
  LET height == IF content = 0 THEN track ELSE Max({Min({2, track}), Min({track, JsRound(track * track, content)})})
      hidden == Max({0, content - track})
  IN  [height |-> height, offset |-> IF hidden = 0 THEN 0 ELSE JsRound(top * (track - height), hidden)]

(* resolveOverlayLayout along one axis: anchored at the start, in the       *)
(* middle or at the end of what the margins leave.                          *)
PlaceOverlay(anchor, size, screen, margin) ==
  LET room == Max({1, screen - 2 * margin})
      at == CASE anchor = "start" -> margin [] anchor = "end" -> margin + room - size [] OTHER -> margin + (room - size) \div 2
  IN  Max({margin, Min({at, screen - margin - size})})
OverlayWidth(asked, least, screen, margin) == Max({1, Min({Max({asked, least}), Max({1, screen - 2 * margin})})})

-----------------------------------------------------------------------------
LayoutInit == shape = [screen |-> 24, padding |-> 1, header |-> 3, pending |-> 0, editor |-> 3, cursor |-> 1, document |-> 1]

SetPadding(v) == LET kept == Max({0, Min({4, v})}) IN kept # shape.padding /\ shape' = [shape EXCEPT !.padding = kept]
Resized(n)    == n # shape.screen /\ shape' = [shape EXCEPT !.screen = n]
CompactHeader == shape' = [shape EXCEPT !.header = IF @ = 3 THEN 2 ELSE 3]
Queued(n)     == n # shape.pending /\ shape' = [shape EXCEPT !.pending = n]
Typed(n, c)   == /\ <<n, c>> # <<shape.editor, shape.cursor>>
                 /\ shape' = [shape EXCEPT !.editor = n, !.cursor = c]

LayoutNext ==
  \/ \E v \in {-1, 0, 1, 5} : SetPadding(v)
  \/ \E n \in 1..MaxScreen : Resized(n)
  \/ CompactHeader
  \/ \E n \in 0..2 : Queued(n)
  \/ \E n \in 3..MaxDock : \E c \in {1, n - 2} : Typed(n, c)

(* The parts share the screen: they fill it exactly when their least sizes  *)
(* fit, none goes below its least size or past what it asked while another  *)
(* goes without, and nobody loses a row to a transcript that has one to     *)
(* spare.  Two parts never paint the same row, and a press finds the part   *)
(* painted there.  As long as the dock has room for its own parts, the      *)
(* editor shows the row of the cursor.                                      *)
RowsShared ==
  \A root \in {RootBoxes} : \A dock \in {DockBoxes(root)} :
    LET sizes == [i \in 1..5 |-> root[i].height]
        screen == 0..(shape.screen - 1)
    IN  /\ LayoutTotal(sizes) = Max({shape.screen, shape.header + 2})
        /\ \A i \in {1, 4, 5} : sizes[i] <= RootWants[i] /\ (sizes[i] < RootWants[i] => sizes[3] = 1)
        /\ sizes[2] = shape.header
        /\ \A row \in screen : Cardinality(PartAt(root, row)) <= 1 /\ (sizes[4] >= 5 => PartAt(root, row) # {})
        /\ sizes[4] >= 5 =>
             /\ LayoutTotal([i \in 1..4 |-> dock[i].height]) = sizes[4]
             /\ (\A row \in root[4].y..(root[4].y + sizes[4] - 1) : row \in screen) =>
                  \E row \in dock[3].rows : LineAtRow(dock[3], shape.editor, shape.cursor, row) = shape.cursor

(* The thumb stays in its track, moves only the way the rows do, and stands *)
(* at either end when the rows do.                                          *)
ThumbTrue ==
  \A content \in 0..12, track \in 1..6 :
    LET hidden == Max({0, content - track})
        At(top) == Thumb(content, track, top)
    IN  \A top \in 0..hidden :
          /\ At(top).height \in 1..track /\ At(top).offset \in 0..(track - At(top).height)
          /\ top > 0 => At(top).offset >= At(top - 1).offset
          /\ At(0).offset = 0 /\ (hidden > 0 => At(hidden).offset + At(hidden).height = track)

(* An overlay lies within the margins whenever they leave it a cell.        *)
OverlayInside ==
  \A screen \in 1..MaxScreen, asked \in 1..6, anchor \in {"start", "middle", "end"}, margin \in 0..1 :
    LET size == OverlayWidth(asked, 3, screen, margin)
        at == PlaceOverlay(anchor, size, screen, margin)
    IN  screen > 2 * margin => at >= margin /\ at + size <= screen - margin

LayoutKept == RowsShared /\ ThumbTrue /\ OverlayInside
=============================================================================
