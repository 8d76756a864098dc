------------------------------ MODULE Viewport ------------------------------
(***************************************************************************)
(* The window on the transcript in the alternate screen                     *)
(* (internal/tui/scroll_view.go, alt_screen.go, alt_screen_search.go,        *)
(* alt_screen_selection.go): it follows the end while answers stream in,     *)
(* stays where the user scrolled to, shows the match a search selected, and  *)
(* scrolls by itself while a selection is dragged along its edge.  Handlers  *)
(* only change what the next frame lays out; the timer of the scrolling      *)
(* drag is a goroutine of its own.  A row is told apart by the word it       *)
(* holds; columns, wrapped matches, overlays and the scrollbar are left out. *)
(***************************************************************************)
EXTENDS Naturals, Integers, Sequences, SequencesExt, FiniteSetsExt

CONSTANTS
  MaxRows,  \* bound: rows of the transcript
  Heights,  \* the heights the dock leaves to the window
  Budgets,  \* bounds: how many changes, keys and mouse events a behaviour may have
  MaxGenerations \* bound: generations of the drag's timer

ASSUME ViewportAssumption == Heights \subseteq Nat \ {0} /\ Heights # {}

Words == {"prompt", "hit"}

VARIABLES
  document, \* the rows the transcript renders to now
  height,   \* the height the next layout gives the window
  window,   \* ScrollView: currentScrollTop, contentHeight, viewportHeight, followingEnd, followSuppressed
  frame,    \* currentLayout's ScrollContent, and the row drawn on top
  search,   \* activeSearch; query is a word or "" and key a row or -1
  selection,
  auto,     \* the generation, the timer's (0: nil), direction and pointer (-1: nil)
  dragTimers,   \* per generation: where its goroutine is, and the direction and pointer it read
  wants,    \* history: what the user last asked the window to show
  copied,   \* history: the last copy, with the rows seen under press and release
  left      \* what is left of the bounds

viewportVars == <<document, height, window, frame, search, selection, auto, dragTimers, wants, copied, left>>

Closed == [open |-> FALSE, query |-> "", selected |-> -1, count |-> 0, key |-> -1, anchor |-> 0, mode |-> "retain",
           lines |-> <<>>, asked |-> "none", result |-> <<-1, 0>>]
Point(row, col) == [row |-> row, col |-> col]
NoPoint == Point(-1, -1)
Unselected == [pressed |-> FALSE, anchor |-> NoPoint, focus |-> NoPoint, initial |-> <<>>, seen |-> -1]
NoCopy == [rows |-> {}, seen |-> {}, kept |-> {}]

ViewportInit ==
  /\ document \in UNION {[1..n -> Words] : n \in 0..MaxRows}
  /\ height \in Heights
  /\ window = [top |-> 0, content |-> 0, height |-> 0, following |-> TRUE, suppressed |-> FALSE]
  /\ frame = [lines |-> <<>>, top |-> 0]
  /\ search = Closed /\ selection = Unselected
  /\ auto = [generation |-> 0, timer |-> 0, direction |-> 0, pointer |-> -1]
  /\ dragTimers = [g \in 1..MaxGenerations |-> [at |-> "none", direction |-> 0, pointer |-> -1]]
  /\ wants = [what |-> "end", row |-> 0] /\ copied = NoCopy
  /\ left \in Budgets

Between(low, x, high) == Max({low, Min({high, x})})

(***************************************************************************)
(* ScrollView.                                                              *)
(***************************************************************************)
MaxTop(w) == Max({0, w.content - w.height})

ScrolledTo(w, row, disableFollow) ==
  LET next == Between(0, row, MaxTop(w))
      held == disableFollow /\ next = MaxTop(w)
  IN [w EXCEPT !.top = next, !.suppressed = held, !.following = ~held /\ next = MaxTop(w)]

\* What is left of the movement decides whether a drag goes on scrolling.
ScrolledBy(w, lines) ==
  LET start == IF w.following THEN MaxTop(w) ELSE w.top
      next == Between(0, start + lines, MaxTop(w))
  IN [window |-> [w EXCEPT !.top = next, !.following = next = MaxTop(w), !.suppressed = FALSE],
      remaining |-> lines - (next - start)]

Shrinks(w, rows, h) == w.following /\ h < w.height /\ rows <= w.content
UpdateLayout(w, rows, h) ==
  LET sized == [w EXCEPT !.content = rows, !.height = h]
      most == MaxTop(sized)
      top == IF w.following /\ ~Shrinks(w, rows, h) THEN most ELSE Between(0, w.top, most)
      suppressed == w.suppressed /\ top >= most
  IN [sized EXCEPT !.top = top, !.suppressed = suppressed, !.following = @ \/ (top = most /\ ~suppressed)]

\* What a movement of the user asks for: the end, or that the window stays.
Asked(w) == [what |-> IF w.top = MaxTop(w) THEN "end" ELSE "stay", row |-> w.top]

(***************************************************************************)
(* The search.                                                              *)
(***************************************************************************)
Matches(lines, query) == SetToSortSeq({r \in 0..Len(lines) - 1 : lines[r + 1] = query}, <)

\* The first match at or below the anchor, or the first one.
FromAnchor(matches, row) ==
  LET below == {i \in 0..Len(matches) - 1 : matches[i + 1] >= row} IN IF below = {} THEN 0 ELSE Min(below)

\* The match that the selection mode asks for; exact is where the selected one is now, or -1.
Chosen(s, matches, exact) ==
  LET n == Len(matches)
      base == IF exact >= 0 THEN exact ELSE Min({s.selected, n - 1})
  IN CASE n = 0 -> -1
       [] s.mode = "query" -> FromAnchor(matches, s.anchor)
       [] s.mode = "next" -> IF base < 0 THEN 0 ELSE (base + 1) % n
       [] s.mode = "previous" -> IF base < 0 THEN n - 1 ELSE (base - 1 + n) % n
       [] OTHER -> IF exact >= 0 THEN exact ELSE Min({Max({0, s.selected}), n - 1})

refreshSearch(s, lines) ==
  LET changed == s.lines # lines \/ s.asked # s.query
      matches == Matches(lines, s.query)
      exact == IF ~changed THEN s.selected ELSE IF s.key \in Range(matches) THEN FromAnchor(matches, s.key) ELSE -1
      chosen == Chosen(s, matches, exact)
  IN IF s.query = "" THEN [s EXCEPT !.selected = -1, !.count = 0, !.key = -1, !.mode = "retain", !.result = <<-1, 0>>]
     ELSE IF ~changed /\ s.mode = "retain" THEN s
     ELSE [s EXCEPT !.lines = lines, !.asked = s.query, !.selected = chosen, !.count = Len(matches), !.mode = "retain",
                    !.key = IF chosen < 0 THEN -1 ELSE matches[chosen + 1], !.result = <<chosen, Len(matches)>>]

Revealed(w, row) ==
  ScrolledTo(w, IF row \in w.top..w.top + w.height - 1 THEN w.top ELSE row - w.height \div 3, TRUE)

(***************************************************************************)
(* A frame: the window is laid out, the search may move it, and what is      *)
(* drawn is what a pointer then points at.                                   *)
(***************************************************************************)
Frame ==
  LET laid == UpdateLayout(window, Len(document), height)
      found == IF search.open THEN refreshSearch(search, document) ELSE search
      reveals == search.open /\ search.mode # "retain" /\ found.key >= 0
      moved == IF reveals THEN Revealed(laid, found.key) ELSE laid
      final == IF moved.top # laid.top THEN UpdateLayout(moved, Len(document), height) ELSE moved
      same == Len(document) >= Len(frame.lines) /\ height = window.height
              /\ (wants.row < Len(frame.lines) => document[wants.row + 1] = frame.lines[wants.row + 1])
      \* The dock that opened holds the window where it was, until the window grows or rows arrive.
      holds == \/ Shrinks(window, Len(document), height)
               \/ wants.what = "held" /\ Len(document) <= window.content /\ height <= window.height
      heldAt == IF wants.what = "held" THEN wants.row ELSE window.top
  IN /\ frame' = [lines |-> document, top |-> final.top]
     /\ window' = final /\ search' = found
     /\ wants' = CASE reveals -> [what |-> "match", row |-> found.key]
                   [] wants.what \in {"end", "held"} ->
                        IF holds THEN [what |-> "held", row |-> Min({heldAt, MaxTop(final)})]
                        ELSE [what |-> "end", row |-> 0]
                   [] wants.what = "stay" /\ wants.row >= MaxTop(final) -> [what |-> "end", row |-> 0]
                   [] wants.what = "match" /\ (~same \/ search.mode # "retain") -> [what |-> "nothing", row |-> 0]
                   [] OTHER -> wants
     /\ UNCHANGED <<document, height, selection, auto, dragTimers, copied, left>>

(***************************************************************************)
(* The transcript and the dock.                                             *)
(***************************************************************************)
Changes ==
  /\ left.changes > 0 /\ left' = [left EXCEPT !.changes = @ - 1]
  /\ \/ /\ Len(document) < MaxRows /\ \E w \in Words : document' = Append(document, w)
        /\ UNCHANGED height
     \/ document # <<>> /\ document' = Front(document) /\ UNCHANGED height
     \/ height' \in Heights \ {height} /\ UNCHANGED document
  /\ UNCHANGED <<window, frame, search, selection, auto, dragTimers, wants, copied>>

(***************************************************************************)
(* Keys and the wheel.                                                      *)
(***************************************************************************)
Keyed == left.keys > 0 /\ left' = [left EXCEPT !.keys = @ - 1]
Mouse == left.mouse > 0 /\ left' = [left EXCEPT !.mouse = @ - 1]

Scroll(w) ==
  /\ Keyed /\ window' = w /\ wants' = Asked(w)
  /\ UNCHANGED <<document, height, frame, search, selection, auto, dragTimers, copied>>

ScrollBy == \E lines \in {-1, 1} : Scroll(ScrolledBy(window, lines).window)
ScrollToTop == Scroll([window EXCEPT !.top = 0, !.suppressed = FALSE, !.following = window.content <= window.height])
ScrollToBottom == Scroll([window EXCEPT !.top = MaxTop(window), !.suppressed = FALSE, !.following = TRUE])

\* The rows that are asked for a prompt are those of the last frame.
scrollToPrompt ==
  \/ LET above == {r \in 0..Min({window.top, Len(frame.lines)}) - 1 : frame.lines[r + 1] = "prompt"}
     IN above # {} /\ Scroll(ScrolledTo(window, Max(above), FALSE))
  \/ LET below == {r \in window.top + 1..Len(frame.lines) - 1 : frame.lines[r + 1] = "prompt"}
     IN below # {} /\ Scroll(ScrolledTo(window, Min(below), FALSE))

Search(s) ==
  /\ Keyed /\ search' = s
  /\ UNCHANGED <<document, height, window, frame, selection, auto, dragTimers, wants, copied>>

ToggleSearch == Search(IF search.open THEN Closed ELSE [Closed EXCEPT !.open = TRUE, !.anchor = window.top, !.mode = "query"])

updateSearchQuery ==
  \E query \in (Words \cup {""}) \ {search.query} :
    /\ search.open
    /\ Search([search EXCEPT !.query = query, !.mode = "query", !.result = <<-1, 0>>,
                             !.anchor = IF search.selected \in 0..search.count - 1 THEN search.key ELSE window.top])

NavigateSearch == search.open /\ search.query # "" /\ \E mode \in {"next", "previous"} : Search([search EXCEPT !.mode = mode])

(***************************************************************************)
(* The mouse.  A point is taken with the window's row now, on the rows of    *)
(* the last frame; y is the pointer's row in the window.  A selection that    *)
(* begins under the search's overlay is one of the screen, and a click that   *)
(* a component takes copies nothing: both are left out.                       *)
(***************************************************************************)
PointAt(y) == Point(Between(0, window.top + y, Max({0, Len(frame.lines) - 1})), 0)
Seen(y) == IF window.top = frame.top /\ frame.top + y < Len(frame.lines) THEN frame.top + y ELSE -1
Line(point) == <<Point(point.row, 0), Point(point.row, 1)>>
Before(p, q) == p.row < q.row \/ (p.row = q.row /\ p.col < q.col)

\* updateSelectionFocus: a line that was clicked stays in the selection.
Focused(s, point) ==
  IF s.initial = <<>> THEN [s EXCEPT !.focus = point]
  ELSE IF Before(Line(point)[1], s.initial[1]) THEN [s EXCEPT !.anchor = s.initial[2], !.focus = Line(point)[1]]
  ELSE [s EXCEPT !.anchor = s.initial[1], !.focus = Line(point)[2]]

\* A timer that fired already cannot be stopped.
Stopped == [auto EXCEPT !.generation = @ + 1, !.timer = 0, !.direction = 0, !.pointer = -1]
stopSelectionAutoScroll ==
  /\ auto.generation < MaxGenerations
  /\ auto' = Stopped
  /\ \/ UNCHANGED dragTimers
     \/ auto.timer # 0 /\ dragTimers[auto.timer].at = "armed" /\ dragTimers' = [dragTimers EXCEPT ![auto.timer].at = "gone"]

anchorSelection ==
  \E y \in 0..window.height - 1, line \in BOOLEAN :
    /\ Mouse /\ ~selection.pressed /\ ~search.open /\ stopSelectionAutoScroll
    /\ selection' = [pressed |-> TRUE, seen |-> Seen(y), initial |-> IF line THEN Line(PointAt(y)) ELSE <<>>,
                     anchor |-> PointAt(y), focus |-> IF line THEN Line(PointAt(y))[2] ELSE PointAt(y)]
    /\ UNCHANGED <<document, height, window, frame, search, wants, copied>>

\* At the first or the last row the window scrolls on by itself.
updateSelectionAutoScroll(y) ==
  LET direction == IF y = 0 THEN -1 ELSE IF y = window.height - 1 THEN 1 ELSE 0
      aimed == [auto EXCEPT !.direction = direction, !.pointer = y]
  IN \/ direction = 0 /\ stopSelectionAutoScroll
     \/ direction # 0 /\ auto.timer # 0 /\ auto' = aimed /\ UNCHANGED dragTimers
     \/ /\ direction # 0 /\ auto.timer = 0 /\ auto.generation < MaxGenerations
        /\ auto' = [aimed EXCEPT !.generation = @ + 1, !.timer = auto.generation + 1]
        /\ dragTimers' = [dragTimers EXCEPT ![auto.generation + 1].at = "armed"]

Drag ==
  \E y \in 0..window.height - 1 :
    /\ Mouse /\ selection.pressed
    /\ selection' = Focused(selection, PointAt(y))
    /\ updateSelectionAutoScroll(y)
    /\ UNCHANGED <<document, height, window, frame, search, wants, copied>>

\* GetActiveSelectionText: the rows between the two points, of the last frame.
RowsOf(s) ==
  IF s.anchor = NoPoint \/ s.anchor = s.focus THEN {}
  ELSE Min({s.anchor.row, s.focus.row})..Max({s.anchor.row, s.focus.row})

Release ==
  \E y \in 0..window.height - 1 :
    LET last == Focused(selection, PointAt(y))
    IN /\ Mouse /\ selection.pressed /\ stopSelectionAutoScroll
       /\ selection' = Unselected
       /\ copied' = IF RowsOf(last) = {} THEN copied
                    ELSE [rows |-> RowsOf(last), seen |-> {selection.seen, Seen(y)},
                          kept |-> IF selection.initial = <<>> THEN {} ELSE {selection.initial[1].row}]
       /\ UNCHANGED <<document, height, window, frame, search, wants>>

\* The terminal lost the focus.
FocusOut ==
  /\ Mouse /\ stopSelectionAutoScroll
  /\ selection' = IF selection.pressed THEN Unselected ELSE selection
  /\ UNCHANGED <<document, height, window, frame, search, wants, copied>>

(***************************************************************************)
(* autoScrollSelection: the timer's goroutine reads the drag under one lock, *)
(* scrolls under another, and arms itself again under the first.             *)
(***************************************************************************)
TimerFires(g) ==
  /\ dragTimers[g].at = "armed"
  /\ IF g = auto.generation /\ selection.anchor # NoPoint /\ auto.pointer >= 0
     THEN dragTimers' = [dragTimers EXCEPT ![g] = [at |-> "scrolls", direction |-> auto.direction, pointer |-> auto.pointer]]
          /\ UNCHANGED auto
     ELSE dragTimers' = [dragTimers EXCEPT ![g].at = "gone"] /\ auto' = [auto EXCEPT !.timer = 0]
  /\ UNCHANGED <<document, height, window, frame, search, selection, wants, copied, left>>

TimerScrolls(g) ==
  LET by == ScrolledBy(window, dragTimers[g].direction)
      at == Between(0, by.window.top + dragTimers[g].pointer, Max({0, Len(frame.lines) - 1}))
  IN /\ dragTimers[g].at = "scrolls"
     /\ window' = by.window /\ wants' = Asked(by.window)
     /\ IF by.remaining = dragTimers[g].direction
        THEN dragTimers' = [dragTimers EXCEPT ![g].at = "stops"] /\ UNCHANGED selection
        ELSE dragTimers' = [dragTimers EXCEPT ![g].at = "scrolled"] /\ selection' = Focused(selection, Point(at, 0))
     /\ UNCHANGED <<document, height, frame, search, auto, copied, left>>

\* At an end of the transcript it stops whatever drag there is.
TimerStops(g) ==
  /\ dragTimers[g].at = "stops" /\ auto.generation < MaxGenerations
  /\ auto' = Stopped /\ dragTimers' = [dragTimers EXCEPT ![g].at = "gone"]
  /\ UNCHANGED <<document, height, window, frame, search, selection, wants, copied, left>>

TimerRearms(g) ==
  /\ dragTimers[g].at = "scrolled"
  /\ IF g = auto.generation
     THEN dragTimers' = [dragTimers EXCEPT ![g].at = "armed"] /\ auto' = [auto EXCEPT !.timer = g]
     ELSE dragTimers' = [dragTimers EXCEPT ![g].at = "gone"] /\ UNCHANGED auto
  /\ UNCHANGED <<document, height, window, frame, search, selection, wants, copied, left>>

Timer == \E g \in 1..MaxGenerations : TimerFires(g) \/ TimerScrolls(g) \/ TimerStops(g) \/ TimerRearms(g)

ViewportNext ==
  \/ Frame \/ Changes
  \/ ScrollBy \/ ScrollToTop \/ ScrollToBottom \/ scrollToPrompt
  \/ ToggleSearch \/ updateSearchQuery \/ NavigateSearch
  \/ anchorSelection \/ Drag \/ Release \/ FocusOut
  \/ Timer

ViewportSpec == ViewportInit /\ [][ViewportNext]_viewportVars

ViewportTypeOK ==
  /\ document \in Seq(Words) /\ height \in Heights
  /\ window.top \in 0..MaxRows /\ window.content \in 0..MaxRows /\ window.height \in Heights \cup {0}
  /\ search.mode \in {"query", "next", "previous", "retain"}
  /\ \A g \in 1..MaxGenerations : dragTimers[g].at \in {"none", "armed", "scrolls", "scrolled", "stops", "gone"}
  /\ wants.what \in {"end", "held", "stay", "match", "nothing"}

(* The window is where the user put it, however the transcript grows: at the *)
(* end for a user who never left it or came back, where it was for one who   *)
(* scrolled away, and on the selected match for one who searched.  While the *)
(* dock has taken rows from a window that followed the end it is where it    *)
(* was or already at the end again: scroll_view.go:315 promises the first,   *)
(* "until the viewport grows back" or content arrives; but any further frame *)
(* has the height of the one before, which is no shrinking, and so goes to   *)
(* the end.                                                                  *)
WindowAsAsked ==
  /\ wants.what = "end" => window.top = MaxTop(window)
  /\ wants.what = "held" => window.top \in {wants.row, MaxTop(window)}
  /\ wants.what = "stay" => window.top = wants.row
  /\ wants.what = "match" => /\ wants.row \in window.top..window.top + window.height - 1
                             /\ search.open /\ search.mode = "retain" => search.key = wants.row

(* What the search says is true of the frame on the screen: the count is that *)
(* of its matches, and the selected one is one of them (refreshSearchLocked,   *)
(* whose index keeps what it found until rows or query change).                *)
SearchTrue ==
  LET matches == Matches(frame.lines, search.query)
  IN search.open /\ search.mode = "retain" /\ search.query # "" =>
       /\ search.result = <<search.selected, Len(matches)>>
       /\ IF matches = <<>> THEN search.selected = -1 /\ search.key = -1
          ELSE search.selected \in 0..Len(matches) - 1 /\ search.key = matches[search.selected + 1]

(* Once the button is up nothing goes on scrolling the window                *)
(* (autoScrollSelection arms itself only in its own generation), and what was *)
(* copied reaches from the row under the press to the row under the release,  *)
(* with the line that was clicked, wherever the window scrolled meanwhile.    *)
DragEnds ==
  /\ \A g \in 1..MaxGenerations : dragTimers[g].at = "armed" /\ g = auto.generation => selection.pressed
  /\ -1 \notin copied.seen => copied.rows = (IF copied.seen = {} THEN {} ELSE Min(copied.seen)..Max(copied.seen))
  /\ copied.kept \subseteq copied.rows

(* The window on the transcript keeps its word: it is where the user put it    *)
(* (WindowAsAsked), what the search counts and selects is there (SearchTrue),  *)
(* and a drag ends where it was let go (DragEnds).                             *)
WindowKept == WindowAsAsked /\ SearchTrue /\ DragEnds
=============================================================================
