--------------------------- MODULE TextShape ---------------------------
(***************************************************************************)
(* Styled text in terminal cells (internal/tui/text, composite.go and the   *)
(* scrollbar of layout.go): rows are words, blanks and wide characters with *)
(* escape sequences between them, and every widget wraps, truncates, slices *)
(* and overlays such rows.  A row is a sequence of pieces: a cell of one    *)
(* column, a CJK character of two, a blank, a tab, a line break, or a code  *)
(* that colours, underlines, links or resets what follows.  At the end, the *)
(* clusters of code points such a cell is measured from.                    *)
(***************************************************************************)
EXTENDS Naturals, Integers, Sequences, SequencesExt, FiniteSetsExt

CONSTANTS Pieces, MaxPieces, MaxColumns

VARIABLE text

textVars == <<text>>

Codes == {"red", "under", "even", "off", "link", "unlink"}
Blanks == {" ", "tab"}

(* GraphemeWidth of the clusters the model tells apart.                     *)
CellWidth(p) == CASE p \in Codes -> 0 [] p = "wide" -> 2 [] p = "tab" -> 3 [] OTHER -> 1

VisibleWidth(t) == FoldLeft(LAMBDA n, p : n + CellWidth(p), 0, t)

-----------------------------------------------------------------------------
(* The attributes a terminal would hold; a reset leaves the hyperlink open. *)
Unstyled == [under |-> FALSE, fg |-> FALSE, link |-> FALSE]

Process(style, p) ==
  CASE p = "red"    -> [style EXCEPT !.fg = TRUE]
    [] p = "under"  -> [style EXCEPT !.under = TRUE]
    [] p = "even"   -> [style EXCEPT !.under = FALSE]
    [] p = "off"    -> [Unstyled EXCEPT !.link = style.link]
    [] p = "link"   -> [style EXCEPT !.link = TRUE]
    [] p = "unlink" -> [style EXCEPT !.link = FALSE]
    [] OTHER        -> style

StyleAfter(style, t) == FoldLeft(Process, style, t)

When(holds, p) == IF holds THEN <<p>> ELSE <<>>

ActiveCodes(style) == When(style.under, "under") \o When(style.fg, "red") \o When(style.link, "link")

(* A break that closes the link and lets the underline run on.              *)
LineEndReset(style) == When(style.under, "even") \o When(style.link, "unlink")
SegmentReset == <<"off", "unlink">>
Padding(n) == [i \in 1..n |-> " "]

-----------------------------------------------------------------------------
(* Words, runs of blanks and CJK characters; a code goes with what follows. *)
Tokens(t) ==
  LET Flushed(s) == IF s.cur = <<>> THEN s.done ELSE Append(s.done, s.cur)
      Take(s, p) ==
        LET kind == IF p = " " THEN "space" ELSE "word"
            broken == s.cur # <<>> /\ s.kind # kind
        IN  CASE p \in Codes -> [s EXCEPT !.codes = Append(@, p)]
              [] p = "wide" -> [done |-> Append(Flushed(s), Append(s.codes, p)), cur |-> <<>>, kind |-> "", codes |-> <<>>]
              [] OTHER -> [done |-> IF broken THEN Flushed(s) ELSE s.done, kind |-> kind, codes |-> <<>>,
                           cur |-> (IF broken THEN <<>> ELSE s.cur) \o Append(s.codes, p)]
      end == FoldLeft(Take, [done |-> <<>>, cur |-> <<>>, kind |-> "", codes |-> <<>>], t)
  IN  IF end.cur = <<>> /\ end.done # <<>>
      THEN [end.done EXCEPT ![Len(end.done)] = @ \o end.codes]
      ELSE Flushed([end EXCEPT !.cur = @ \o end.codes])

TrimEnd(t) == SubSeq(t, 1, Max({0} \cup {i \in 1..Len(t) : t[i] \notin Blanks}))

(* An over-wide token, its lines ended and reopened in the active style.    *)
BreakWord(word, w, style) ==
  LET Take(s, p) ==
        IF p \in Codes THEN [s EXCEPT !.cur = Append(@, p), !.style = Process(@, p)]
        ELSE IF s.n + CellWidth(p) > w
             THEN [s EXCEPT !.lines = Append(@, s.cur \o LineEndReset(s.style)),
                            !.cur = Append(ActiveCodes(s.style), p), !.n = CellWidth(p)]
             ELSE [s EXCEPT !.cur = Append(@, p), !.n = @ + CellWidth(p)]
  IN  FoldLeft(Take, [lines |-> <<>>, cur |-> ActiveCodes(style), n |-> 0, style |-> style], word)

WrapLine(line, w) ==
  LET Take(s, token) ==
        LET n == VisibleWidth(token)
            blank == Range(token) \subseteq Blanks
            word == BreakWord(token, w, s.style)
            next == [s EXCEPT !.style = StyleAfter(@, token)]
        IN  IF n > w /\ ~blank
            THEN [lines |-> (IF s.cur = <<>> THEN s.lines ELSE Append(s.lines, s.cur \o LineEndReset(s.style))) \o word.lines,
                  cur |-> word.cur, n |-> VisibleWidth(word.cur), style |-> word.style]
            ELSE IF s.n + n > w /\ s.n > 0
            THEN [next EXCEPT !.lines = Append(@, TrimEnd(s.cur) \o LineEndReset(s.style)),
                              !.cur = ActiveCodes(s.style) \o (IF blank THEN <<>> ELSE token),
                              !.n = IF blank THEN 0 ELSE n]
            ELSE [next EXCEPT !.cur = @ \o token, !.n = @ + n]
      end == FoldLeft(Take, [lines |-> <<>>, cur |-> <<>>, n |-> 0, style |-> Unstyled], Tokens(line))
      wrapped == IF end.cur = <<>> THEN end.lines ELSE Append(end.lines, end.cur)
  IN  CASE VisibleWidth(line) <= w -> <<line>>
        [] wrapped = <<>> -> <<<<>>>>
        [] OTHER -> [i \in 1..Len(wrapped) |-> TrimEnd(wrapped[i])]

SplitLines(t) ==
  LET Take(lines, p) == IF p = "nl" THEN Append(lines, <<>>) ELSE [lines EXCEPT ![Len(lines)] = Append(@, p)]
  IN  FoldLeft(Take, <<<<>>>>, t)

WrapText(t, w) ==
  LET Take(s, line) ==
        [lines |-> s.lines \o WrapLine((IF s.lines = <<>> THEN <<>> ELSE ActiveCodes(s.style)) \o line, w),
         style |-> StyleAfter(s.style, line)]
  IN  FoldLeft(Take, [lines |-> <<>>, style |-> Unstyled], SplitLines(t)).lines

-----------------------------------------------------------------------------
(* The longest prefix of whole cells, with the codes before each kept cell. *)
Prefix(t, w) ==
  LET Take(s, p) ==
        IF p \in Codes THEN [s EXCEPT !.codes = Append(@, p)]
        ELSE IF s.open /\ s.n + CellWidth(p) <= w
             THEN [s EXCEPT !.kept = @ \o Append(s.codes, p), !.n = @ + CellWidth(p), !.codes = <<>>]
             ELSE [s EXCEPT !.open = FALSE, !.codes = <<>>]
  IN  FoldLeft(Take, [kept |-> <<>>, n |-> 0, codes |-> <<>>, open |-> TRUE], t)

LeadingCodes(t) == SubSeq(t, 1, Min({i - 1 : i \in {j \in 1..Len(t) : t[j] \notin Codes}} \cup {Len(t)}))

FinalizeTruncated(prefix, ellipsis, w, pad, hint) ==
  LET style == StyleAfter(Unstyled, prefix)
      body == prefix \o When(style.link, "unlink") \o <<"off">> \o When(style.fg \/ hint, "red") \o ellipsis \o <<"off">>
  IN  body \o (IF pad THEN Padding(w - VisibleWidth(body)) ELSE <<>>)

TruncateToWidth(t, w, ellipsis, pad) ==
  IF VisibleWidth(t) <= w THEN t \o (IF pad THEN Padding(w - VisibleWidth(t)) ELSE <<>>)
  ELSE IF VisibleWidth(ellipsis) >= w
       THEN LET clipped == Prefix(ellipsis, w)
            IN  IF clipped.n = 0 THEN (IF pad THEN Padding(w) ELSE <<>>)
                ELSE FinalizeTruncated(<<>>, clipped.kept, w, pad, StyleAfter(Unstyled, LeadingCodes(t)).fg)
       ELSE FinalizeTruncated(Prefix(t, w - VisibleWidth(ellipsis)).kept, ellipsis, w, pad, FALSE)

-----------------------------------------------------------------------------
(* The cells of columns start..start+len-1, in the styles they had.  Text   *)
(* that ends the range ends the scan; a strict slice takes no cell that     *)
(* sticks out of it.                                                        *)
SliceWithWidth(t, start, len, strict) ==
  LET end == start + len
      Take(s, p) ==
        LET inRange == s.col >= start /\ s.col < end
        IN  IF s.col >= end THEN s
            ELSE IF p \in Codes
            THEN IF inRange THEN [s EXCEPT !.out = @ \o Append(s.codes, p), !.codes = <<>>]
                 ELSE [s EXCEPT !.codes = Append(@, p)]
            ELSE IF inRange /\ (~strict \/ s.col + CellWidth(p) <= end)
                 THEN [s EXCEPT !.out = @ \o Append(s.codes, p), !.codes = <<>>, !.n = @ + CellWidth(p), !.col = @ + CellWidth(p)]
                 ELSE [s EXCEPT !.col = @ + CellWidth(p)]
      whole == FoldLeft(Take, [out |-> <<>>, n |-> 0, col |-> 0, codes |-> <<>>], t)
  IN  IF len <= 0 THEN [out |-> <<>>, n |-> 0] ELSE [out |-> whole.out, n |-> whole.n]

SliceByColumn(t, start, len, strict) == SliceWithWidth(t, start, len, strict).out

(* What an overlay leaves of a row: the cells before it and, in the style   *)
(* they would have had, the cells after it.                                 *)
ExtractSegments(t, beforeEnd, afterStart, afterLen) ==
  LET afterEnd == afterStart + afterLen
      Done(col) == IF afterLen <= 0 THEN col >= beforeEnd ELSE col >= afterEnd
      Take(s, p) ==
        LET w == CellWidth(p)
        IN  IF s.stop THEN s
            ELSE IF p \in Codes
            THEN [s EXCEPT !.style = Process(@, p),
                           !.codes = IF s.col < beforeEnd THEN Append(@, p) ELSE @,
                           !.after = IF s.col >= beforeEnd /\ s.col \in afterStart..(afterEnd - 1) /\ s.started
                                     THEN Append(@, p) ELSE @]
            ELSE LET moved == [s EXCEPT !.col = @ + w, !.stop = Done(s.col + w)]
                 IN  IF s.col + w <= beforeEnd
                     THEN [moved EXCEPT !.before = @ \o Append(s.codes, p), !.codes = <<>>, !.beforeWidth = @ + w]
                     ELSE IF s.col \in afterStart..(afterEnd - 1) /\ s.col + w <= afterEnd
                     THEN [moved EXCEPT !.after = @ \o (IF s.started THEN <<>> ELSE ActiveCodes(s.style)) \o <<p>>,
                                        !.started = TRUE, !.afterWidth = @ + w]
                     ELSE moved
  IN  FoldLeft(Take, [before |-> <<>>, beforeWidth |-> 0, after |-> <<>>, afterWidth |-> 0, codes |-> <<>>,
                      style |-> Unstyled, col |-> 0, started |-> FALSE, stop |-> FALSE], t)

CompositeTuiLine(base, over, col, w, total) ==
  LET around == ExtractSegments(base, col, col + w, total - (col + w))
      inside == SliceWithWidth(over, 0, w, TRUE)
      left == Max({0, total - Max({col, around.beforeWidth}) - Max({w, inside.n})})
      row == around.before \o Padding(Max({0, col - around.beforeWidth})) \o SegmentReset
             \o inside.out \o Padding(Max({0, w - inside.n})) \o SegmentReset
             \o around.after \o Padding(Max({0, left - around.afterWidth}))
  IN  IF VisibleWidth(row) <= total THEN row ELSE SliceByColumn(row, 0, total, TRUE)

(* The cell under a column, and the scrollbar's glyph put there: the whole  *)
(* grapheme gives way, its other half becomes a blank.                      *)
GraphemeCellRange(t, column) ==
  LET Take(s, p) ==
        [col |-> s.col + CellWidth(p),
         at |-> IF column \in s.col..(s.col + CellWidth(p) - 1) THEN <<s.col, s.col + CellWidth(p)>> ELSE s.at]
  IN  FoldLeft(Take, [col |-> 0, at |-> <<>>], t).at

LinkAtColumn(t, column) ==
  LET Take(s, p) ==
        [col |-> s.col + CellWidth(p), style |-> Process(s.style, p),
         link |-> s.link \/ (s.style.link /\ column \in s.col..(s.col + CellWidth(p) - 1))]
  IN  FoldLeft(Take, [col |-> 0, style |-> Unstyled, link |-> FALSE], t).link

ReplaceScrollbarCell(t, column, total) ==
  LET range == GraphemeCellRange(t, column)
      start == IF range = <<>> THEN column ELSE range[1]
      end == IF range = <<>> THEN column + 1 ELSE range[2]
      before == SliceByColumn(t, 0, start, TRUE)
  IN  before \o Padding(Max({0, start - VisibleWidth(before)})) \o SegmentReset
      \o Padding(Max({0, column - start})) \o <<"bar">> \o Padding(Max({0, end - column - 1}))
      \o SliceByColumn(t, end, Max({0, total - end}), TRUE)

-----------------------------------------------------------------------------
(* A component builds its row piece by piece, as an answer streams in.      *)
TextInit == text = <<>>

Write(p) == Len(text) < MaxPieces /\ text' = Append(text, p)

TextNext == \E p \in Pieces : Write(p)

-----------------------------------------------------------------------------
(* A row as the terminal shows it: each cell with its column and its style. *)
ShownFrom(t, style) ==
  LET Take(s, p) ==
        [cells |-> IF p \in Codes THEN s.cells ELSE Append(s.cells, [cell |-> p, col |-> s.col, style |-> s.style]),
         col |-> s.col + CellWidth(p), style |-> Process(s.style, p)]
  IN  FoldLeft(Take, [cells |-> <<>>, col |-> 0, style |-> style], t).cells

Shown(t) == ShownFrom(t, Unstyled)

EndOf(c) == c.col + CellWidth(c.cell)
Placed(cells) == [i \in 1..Len(cells) |-> <<cells[i].cell, cells[i].style>>]

(* The cells that are not blank, wherever they stand.                       *)
Letters(cells) == Placed(SelectSeq(cells, LAMBDA c : c.cell \notin Blanks))

Row == SelectSeq(text, LAMBDA p : p # "nl")

(* Wrapped text keeps every letter, in order and in its style, though each  *)
(* line is drawn on its own from a plain state; a line is no wider than     *)
(* asked, save where a single character is; and a line broken inside its    *)
(* paragraph leaves neither an underline nor a link open to bleed into the  *)
(* padding.                                                                 *)
WrapKept ==
  \A w \in 1..MaxColumns : \A lines \in {WrapText(text, w)}, broken \in {WrapLine(Row, w)} :
    /\ Letters(FlattenSeq([i \in 1..Len(lines) |-> Shown(lines[i])])) = Letters(Shown(Row))
    /\ \A line \in Range(lines) : VisibleWidth(line) <= w \/ \E p \in Range(line) : CellWidth(p) > w
    /\ \A i \in 1..Len(broken) - 1 : \A style \in {StyleAfter(Unstyled, broken[i])} : ~style.under /\ ~style.link

(* A truncated row is the row itself when it fits; otherwise a prefix of    *)
(* what it showed, in the same styles, then the ellipsis in the colour the  *)
(* prefix ended in, no wider than asked, exactly as wide when padded, and   *)
(* with nothing left open behind it.                                        *)
TruncateKept ==
  \A w \in 1..MaxColumns, pad \in BOOLEAN : \A cut \in {TruncateToWidth(Row, w, <<"dots">>, pad)} : \A cells \in {Shown(cut)} :
    /\ VisibleWidth(cut) <= w /\ (pad => VisibleWidth(cut) = w)
    /\ IF VisibleWidth(Row) <= w THEN IsPrefix(Row, cut)
       ELSE /\ StyleAfter(Unstyled, cut) = Unstyled
            /\ \E n \in 1..Len(cells) :
                 /\ cells[n].cell = "dots" /\ IsPrefix(SubSeq(cells, 1, n - 1), Shown(Row))
                 /\ n > 1 => cells[n].style.fg = cells[n - 1].style.fg

(* A slice shows what stood wholly inside its columns, in the style it had  *)
(* there, whatever was styled before the range.                             *)
SliceKept ==
  \A cells \in {Shown(Row)}, start \in 0..MaxColumns, len \in 1..MaxColumns : \A slice \in {SliceWithWidth(Row, start, len, TRUE)} :
    /\ Placed(SelectSeq(cells, LAMBDA c : c.col >= start /\ EndOf(c) <= start + len)) = Placed(Shown(slice.out))
    /\ slice.n = VisibleWidth(slice.out)

(* An overlay owns its columns and nothing else: the row under it is as     *)
(* wide as the screen, shows the overlay where it was placed and nothing of *)
(* the base there, keeps what was before and after it in its style, and     *)
(* takes no style from the base, nor gives any.  A wide character cut at    *)
(* the right edge lets what follows it move one column left.                *)
CompositeKept ==
  \A cells \in {Shown(Row)}, col \in 0..MaxColumns - 1, w \in 1..2 : col + w <= MaxColumns =>
    \A row \in {Shown(CompositeTuiLine(Row, <<"red", "link", "over">>, col, w, MaxColumns))} :
      LET Under(c) == c.col \in col..(col + w - 1)
          kept == SelectSeq(cells, LAMBDA c : EndOf(c) <= col \/ (c.col >= col + w /\ EndOf(c) <= MaxColumns))
          shift == IF \E c \in Range(cells) : c.col < col + w /\ EndOf(c) > col + w THEN 0..1 ELSE {0}
      IN  /\ row # <<>> /\ EndOf(Last(row)) = MaxColumns
          /\ \A c \in Range(row) : Under(c) => (c.cell = "over") = (c.col = col)
          /\ Letters(kept) = Letters(SelectSeq(row, LAMBDA c : ~Under(c)))
          /\ \A c \in Range(kept) : c.cell \in Blanks
               \/ \E d \in Range(row) : d.cell = c.cell /\ d.style = c.style
                                        /\ c.col - d.col \in (IF c.col > col THEN shift ELSE {0})

(* The scrollbar replaces the character under it and disturbs no other.     *)
ScrollbarKept ==
  \A cells \in {Shown(Row)}, column \in 0..MaxColumns - 1 : \A row \in {Shown(ReplaceScrollbarCell(Row, column, MaxColumns))} :
    LET Hit(c) == column \in c.col..(EndOf(c) - 1)
        Elsewhere(c) == ~Hit(c) /\ EndOf(c) <= MaxColumns
    IN  /\ \E c \in Range(row) : c.cell = "bar" /\ c.col = column
        /\ \A c \in Range(cells) : Elsewhere(c) /\ c.cell \notin Blanks => c \in Range(row)
        /\ Len(Letters(SelectSeq(row, Elsewhere))) = Len(Letters(SelectSeq(cells, Elsewhere)))
        /\ LinkAtColumn(Row, column) <=> \E c \in Range(cells) : Hit(c) /\ c.style.link

TextShaped == WrapKept /\ TruncateKept /\ SliceKept /\ CompositeKept /\ ScrollbarKept

-----------------------------------------------------------------------------
(***************************************************************************)
(* Grapheme clusters and their cell width (width.go, grapheme.go and its    *)
(* tables).  A row is measured, padded and cut in columns before it is      *)
(* normalised for the terminal, so the two must agree on every sequence of  *)
(* code points; a code point stands for its class.                          *)
(***************************************************************************)
CONSTANTS CodePoints, MaxCodePoints

VARIABLE points

clusterVars == <<points>>

(* What the property tables say of a class.                                 *)
SpacingMark   == {"spacing"}
Mark          == {"spacing", "mark", "linker"}
Ignorable     == {"joiner"}
Control       == {"tab"}
RgiEmoji      == {"emoji"}
EastAsianWide == {"cjk", "emoji"}
IndicConsonant == {"consonant"}
IndicLinker   == {"linker"}
IndicExtend   == {"mark", "joiner"}

NonPrinting == Ignorable \cup Control \cup Mark

EastAsianWidth(cp) == IF cp \in EastAsianWide THEN 2 ELSE 1

(* uniseg: marks, joiners, Thai vowels and voicing marks stay with what is  *)
(* before them, save after a control, and regional indicators pair up.      *)
Joined(cluster, cp) ==
  /\ cluster # <<>> /\ Last(cluster) \notin Control
  /\ cp \in Mark \cup Ignorable \cup {"am", "voiced"} \/ (cp = "regional" /\ cluster = <<"regional">>)

UnisegClusters(s) ==
  LET Take(out, cp) == IF out # <<>> /\ Joined(Last(out), cp) THEN [out EXCEPT ![Len(out)] = Append(@, cp)]
                       ELSE Append(out, <<cp>>)
  IN  FoldLeft(Take, <<>>, s)

(* Rule GB9c's left side: a consonant, then extenders of which one links.   *)
Gb9cLeftOk(left) ==
  LET run == Max({0} \cup {i \in 1..Len(left) : left[i] \notin IndicExtend \cup IndicLinker})
  IN  /\ run > 0 /\ left[run] \in IndicConsonant
      /\ \E i \in run + 1..Len(left) : left[i] \in IndicLinker

(* The merge pass: a boundary GB9c forbids is taken back.                   *)
Graphemes(s) ==
  LET Take(out, cluster) ==
        IF out # <<>> /\ cluster[1] \in IndicConsonant /\ Gb9cLeftOk(FlattenSeq(out))
        THEN [out EXCEPT ![Len(out)] = @ \o cluster] ELSE Append(out, cluster)
  IN  FoldLeft(Take, <<>>, UnisegClusters(s))

Trailing(s, cp) ==
  CASE cp \in SpacingMark -> [n |-> s.n + 1, afterMark |-> FALSE]
    [] cp \in Mark \ SpacingMark -> [s EXCEPT !.afterMark = TRUE]
    [] cp \in NonPrinting \ Mark -> s
    [] OTHER -> [afterMark |-> FALSE,
                 n |-> s.n + (IF s.afterMark \/ cp = "voiced" THEN EastAsianWidth(cp) ELSE IF cp = "am" THEN 1 ELSE 0)]

GraphemeWidth(cluster) ==
  LET printed == {i \in 1..Len(cluster) : cluster[i] \notin NonPrinting}
      base == SubSeq(cluster, Min(printed \cup {Len(cluster) + 1}), Len(cluster))
  IN  CASE cluster = <<"tab">> -> 3
        [] Range(cluster) \subseteq SpacingMark -> Len(cluster)
        [] printed = {} -> 0
        [] Len(cluster) = 1 /\ cluster[1] \in RgiEmoji -> 2
        [] base[1] = "regional" -> 2
        [] OTHER -> FoldLeft(Trailing, [n |-> EastAsianWidth(base[1]), afterMark |-> FALSE], Tail(base)).n

Untabbed(s) == FlattenSeq([i \in 1..Len(s) |-> IF s[i] = "tab" THEN <<" ", " ", " ">> ELSE <<s[i]>>])

ClustersWidth(s) == FoldLeft(LAMBDA n, c : n + GraphemeWidth(c), 0, Graphemes(Untabbed(s)))

(* The Thai and Lao vowel is written as its two halves, a tab as blanks.    *)
NormalizeOutput(s) == Untabbed(FlattenSeq([i \in 1..Len(s) |-> IF s[i] = "am" THEN <<"mark", "aa">> ELSE <<s[i]>>]))

-----------------------------------------------------------------------------
ClustersInit == points = <<>>

Arrive(cp) == Len(points) < MaxCodePoints /\ points' = Append(points, cp)

ClustersNext == \E cp \in CodePoints : Arrive(cp)

(* The terminal gets as many columns as the layout measured, a vowel put on *)
(* a flag letter apart, which the measure forgets; segmenting loses and     *)
(* reorders nothing; and a cluster ends exactly where the base segmentation *)
(* ends one, save between a linked pair of consonants, however many         *)
(* clusters the pair's extenders made.                                      *)
ClustersAgree ==
  \A clusters \in {Graphemes(points)}, raw \in {UnisegClusters(points)} :
    LET Ends(cs) == {Len(FlattenSeq(SubSeq(cs, 1, i))) : i \in 1..Len(cs)}
        Linked(i) == /\ i < Len(points) /\ points[i + 1] = "consonant"
                     /\ \E first \in 1..i, link \in 1..i :
                          /\ first < link /\ points[first] = "consonant" /\ points[link] = "linker"
                          /\ \A k \in first + 1..i : points[k] \in {"mark", "joiner", "linker"}
    IN  /\ FlattenSeq(clusters) = points
        /\ Ends(clusters) = {i \in Ends(raw) : ~Linked(i)}
        /\ \/ ClustersWidth(NormalizeOutput(points)) = ClustersWidth(points)
           \/ \E c \in Range(clusters) : {"regional", "am"} \subseteq Range(c)
=============================================================================
