------------------------------ MODULE MockTerm -------------------------------
(***************************************************************************)
(* The terminal of libtickit's own tests (terminal/libtickit/mockterm.c):  *)
(* a grid of cells, a pen and a cursor, changed by the calls of the driver *)
(* table.  The log the driver keeps of those calls is left out.            *)
(*                                                                         *)
(* A terminal is the record [lines, cols, cells, pen, line, col]; a cell   *)
(* holds [ch, pen].  ch is the pair <<glyph, half>>: a glyph of two        *)
(* columns stands as <<g, 1>> in the cell that holds its string and as     *)
(* <<g, 2>> in the cell after it, whose string is NULL.                    *)
(***************************************************************************)
EXTENDS Rect, SequencesExt

CONSTANTS
  Blank,         \* the space that clearing and erasing leave
  Wide           \* the glyphs that take two columns

GlyphWidth(g) == IF g \in Wide THEN 2 ELSE 1

(* BOUND: low wins over the value, high over low. *)
Bound(x, low, high) == MinInt(MaxInt(x, low), high)

Grid(lines, cols) == (0..lines - 1) \X (0..cols - 1)

-----------------------------------------------------------------------------
BlankCell(t) == [ch |-> <<Blank, 1>>, pen |-> t.pen]

(* mtd_clear_cells, for the cells of a set. *)
ClearCells(t, where) ==
  [t EXCEPT !.cells = [x \in DOMAIN t.cells |->
                         IF x \in where THEN BlankCell(t) ELSE t.cells[x]]]

MockNew(lines, cols, pen) ==
  [lines |-> lines, cols |-> cols, line |-> -1, col |-> -1, pen |-> pen,
   cells |-> [x \in Grid(lines, cols) |-> [ch |-> <<Blank, 1>>, pen |-> pen]]]

GotoAbs(t, line, col) ==
  [t EXCEPT !.line = Bound(line, 0, t.lines - 1),
            !.col  = Bound(col, 0, t.cols - 1)]

(* One glyph of mtd_print, which counts columns on from the cursor.  Past  *)
(* the last column it goes on at the start of the next line, but the       *)
(* second half still runs up to the column counted; what would be written  *)
(* beyond the line is no cell of the terminal.                             *)
PrintGlyph(t, g) ==
  LET wraps == t.col >= t.cols
      line  == IF wraps /\ t.line < t.lines - 1 THEN t.line + 1 ELSE t.line
      start == IF wraps THEN 0 ELSE t.col
      next  == t.col + GlyphWidth(g)
  IN  [t EXCEPT
         !.line = line, !.col = next,
         !.cells = [x \in DOMAIN t.cells |->
            IF x[1] = line /\ x[2] = start
            THEN [ch |-> <<g, 1>>, pen |-> t.pen]
            ELSE IF x[1] = line /\ start < x[2] /\ x[2] < next
            THEN [ch |-> <<g, 2>>, pen |-> t.pen] ELSE t.cells[x]]]

PutGlyphs(t, glyphs) == FoldLeft(PrintGlyph, t, glyphs)

(* mtd_erasech, for a moveend other than TICKIT_NO. *)
EraseCh(t, count) ==
  LET right == Bound(t.col + count, 0, t.cols) IN
  [ClearCells(t, {t.line} \X (t.col..right - 1)) EXCEPT !.col = right]

ClearTerm(t) == ClearCells(t, DOMAIN t.cells)

(* tickit_term_setpen and mtd_chpen: the driver copies the final pen.      *)
ChPen(t, final) == [t EXCEPT !.pen = final]

-----------------------------------------------------------------------------
(* mtd_scrollrect moves whole lines, or the rest of lines up to the right  *)
(* edge, and refuses every other request.                                  *)
Bounded(t, rect) ==
  LET top  == Bound(rect.top, 0, t.lines - 1)
      left == Bound(rect.left, 0, t.cols - 1)
  IN  InitBounded(top, left, Bound(Bottom(rect), top, t.lines),
                  Bound(Right(rect), left, t.cols))

Abs(n) == IF n < 0 THEN -n ELSE n

CanScroll(t, rect, downward, rightward) ==
  LET r == Bounded(t, rect) IN
  \/ downward = 0 /\ rightward = 0
  \/ /\ Abs(downward) < r.lines /\ Abs(rightward) < r.cols
     /\ Right(r) = t.cols
     /\ \/ r.left = 0 /\ rightward = 0
        \/ downward = 0

ScrollRect(t, rect, downward, rightward) ==
  LET r == Bounded(t, rect)
      from(x) == <<x[1] + downward, x[2] + rightward>>
  IN  IF ~CanScroll(t, rect, downward, rightward) THEN t
      ELSE [t EXCEPT !.cells = [x \in DOMAIN t.cells |->
              IF ~InRect(x[1], x[2], r) THEN t.cells[x]
              ELSE IF InRect(from(x)[1], from(x)[2], r) THEN t.cells[from(x)]
              ELSE BlankCell(t)]]

(* tickit_mockterm_resize: what is inside both sizes stays.                *)
Resize(t, lines, cols) ==
  [t EXCEPT !.lines = lines, !.cols = cols,
            !.cells = [x \in Grid(lines, cols) |->
                         IF x \in DOMAIN t.cells THEN t.cells[x]
                         ELSE BlankCell(t)],
            !.line = Bound(@, 0, lines - 1),
            !.col  = Bound(@, 0, cols - 1)]
=============================================================================
