----------------------------- MODULE RenderCells -----------------------------
(***************************************************************************)
(* The buffer of the render buffer (terminal/libtickit/renderbuffer.c):    *)
(* what its functions make of the cells, and of the context they draw in.  *)
(*                                                                         *)
(* A line is a row of cells.  The first cell of a span says what the span  *)
(* is and how many columns it has; the cells after it are CONT cells that  *)
(* name the column it starts in.  Operators of the name of a C function    *)
(* return the buffer that the function leaves.                             *)
(***************************************************************************)
EXTENDS MockTerm, FiniteSetsExt

CONSTANTS
  PenAttrs, PenValues,   \* the attributes of pens and their values
  Unset,                 \* no value: the attribute is left to what is below
  Glyphs,                \* every glyph but those of line cells
  None                   \* NULL

ASSUME RenderBufferAssumption ==
  /\ Unset \notin PenValues
  /\ Wide \subseteq Glyphs /\ Blank \in Glyphs \ Wide

RBPens == [PenAttrs -> PenValues \cup {Unset}]

NewPen == [a \in PenAttrs |-> Unset]

(* tickit_pen_copy without overwriting: the gaps of pen are filled.        *)
Layered(pen, below) ==
  [a \in PenAttrs |-> IF pen[a] = Unset THEN below[a] ELSE pen[a]]

-----------------------------------------------------------------------------
(* Text.  What the buffer asks of tickit_string_count is how many bytes    *)
(* fill a number of columns: a text is its sequence of glyphs, and half    *)
(* of a wide glyph never fits.                                             *)
Halves(glyph) ==
  IF glyph \in Wide THEN <<<<glyph, 1>>, <<glyph, 2>>>> ELSE <<<<glyph, 1>>>>

Columns(text) == FlattenSeq([i \in DOMAIN text |-> Halves(text[i])])

(* How many glyphs counting up to n columns takes.                         *)
Fitting(text, n) ==
  Max({i \in 0..Len(text) : Len(Columns(SubSeq(text, 1, i))) <= n})

(* The glyphs from column offs on that end within the next cols columns.   *)
Slice(text, offs, cols) ==
  SubSeq(text, Fitting(text, offs) + 1, Fitting(text, offs + cols))

-----------------------------------------------------------------------------
(* A cell has the columns of its span or, in a CONT cell, the column where *)
(* that starts, and the depth it was masked at, -1 if it is not.  A line   *)
(* mask is the set of its bits; the code point of a CHAR cell stands in    *)
(* text.                                                                   *)
States == {"SKIP", "TEXT", "ERASE", "CONT", "LINE", "CHAR"}

NewCell(state, cols, pen) ==
  [state |-> state, cols |-> cols, mask |-> -1, pen |-> pen,
   text |-> <<>>, offs |-> 0, bits |-> {}]

ContCell(startcol) == NewCell("CONT", startcol, None)
SkipCell(cols)     == NewCell("SKIP", cols, None)

FreshRow(cols) == [c \in 0..cols - 1 |-> IF c = 0 THEN SkipCell(cols)
                                         ELSE ContCell(0)]

(* What a buffer holds, with lines of a style.  A frame of the stack that  *)
(* was pushed for its pen holds nothing else; the clip keeps to the cells. *)
Cells(style) ==
  [state : States, cols : Nat, mask : Nat \cup {-1}, offs : Nat,
   pen : {None} \cup RBPens, text : Seq(Glyphs),
   bits : SUBSET ({"north", "east", "south", "west"} \X style)]

Clips(lines, cols) ==
  {r \in RectType : r.lines # 0 =>
     0 <= r.top /\ Bottom(r) <= lines
     /\ 0 <= r.left /\ 0 <= r.cols /\ Right(r) <= cols}

Frames(lines, cols) ==
  [penOnly : {TRUE}, pen : RBPens, vc : {None}, xlate : {None}, clip : {None}]
    \cup
  [penOnly : {FALSE}, pen : RBPens, vc : Int \X Int, xlate : Int \X Int,
   clip : Clips(lines, cols)]

Buffers(lines, cols, style) ==
  [lines : {lines}, cols : {cols},
   cells : [0..lines - 1 -> [0..cols - 1 -> Cells(style)]],
   vcSet : BOOLEAN, vc : Int \X Int, xlate : Int \X Int,
   clip : Clips(lines, cols), pen : RBPens, stack : Seq(Frames(lines, cols))]

(* The first cell of a span that is more than a gap has a pen, a text      *)
(* reaches as far as its span, and only blank, text and skipped spans are  *)
(* wider than a column.                                                    *)
Whole(span) ==
  /\ span.state # "CONT"
  /\ span.state # "SKIP" => span.pen # None
  /\ span.state = "TEXT" => span.offs + span.cols <= Len(Columns(span.text))
  /\ span.state = "CHAR" => Len(span.text) = 1
  /\ span.cols > 1 => span.state \in {"SKIP", "ERASE", "TEXT"}

(* The spans of a row tile it: each CONT cell names the first cell of the  *)
(* span that it is inside of.                                              *)
First(row, c) == IF row[c].state = "CONT" THEN row[c].cols ELSE c

Tiled(row, cols) ==
  \A c \in DOMAIN row :
    LET first == First(row, c)
        span  == row[first]
    IN  /\ first <= c /\ c < first + span.cols /\ first + span.cols <= cols
        /\ Whole(span)
        /\ \A d \in first + 1..first + span.cols - 1 :
             row[d].state = "CONT" /\ row[d].cols = first

(* tickit_renderbuffer_new; where leaves the virtual cursor uninitialised. *)
BufferNew(lines, cols, where) ==
  [lines |-> lines, cols |-> cols,
   cells |-> [l \in 0..lines - 1 |-> FreshRow(cols)],
   vcSet |-> FALSE, vc |-> where, xlate |-> <<0, 0>>,
   clip |-> InitSized(0, 0, lines, cols), pen |-> NewPen, stack |-> <<>>]

Depth(b) == Len(b.stack)

(* xlate_and_clip *)
Translated(b, line, col) == <<line + b.xlate[1], col + b.xlate[2]>>

InClip(b, line, col, cols) ==
  LET at == Translated(b, line, col) IN
  /\ b.clip.lines # 0
  /\ at[1] >= b.clip.top /\ at[1] < Bottom(b.clip)
  /\ at[2] < Right(b.clip)
  /\ at[2] + cols > MaxInt(at[2], b.clip.left)

(* The columns that are left: line, col and cols, and how many were cut.   *)
Clipped(b, line, col, cols) ==
  LET at   == Translated(b, line, col)
      left == MaxInt(at[2], b.clip.left)
  IN  [line |-> at[1], col |-> left, startcol |-> left - at[2],
       cols |-> MinInt(at[2] + cols, Right(b.clip)) - left]

-----------------------------------------------------------------------------
(* make_span: the columns col..col + cols - 1 become one span.             *)

(* Bugs for the mutant runs: the rest of a text is taken from its start;   *)
(* the rest of a span is not given its own start.                          *)
TailSameText(span, startcol, end) == [span EXCEPT !.cols = startcol + @ - end]

TailCell(span, startcol, end) ==
  [span EXCEPT !.cols = startcol + @ - end,
               !.offs = IF span.state = "TEXT" THEN @ + end - startcol ELSE @]

SplitAfterKeep(row, end) == row

(* The span that end is inside of starts anew there. *)
SplitAfter(row, end) ==
  IF end \in DOMAIN row /\ row[end].state = "CONT"
  THEN LET startcol == row[end].cols
           span     == row[startcol]
       IN  [c \in DOMAIN row |->
              IF c = end
              THEN [TailCell(span, startcol, end) EXCEPT !.mask = row[c].mask]
              ELSE IF end < c /\ c < startcol + span.cols
              THEN [row[c] EXCEPT !.cols = end] ELSE row[c]]
  ELSE row

(* The span that col is inside of ends there. *)
CutBefore(row, col) ==
  IF row[col].state = "CONT"
  THEN [row EXCEPT ![row[col].cols].cols = col - row[col].cols] ELSE row

MakeSpan(row, col, cols) ==
  LET cut == CutBefore(SplitAfter(row, col + cols), col) IN
  [c \in DOMAIN row |->
     IF c = col THEN [ContCell(col) EXCEPT !.cols = cols]
     ELSE IF col < c /\ c < col + cols THEN ContCell(col) ELSE cut[c]]

(* An unmasked run in the columns from col on starts in column c; how far  *)
(* it goes before end.                                                     *)
Open(row, c) == row[c].mask = -1

RunStarts(row, col, c) == Open(row, c) /\ (c = col \/ ~Open(row, c - 1))

RunLength(row, c, end) ==
  Min({d \in c + 1..end : d = end \/ ~Open(row, d)}) - c

(* The loop of put_text, skip and erase: a span like cell for every        *)
(* unmasked run; in a text the offset goes along.                          *)
SpanLike(cell, offs, n) ==
  [cell EXCEPT !.cols = n, !.offs = IF cell.state = "TEXT" THEN offs ELSE 0]

PutRun(at, cell, row, n) ==
  LET c    == at.col + n - 1
      cols == RunLength(row, c, at.col + at.cols)
      span == SpanLike(cell, at.startcol + n - 1, cols)
  IN  IF RunStarts(row, at.col, c)
      THEN [MakeSpan(row, c, cols) EXCEPT ![c] = span] ELSE row

PutRuns(b, at, cell) ==
  LET Run(row, n) == PutRun(at, cell, row, n) IN
  [b EXCEPT !.cells[at.line] = FoldLeft(Run, @, [n \in 1..at.cols |-> n])]

PutCols(b, line, col, cols, cell) ==
  IF InClip(b, line, col, cols)
  THEN PutRuns(b, Clipped(b, line, col, cols), cell) ELSE b

PutText(b, line, col, text) ==
  LET cols == Len(Columns(text)) IN
  PutCols(b, line, col, cols,
          [NewCell("TEXT", cols, b.pen) EXCEPT !.text = text])

SkipCols(b, line, col, cols) == PutCols(b, line, col, cols, SkipCell(cols))

EraseCols(b, line, col, cols) ==
  PutCols(b, line, col, cols, NewCell("ERASE", cols, b.pen))

(* One cell of the screen is open to a call that draws one column. *)
CanPut(b, line, col) ==
  /\ InClip(b, line, col, 1)
  /\ LET at == Translated(b, line, col) IN Open(b.cells[at[1]], at[2])

PutChar(b, line, col, codepoint) ==
  LET at == Translated(b, line, col) IN
  IF ~CanPut(b, line, col) THEN b
  ELSE [b EXCEPT !.cells[at[1]] = [MakeSpan(@, at[2], 1) EXCEPT
          ![at[2]] = [NewCell("CHAR", 1, b.pen) EXCEPT !.text = <<codepoint>>]]]

(* linecell; pens are equivalent when they are equal: no attribute is set  *)
(* to its default here.                                                    *)
LineCell(b, line, col, bits) ==
  LET at  == Translated(b, line, col)
      row == b.cells[at[1]]
      new == [NewCell("LINE", 1, b.pen) EXCEPT !.bits = bits]
  IN  IF ~CanPut(b, line, col) THEN b
      ELSE IF row[at[2]].state = "LINE"
      THEN [b EXCEPT !.cells[at[1]][at[2]] =
              [new EXCEPT !.bits = bits \cup row[at[2]].bits]]
      ELSE [b EXCEPT !.cells[at[1]] =
              [MakeSpan(row, at[2], 1) EXCEPT ![at[2]] = new]]

(* hline_at and vline_at.  A style is the bits that one arm of a line has. *)
Arm(direction, style) == {direction} \X style

HLine(b, line, startcol, endcol, style, caps) ==
  LET east == Arm("east", style)
      west == Arm("west", style)
      Stroke(c, n) == LineCell(c, line, startcol + n, east \cup west)
      first == LineCell(b, line, startcol,
                 east \cup (IF "start" \in caps THEN west ELSE {}))
      between == FoldLeft(Stroke, first, [n \in 1..endcol - startcol - 1 |-> n])
  IN  LineCell(between, line, endcol,
        (IF "end" \in caps THEN east ELSE {}) \cup west)

VLine(b, startline, endline, col, style, caps) ==
  LET north == Arm("north", style)
      south == Arm("south", style)
      Stroke(c, n) == LineCell(c, startline + n, col, north \cup south)
      first == LineCell(b, startline, col,
                 south \cup (IF "start" \in caps THEN north ELSE {}))
      between == FoldLeft(Stroke, first, [n \in 1..endline - startline - 1 |-> n])
  IN  LineCell(between, endline, col,
        (IF "end" \in caps THEN south ELSE {}) \cup north)

EraseRect(b, rect) ==
  FoldLeft(LAMBDA c, n : EraseCols(c, rect.top + n - 1, rect.left, rect.cols),
           b, [n \in 1..rect.lines |-> n])

(* tickit_renderbuffer_clear goes through the translation as well.         *)
Clear(b) == EraseRect(b, InitSized(0, 0, b.lines, b.cols))

-----------------------------------------------------------------------------
(* The context. *)
TranslateBy(b, downward, rightward) ==
  [b EXCEPT !.xlate = <<@[1] + downward, @[2] + rightward>>]

ClipTo(b, rect) ==
  LET other == Translate(rect, b.xlate[1], b.xlate[2]) IN
  [b EXCEPT !.clip = IF HasIntersection(@, other) THEN Intersection(@, other)
                     ELSE [@ EXCEPT !.lines = 0]]

(* The C code cuts the hole at the top and left edges before it loops.     *)
MaskOut(b, rect) ==
  LET hole == Translate(rect, b.xlate[1], b.xlate[2]) IN
  [b EXCEPT !.cells = [l \in DOMAIN @ |-> [c \in DOMAIN @[l] |->
     IF InRect(l, c, hole) /\ Open(@[l], c)
     THEN [@[l][c] EXCEPT !.mask = Depth(b)] ELSE @[l][c]]]]

Goto(b, line, col) == [b EXCEPT !.vcSet = TRUE, !.vc = <<line, col>>]

Ungoto(b) == [b EXCEPT !.vcSet = FALSE]

SetPen(b, pen) ==
  [b EXCEPT !.pen = IF b.stack = <<>> THEN pen
                    ELSE Layered(pen, Last(b.stack).pen)]

(* tickit_renderbuffer_reset frees the stack, and the texts with it.       *)
ResetBuffer(b) == BufferNew(b.lines, b.cols, b.vc)

SaveAll(b) ==
  [b EXCEPT !.stack = Append(@, [penOnly |-> FALSE, pen |-> b.pen, vc |-> b.vc,
                                 xlate |-> b.xlate, clip |-> b.clip])]

(* The rest of a frame that tickit_renderbuffer_savepen pushes is unset.   *)
SavePen(b) ==
  [b EXCEPT !.stack = Append(@, [penOnly |-> TRUE, pen |-> b.pen, vc |-> None,
                                 xlate |-> None, clip |-> None])]

(* A bug for the mutant runs: masks outlive their context.                 *)
PopMasked(b) ==
  LET frame == Last(b.stack) IN
  [b EXCEPT !.stack = Front(@), !.pen = frame.pen,
            !.vc    = IF frame.penOnly THEN @ ELSE frame.vc,
            !.xlate = IF frame.penOnly THEN @ ELSE frame.xlate,
            !.clip  = IF frame.penOnly THEN @ ELSE frame.clip]

Pop(b) ==
  LET frame == Last(b.stack)
      depth == Depth(b) - 1
  IN  [b EXCEPT
         !.stack = Front(@),
         !.pen   = frame.pen,
         !.vc    = IF frame.penOnly THEN @ ELSE frame.vc,
         !.xlate = IF frame.penOnly THEN @ ELSE frame.xlate,
         !.clip  = IF frame.penOnly THEN @ ELSE frame.clip,
         !.cells = [l \in DOMAIN @ |-> [c \in DOMAIN @[l] |->
           IF @[l][c].mask > depth THEN [@[l][c] EXCEPT !.mask = -1]
           ELSE @[l][c]]]]

-----------------------------------------------------------------------------
(* Queries. *)

(* get_span: the first cell of the span and how far into it the column is. *)
SpanAt(b, line, col) ==
  LET at   == Translated(b, line, col)
      cell == b.cells[at[1]][at[2]]
  IN  IF cell.state = "CONT"
      THEN [cell |-> b.cells[at[1]][cell.cols], offset |-> at[2] - cell.cols]
      ELSE [cell |-> cell, offset |-> 0]

(* tickit_renderbuffer_get_cell_active, with -1 outside the clip.          *)
CellActive(b, line, col) ==
  IF ~InClip(b, line, col, 1) THEN -1
  ELSE IF SpanAt(b, line, col).cell.state # "SKIP" THEN 1 ELSE 0

CellPen(b, line, col) ==
  IF CellActive(b, line, col) = 1 THEN SpanAt(b, line, col).cell.pen ELSE None

CellBits(b, line, col) ==
  IF InClip(b, line, col, 1) /\ SpanAt(b, line, col).cell.state = "LINE"
  THEN SpanAt(b, line, col).cell.bits ELSE {}

(* A bug for the mutant runs: always the glyph that the span begins with.  *)
SpanGlyphFirst(span) ==
  span.cell.text[Fitting(span.cell.text, span.cell.offs) + 1]

(* get_span_text for one grapheme of a TEXT cell. *)
SpanGlyph(span) ==
  span.cell.text[Fitting(span.cell.text, span.cell.offs + span.offset) + 1]

(* tickit_renderbuffer_get_cell_text: no text, or the glyph of the cell.   *)
CellText(b, line, col) ==
  LET span == SpanAt(b, line, col) IN
  CASE CellActive(b, line, col) # 1 -> <<>>
    [] OTHER -> CASE span.cell.state = "ERASE" -> <<>>
                  [] span.cell.state = "TEXT"  -> <<SpanGlyph(span)>>
                  [] span.cell.state = "LINE"  -> <<span.cell.bits>>
                  [] OTHER -> span.cell.text

-----------------------------------------------------------------------------
(* tickit_renderbuffer_flush_to_term.  The loop over a line has the        *)
(* terminal, the column phycol its cursor is in, if known, and the column  *)
(* next that the loop goes on in.  Line cells of one pen are printed in    *)
(* one call there, one by one here.                                        *)

(* A bug for the mutant runs: the cursor is taken to be where the last     *)
(* span ended.                                                             *)
AtColumnAlways(f, line, col) == f.term

AtColumn(f, line, col) ==
  IF f.phycol < col THEN GotoAbs(f.term, line, col) ELSE f.term

FlushSpan(f, row, line, col) ==
  LET cell    == row[col]
      next    == col + cell.cols
      ready   == ChPen(AtColumn(f, line, col), cell.pen)
      moveend == next \in DOMAIN row /\ row[next].state # "SKIP"
      glyphs  == CASE cell.state = "TEXT" -> Slice(cell.text, cell.offs, cell.cols)
                   [] cell.state = "LINE" -> <<cell.bits>>
                   [] OTHER -> cell.text
  IN  CASE cell.state = "SKIP"  -> [f EXCEPT !.next = next]
        [] cell.state = "ERASE" ->
             [term |-> EraseCh(ready, cell.cols), next |-> next,
              phycol |-> IF moveend THEN next ELSE -1]
        [] OTHER -> [term |-> PutGlyphs(ready, glyphs), next |-> next,
                     phycol |-> next]

FlushLine(t, row, line) ==
  LET Step(f, n) == IF n - 1 = f.next THEN FlushSpan(f, row, line, n - 1) ELSE f
  IN  FoldLeft(Step, [term |-> t, next |-> 0, phycol |-> -1],
               [n \in 1..Cardinality(DOMAIN row) |-> n]).term

Flushed(b, t) ==
  FoldLeft(LAMBDA u, n : FlushLine(u, b.cells[n - 1], n - 1),
           t, [n \in 1..b.lines |-> n])

-----------------------------------------------------------------------------
(* tickit_renderbuffer_blit draws every span of src in its own pen, filled *)
(* from the pen of dst, which is put back afterwards.                      *)
BlitSpan(b, row, line, col) ==
  LET cell  == row[col]
      under == SetPen(SavePen(b), cell.pen)
  IN  CASE cell.state = "SKIP"  -> b
        [] cell.state = "TEXT"  ->
             Pop(PutText(under, line, col, Slice(cell.text, cell.offs, cell.cols)))
        [] cell.state = "ERASE" -> Pop(EraseCols(under, line, col, cell.cols))
        [] cell.state = "LINE"  -> Pop(LineCell(under, line, col, cell.bits))
        [] OTHER -> Pop(PutChar(under, line, col, cell.text[1]))

BlitLine(dst, row, line) ==
  LET Step(f, n) == IF n - 1 = f.next
                    THEN [b |-> BlitSpan(f.b, row, line, n - 1),
                          next |-> n - 1 + row[n - 1].cols]
                    ELSE f
  IN  FoldLeft(Step, [b |-> dst, next |-> 0],
               [n \in 1..Cardinality(DOMAIN row) |-> n]).b

Blit(dst, src) ==
  FoldLeft(LAMBDA b, n : BlitLine(b, src.cells[n - 1], n - 1),
           dst, [n \in 1..src.lines |-> n])
=============================================================================
