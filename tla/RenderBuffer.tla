---------------------------- MODULE RenderBuffer -----------------------------
(***************************************************************************)
(* A render buffer and the terminal it is flushed to: one action for each  *)
(* function of terminal/libtickit/renderbuffer.c that draws or changes the *)
(* context, and for those of mockterm.c that other parts of the program    *)
(* call on the same terminal.  The module shows that the two, spans and    *)
(* cursor movements and all, keep the promises of Canvas.                  *)
(***************************************************************************)
EXTENDS RenderCells

CONSTANTS
  StartSize, Sizes,      \* of the terminal: pairs of lines and columns
  Where,                 \* what the virtual cursor may hold uninitialised
  Places,                \* the lines and columns that calls draw at
  Counts,                \* for how many columns they skip and erase
  Texts,                 \* the texts they draw
  CodePoints,            \* the code points they draw
  HLines, VLines,        \* the lines they draw: start, end and the other one
  LineStyle, LineCaps,   \* in this style, with these ends
  CallRects,             \* the rectangles of calls
  Displacements,         \* the translations
  ScrollRects, Scrolls,  \* what is scrolled, and how far
  SetPens,               \* the pens they set
  Sources,               \* the buffers they blit
  MaxDepth,              \* bound: contexts saved at once
  MaxOffset,             \* bound: how far the origin is from the corner
  MaxDraws, MaxOthers    \* bounds: calls that draw, other calls

(* The halves of glyphs, those of line cells among them.                   *)
Contents ==
  (Glyphs \cup SUBSET ({"north", "east", "south", "west"} \X LineStyle)) \X {1, 2}

(* What callers hand over is such as the program makes; a buffer that is   *)
(* blitted is tiled, and nothing was saved in it.  No glyph is the glyph   *)
(* of a line cell.                                                         *)
ASSUME CallersAssumption ==
  /\ StartSize \in Nat \X Nat /\ Sizes \subseteq Nat \X Nat
  /\ Where \subseteq Int \X Int /\ Places \subseteq Int \X Int
  /\ Displacements \subseteq Int \X Int /\ Counts \subseteq Int
  /\ HLines \subseteq Int \X Int \X Int /\ VLines \subseteq Int \X Int \X Int
  /\ Texts \subseteq Seq(Glyphs) /\ CodePoints \subseteq Glyphs
  /\ CallRects \subseteq RectType /\ SetPens \subseteq RBPens
  /\ None \notin RBPens /\ None \notin [ch : Contents, pen : RBPens]
  /\ \A bits \in SUBSET ({"north", "east", "south", "west"} \X LineStyle) :
       bits \notin Glyphs
  /\ \A src \in Sources :
       /\ src \in Buffers(src.lines, src.cols, LineStyle) /\ src.stack = <<>>
       /\ src.lines \in Nat /\ src.cols \in Nat
       /\ \A l \in DOMAIN src.cells : Tiled(src.cells[l], src.cols)

VARIABLES
  rb,            \* the TickitRenderBuffer
  term,          \* the mock terminal
  draws, others  \* how many calls were made: only for the bounds

vars == <<rb, term, draws, others>>

Init ==
  /\ \E where \in Where : rb = BufferNew(StartSize[1], StartSize[2], where)
  /\ term = MockNew(StartSize[1], StartSize[2], NewPen)
  /\ draws = 0 /\ others = 0

-----------------------------------------------------------------------------
(* Calls that draw. *)
Drawn(b) ==
  /\ draws < MaxDraws
  /\ rb' = b /\ draws' = draws + 1
  /\ UNCHANGED <<term, others>>

SkipAt == \E p \in Places, n \in Counts : Drawn(SkipCols(rb, p[1], p[2], n))

EraseAt == \E p \in Places, n \in Counts : Drawn(EraseCols(rb, p[1], p[2], n))

TextAt == \E p \in Places, text \in Texts : Drawn(PutText(rb, p[1], p[2], text))

CharAt == \E p \in Places, c \in CodePoints : Drawn(PutChar(rb, p[1], p[2], c))

HLineAt ==
  \E h \in HLines : Drawn(HLine(rb, h[3], h[1], h[2], LineStyle, LineCaps))

VLineAt ==
  \E v \in VLines : Drawn(VLine(rb, v[1], v[2], v[3], LineStyle, LineCaps))

EraseRectAt == \E rect \in CallRects : Drawn(EraseRect(rb, rect))

ClearAll == Drawn(Clear(rb))

BlitFrom == \E src \in Sources : Drawn(Blit(rb, src))

(* The relative calls draw at the virtual cursor and take it along.        *)
Advanced(b, cols) == [b EXCEPT !.vc = <<@[1], @[2] + cols>>]

SkipOn ==
  /\ rb.vcSet
  /\ \E n \in Counts :
       Drawn(Advanced(SkipCols(rb, rb.vc[1], rb.vc[2], n), n))

EraseOn ==
  /\ rb.vcSet
  /\ \E n \in Counts :
       Drawn(Advanced(EraseCols(rb, rb.vc[1], rb.vc[2], n), n))

TextOn ==
  /\ rb.vcSet
  /\ \E text \in Texts :
       Drawn(Advanced(PutText(rb, rb.vc[1], rb.vc[2], text), Len(Columns(text))))

(* A code point counts as one column whatever its width. *)
CharOn ==
  /\ rb.vcSet
  /\ \E c \in CodePoints :
       Drawn(Advanced(PutChar(rb, rb.vc[1], rb.vc[2], c), 1))

SkipTo ==
  /\ rb.vcSet
  /\ \E p \in Places :
       LET n == p[2] - rb.vc[2] IN
       Drawn(Advanced(IF n > 0 THEN SkipCols(rb, rb.vc[1], rb.vc[2], n) ELSE rb, n))

EraseTo ==
  /\ rb.vcSet
  /\ \E p \in Places :
       LET n == p[2] - rb.vc[2] IN
       Drawn(Advanced(IF n > 0 THEN EraseCols(rb, rb.vc[1], rb.vc[2], n) ELSE rb, n))

-----------------------------------------------------------------------------
(* Calls that change the context. *)
Set(b) ==
  /\ others < MaxOthers
  /\ rb' = b /\ others' = others + 1
  /\ UNCHANGED <<term, draws>>

(* A call that takes back what others did need not be bounded. *)
Undo(b) == rb' = b /\ UNCHANGED <<term, draws, others>>

TranslateCall ==
  \E d \in Displacements :
    /\ Abs(rb.xlate[1] + d[1]) <= MaxOffset
    /\ Abs(rb.xlate[2] + d[2]) <= MaxOffset
    /\ Set(TranslateBy(rb, d[1], d[2]))

ClipCall   == \E rect \in CallRects : Set(ClipTo(rb, rect))
MaskCall   == \E rect \in CallRects : Set(MaskOut(rb, rect))
GotoCall   == \E p \in Places : Set(Goto(rb, p[1], p[2]))
UngotoCall == rb.vcSet /\ Undo(Ungoto(rb))
SetPenCall == \E pen \in SetPens : Set(SetPen(rb, pen))

SaveCall    == Depth(rb) < MaxDepth /\ Set(SaveAll(rb))
SavePenCall == Depth(rb) < MaxDepth /\ Set(SavePen(rb))
RestoreCall == rb.stack # <<>> /\ Undo(Pop(rb))
ResetCall   == Undo(ResetBuffer(rb))

-----------------------------------------------------------------------------
(* The terminal. *)
Terminal(t) ==
  /\ others < MaxOthers
  /\ term' = t /\ others' = others + 1 /\ UNCHANGED draws

(* The flush ends with tickit_renderbuffer_reset. *)
Flush ==
  /\ term' = Flushed(rb, term) /\ rb' = ResetBuffer(rb)
  /\ UNCHANGED <<draws, others>>

ScrollTerm ==
  /\ \E rect \in ScrollRects, d \in Scrolls :
       Terminal(ScrollRect(term, rect, d[1], d[2]))
  /\ UNCHANGED rb

ClearScreen == Terminal(ClearTerm(term)) /\ UNCHANGED rb

(* window.c makes a buffer of the size of the root window for each flush.  *)
ResizeTerm ==
  /\ rb = ResetBuffer(rb)
  /\ \E size \in Sizes, where \in Where :
       /\ size # <<term.lines, term.cols>>
       /\ Terminal(Resize(term, size[1], size[2]))
       /\ rb' = BufferNew(size[1], size[2], where)

-----------------------------------------------------------------------------
Next ==
  \/ SkipAt \/ EraseAt \/ TextAt \/ CharAt \/ HLineAt \/ VLineAt
  \/ EraseRectAt \/ ClearAll \/ BlitFrom
  \/ SkipOn \/ EraseOn \/ TextOn \/ CharOn \/ SkipTo \/ EraseTo
  \/ TranslateCall \/ ClipCall \/ MaskCall \/ GotoCall \/ UngotoCall
  \/ SetPenCall \/ SaveCall \/ SavePenCall \/ RestoreCall \/ ResetCall
  \/ Flush \/ ScrollTerm \/ ClearScreen \/ ResizeTerm

Spec == Init /\ [][Next]_vars

-----------------------------------------------------------------------------
(* Every line is tiled by its spans, each CONT cell names the first cell   *)
(* of the span it is inside of, and a text has the columns of its span.    *)
(* make_span splits and shortens spans in place, and flush, blit and the   *)
(* queries step from span to span (renderbuffer.c 179-246): one wrong      *)
(* count and they read what is no span, or abort.                          *)
SpansTile == \A l \in DOMAIN rb.cells : Tiled(rb.cells[l], rb.cols)

(* What a cell is to show, by the span it is in. *)
Content(l, c) ==
  LET first == First(rb.cells[l], c)
      span  == rb.cells[l][first]
      ch    == CASE span.state = "TEXT" ->
                      Columns(span.text)[span.offs + c - first + 1]
                 [] span.state = "ERASE" -> <<Blank, 1>>
                 [] span.state = "LINE"  -> <<span.bits, 1>>
                 [] OTHER -> <<span.text[1], 1>>
  IN  IF span.state = "SKIP" THEN None ELSE [ch |-> ch, pen |-> span.pen]

Erased(l, c) == rb.cells[l][First(rb.cells[l], c)].state = "ERASE"

(* The queries of a cell answer for the content of that cell, through the  *)
(* translation and the clip and wherever in a span it is                   *)
(* (renderbuffer.c 1088-1195).                                             *)
QueriesExact ==
  \A x \in Grid(rb.lines, rb.cols) :
    LET l == x[1] - rb.xlate[1]
        c == x[2] - rb.xlate[2]
        content == Content(x[1], x[2])
    IN  IF ~InRect(x[1], x[2], rb.clip) THEN CellActive(rb, l, c) = -1
        ELSE IF content = None
        THEN CellActive(rb, l, c) = 0 /\ CellText(rb, l, c) = <<>>
        ELSE /\ CellActive(rb, l, c) = 1
             /\ CellPen(rb, l, c) = content.pen
             /\ CellText(rb, l, c) = IF Erased(x[1], x[2]) THEN <<>>
                                     ELSE <<content.ch[1]>>
             /\ CellBits(rb, l, c) = IF content.ch[1] \in Glyphs THEN {}
                                     ELSE content.ch[1]

-----------------------------------------------------------------------------
(* The buffer as a canvas. *)

RectCells(rect) ==
  {rect.top + i : i \in 0..rect.lines - 1} \X
  {rect.left + i : i \in 0..rect.cols - 1}

(* What calls draw: the figures of each call at its place.                 *)
Own(glyph, half) == [ch |-> <<glyph, half>>, pen |-> NewPen]

Skips  == {[i \in 1..n |-> None] : n \in Counts}
Blanks == {[i \in 1..n |-> Own(Blank, 1)] : n \in Counts}
Words  == {LET cs == Columns(text) IN
           [i \in DOMAIN cs |-> Own(cs[i][1], cs[i][2])] : text \in Texts}
Chars  == {<<Own(c, 1)>> : c \in CodePoints}

StripFigures ==
  {[y \in {p[1]} \X (p[2]..p[2] + Len(s) - 1) |-> s[y[2] - p[2] + 1]] :
     p \in Places, s \in Skips \cup Blanks \cup Words \cup Chars}

(* What one arm at least of a line cell points to is in the line or an end *)
(* with a cap.                                                             *)
Bits(directions) == directions \X LineStyle

LineBits(i, first, last, back, ahead) ==
  (IF i > first \/ i = last \/ "start" \in LineCaps THEN Bits({back}) ELSE {})
    \cup
  (IF i < last \/ i = first \/ "end" \in LineCaps THEN Bits({ahead}) ELSE {})

HFigure(h) ==
  [y \in {h[3]} \X (h[1]..h[2]) |->
     Own(LineBits(y[2], h[1], h[2], "west", "east"), 1)]

VFigure(v) ==
  [y \in (v[1]..v[2]) \X {v[3]} |->
     Own(LineBits(y[1], v[1], v[2], "north", "south"), 1)]

BlankFigure(cells) == [y \in cells |-> Own(Blank, 1)]

SourceFigure(src) ==
  LET active == {y \in Grid(src.lines, src.cols) :
                   CellActive(src, y[1], y[2]) = 1}
      ch(y) == LET span == SpanAt(src, y[1], y[2]) IN
               IF span.cell.state = "TEXT"
               THEN Columns(span.cell.text)[span.cell.offs + span.offset + 1]
               ELSE IF span.cell.state = "ERASE" THEN <<Blank, 1>>
               ELSE <<CellText(src, y[1], y[2])[1], 1>>
  IN  [y \in active |-> [ch |-> ch(y), pen |-> CellPen(src, y[1], y[2])]]

CallFigures ==
  StripFigures
    \cup {HFigure(h) : h \in HLines} \cup {VFigure(v) : v \in VLines}
    \cup {BlankFigure(RectCells(rect)) : rect \in CallRects}
    \cup {BlankFigure(Grid(size[1], size[2])) : size \in Sizes}
    \cup {SourceFigure(src) : src \in Sources}

(* skip_to and erase_to draw strips as long as the way is.                 *)
Reach == 1..2 * (MaxOffset + Max({size[2] : size \in Sizes}))
CallStrips ==
  {[i \in 1..n |-> None] : n \in Reach}
    \cup {[i \in 1..n |-> Own(Blank, 1)] : n \in Reach} \cup Words \cup Chars

(* The rectangles and the distances of calls. *)
CallAreas == {RectCells(rect) : rect \in CallRects \cup ScrollRects}
CallMoves == Displacements \cup Scrolls

(* A line drawn over a line joins it. *)
JoinedGlyph(ch, old) ==
  IF ch[1] \in Glyphs \/ old[1] \in Glyphs THEN ch ELSE <<ch[1] \cup old[1], 1>>

IsHalfGlyph(ch, half) == ch[1] \in Wide /\ ch[2] = half

MaskedAt(depth) ==
  {x \in Grid(rb.lines, rb.cols) : rb.cells[x[1]][x[2]].mask = depth}

ClipCells(clip) == IF clip.lines = 0 THEN {} ELSE RectCells(clip)

Frame(f) ==
  [penOnly |-> f.penOnly, pen |-> f.pen,
   clip   |-> IF f.penOnly THEN {} ELSE ClipCells(f.clip),
   origin |-> IF f.penOnly THEN <<0, 0>> ELSE f.xlate,
   at     |-> IF f.penOnly THEN <<0, 0>> ELSE f.vc]

CanvasOf == INSTANCE Canvas WITH
  Figures <- CallFigures,
  Strips  <- CallStrips,
  Areas   <- CallAreas,
  Moves   <- CallMoves,
  Pens    <- SetPens,
  Plain   <- NewPen,
  Layered <- Layered,
  Joined  <- JoinedGlyph,
  IsHalf  <- IsHalfGlyph,
  Nothing <- None,
  pending <- [x \in Grid(rb.lines, rb.cols) |-> Content(x[1], x[2])],
  shown   <- term.cells,
  masks   <- [i \in 1..Depth(rb) + 1 |-> MaskedAt(i - 1)],
  view    <- [clip |-> ClipCells(rb.clip), origin |-> rb.xlate, pen |-> rb.pen],
  cursor  <- [set |-> rb.vcSet, at |-> rb.vc],
  saved   <- [i \in 1..Depth(rb) |-> Frame(rb.stack[i])]

(* The render buffer and the terminal implement Canvas: whatever spans are *)
(* split, masked, clipped and saved, drawing reaches the visible cells and *)
(* no others, a restore undoes what was done to the context since, and a   *)
(* flush shows every pending cell at its own place, wherever the           *)
(* terminal's cursor was (renderbuffer.c 105-1086).                        *)
ImplementsCanvas == CanvasOf!Spec
=============================================================================
