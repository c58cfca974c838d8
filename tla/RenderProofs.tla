----------------------------- MODULE RenderProofs -----------------------------
(***************************************************************************)
(* Theorems about the render buffer: whatever is drawn, its spans tile the *)
(* lines, and the queries answer for the cell that is asked about.         *)
(***************************************************************************)
EXTENDS RenderBuffer, SequenceTheorems, FiniteSetTheorems, TLAPS

(* The loops of the functions that draw. *)
Runs == INSTANCE Induction WITH
  Pass <- LAMBDA at, cell, z, row, n : PutRun(at, cell, row, n)

-----------------------------------------------------------------------------
(* Texts.  The columns of a text, glyph by glyph. *)
Halved == Glyphs \X {1, 2}

LEMMA HalvesType ==
  ASSUME NEW g \in Glyphs
  PROVE  /\ Halves(g) \in Seq(Halved) /\ Len(Halves(g)) \in 1..2
         /\ \A i \in DOMAIN Halves(g) : Halves(g)[i] = <<g, i>>
<1>1. CASE g \in Wide
  <2>1. Halves(g) = <<<<g, 1>>, <<g, 2>>>>
    BY <1>1 DEF Halves
  <2> QED BY <2>1 DEF Halved
<1>2. CASE g \notin Wide
  <2>1. Halves(g) = <<<<g, 1>>>>
    BY <1>2 DEF Halves
  <2> QED BY <2>1 DEF Halved
<1> QED BY <1>1, <1>2

ColumnsBy(h, text) ==
  /\ h \in [0..Len(text) -> Seq(Halved)]
  /\ h[0] = <<>>
  /\ \A k \in 1..Len(text) : h[k] = h[k - 1] \o Halves(text[k])

LEMMA ColumnsExist ==
  ASSUME NEW text \in Seq(Glyphs)
  PROVE  \E h : ColumnsBy(h, text)
<1> DEFINE W == 0..Len(text)
           par == [k \in W |-> k - 1]
           rank == [k \in W |-> k]
           D == Seq(Halved)
           base == [k \in W |-> <<>>]
           step == [x \in W \X D |-> IF x[1] = 0 THEN <<>>
                                     ELSE x[2] \o Halves(text[x[1]])]
<1>0. Len(text) \in Nat /\ \A k \in 1..Len(text) : text[k] \in Glyphs
  OBVIOUS
<1>1. -1 \notin W /\ par \in [W -> W \cup {-1}]
  BY <1>0
<1>2. Runs!Ranks(rank, W, -1, par)
  BY <1>0 DEF Runs!Ranks
<1>3. base \in [W -> D]
  OBVIOUS
<1>4. step \in [W \X D -> D]
  <2> SUFFICES ASSUME NEW x \in W \X D PROVE step[x] \in D
    OBVIOUS
  <2>1. CASE x[1] = 0
    BY <2>1
  <2>2. CASE x[1] # 0
    <3>1. x[1] \in 1..Len(text) /\ x[2] \in D
      BY <1>0, <2>2
    <3>2. Halves(text[x[1]]) \in D
      BY <1>0, <3>1, HalvesType
    <3> QED BY <2>2, <3>1, <3>2, ConcatProperties
  <2> QED BY <2>1, <2>2
<1>5. Runs!TreeDefines(W, -1, par, D, base, step)
  <2> HIDE DEF W, par, rank, D, base, step
  <2> QED BY <1>1, <1>2, <1>3, <1>4, Runs!TreeRecursion
<1>6. PICK h \in [W -> D] :
        \A k \in W : h[k] = IF par[k] = -1 THEN base[k] ELSE step[<<k, h[par[k]]>>]
  BY <1>5 DEF Runs!TreeDefines
<1>7. h[0] = <<>>
  <2>1. 0 \in W /\ par[0] = -1 /\ base[0] = <<>>
    BY <1>0
  <2> HIDE DEF par, base
  <2> QED BY <1>6, <2>1
<1>8. ASSUME NEW k \in 1..Len(text) PROVE h[k] = h[k - 1] \o Halves(text[k])
  <2>1. k \in W /\ k - 1 \in W /\ par[k] = k - 1 /\ k - 1 # -1 /\ k # 0
    BY <1>0
  <2>2. <<k, h[k - 1]>> \in W \X D
    BY <2>1
  <2> QED BY <1>6, <2>1, <2>2
<1> QED BY <1>7, <1>8 DEF ColumnsBy

LEMMA ColumnsAre ==
  ASSUME NEW text \in Seq(Glyphs), NEW h, ColumnsBy(h, text), NEW m \in 0..Len(text)
  PROVE  Columns(SubSeq(text, 1, m)) = h[m]
<1> DEFINE part == SubSeq(text, 1, m)
           seqs == [i \in DOMAIN part |-> Halves(part[i])]
<1>0. Len(text) \in Nat /\ m \in Nat
  OBVIOUS
<1>1. /\ DOMAIN seqs = 1..m /\ Len(seqs) = m
      /\ \A i \in 1..m : seqs[i] = Halves(text[i])
  <2>1. part \in Seq(Glyphs) /\ Len(part) = m /\ \A i \in 1..m : part[i] = text[i]
    BY <1>0, SubSeqProperties
  <2>2. DOMAIN part = 1..m
    BY <2>1
  <2>3. DOMAIN seqs = 1..m /\ \A i \in 1..m : seqs[i] = Halves(text[i])
    BY <2>1, <2>2
  <2>4. Len(seqs) = m
    BY <1>0, <2>3
  <2> QED BY <2>3, <2>4
<1>2. CASE m = 0
  BY <1>1, <1>2 DEF Columns, FlattenSeq, ColumnsBy
<1>3. CASE m # 0
  <2> HIDE DEF seqs
  <2> DEFINE Is(f) == f = [i \in 1..Len(seqs) |->
                             IF i = 1 THEN seqs[i] ELSE f[i - 1] \o seqs[i]]
             g == [i \in 1..Len(seqs) |-> h[i]]
             flatten == CHOOSE f : Is(f)
  <2>1. Is(g)
    <3>1. ASSUME NEW i \in 1..m
          PROVE  h[i] = IF i = 1 THEN seqs[i] ELSE g[i - 1] \o seqs[i]
      <4>0. i \in 1..Len(text)
        BY <1>0
      <4>1. h[i] = h[i - 1] \o Halves(text[i])
        BY <4>0 DEF ColumnsBy
      <4>2. CASE i = 1
        <5>1. Halves(text[1]) \in Seq(Halved)
          BY <4>0, <4>2, HalvesType
        <5>2. h[1] = <<>> \o Halves(text[1])
          <6>1. h[i - 1] = <<>>
            BY <4>2 DEF ColumnsBy
          <6> QED BY <4>1, <4>2, <6>1
        <5> QED BY <1>1, <4>2, <5>1, <5>2, ConcatEmptySeq
      <4>3. CASE i # 1
        <5>1. i - 1 \in 1..Len(seqs)
          BY <1>0, <1>1, <4>3
        <5> QED BY <1>1, <4>1, <4>3, <5>1
      <4> QED BY <4>2, <4>3
    <3>2. [i \in 1..m |-> h[i]] = [i \in 1..m |-> IF i = 1 THEN seqs[i]
                                                  ELSE g[i - 1] \o seqs[i]]
      <4> HIDE DEF g
      <4> QED BY <3>1
    <3> QED BY <1>1, <3>2
  <2>2. Is(flatten)
    BY <2>1, Zenon
  <2>3. FlattenSeq(seqs) = flatten[m]
    BY <1>1, <1>3 DEF FlattenSeq
  <2> DEFINE same == {i \in 0..m : i # 0 => flatten[i] = h[i]}
  <2> HIDE DEF flatten
  <2>4. \A i \in 1..m : flatten[i] = IF i = 1 THEN seqs[i] ELSE flatten[i - 1] \o seqs[i]
    BY <1>1, <2>2
  <2>5. \A i \in 1..m : h[i] = IF i = 1 THEN seqs[i] ELSE h[i - 1] \o seqs[i]
    <3>1. \A i \in 1..m : g[i] = IF i = 1 THEN seqs[i] ELSE g[i - 1] \o seqs[i]
      <4> HIDE DEF g
      <4> QED BY <1>1, <2>1
    <3>2. \A i \in 1..m : g[i] = h[i] /\ (i # 1 => i - 1 \in 1..m /\ g[i - 1] = h[i - 1])
      BY <1>0, <1>1
    <3> HIDE DEF g
    <3> QED BY <3>1, <3>2
  <2>6. 0 \in same
    BY <1>0
  <2>7. \A i \in 0..m - 1 : i \in same => i + 1 \in same
    <3> SUFFICES ASSUME NEW i \in 0..m - 1, i \in same PROVE flatten[i + 1] = h[i + 1]
      BY <1>0
    <3>1. i + 1 \in 1..m /\ (i + 1) - 1 = i /\ (i + 1 # 1 => i # 0)
      BY <1>0
    <3> QED BY <2>4, <2>5, <3>1
  <2>8. \A i \in 0..m : i \in same
    <3> HIDE DEF same
    <3> QED BY <1>0, <2>6, <2>7, Runs!BoundedInduction
  <2>9. flatten[m] = h[m]
    BY <1>0, <1>3, <2>8
  <2> QED BY <2>3, <2>9 DEF Columns, seqs
<1> QED BY <1>2, <1>3

LEMMA ColumnsType ==
  ASSUME NEW text \in Seq(Glyphs)
  PROVE  Columns(text) \in Seq(Halved) /\ Len(Columns(text)) \in Nat
<1>1. PICK h : ColumnsBy(h, text)
  BY ColumnsExist
<1>2. Len(text) \in 0..Len(text) /\ SubSeq(text, 1, Len(text)) = text
  <2>1. Len(text) \in Nat
    OBVIOUS
  <2>2. SubSeq(text, 1, Len(text)) = text
    BY <2>1, SubSeqProperties
  <2> QED BY <2>1, <2>2
<1>3. Columns(text) = h[Len(text)]
  BY <1>1, <1>2, ColumnsAre
<1> QED BY <1>1, <1>2, <1>3 DEF ColumnsBy

-----------------------------------------------------------------------------
(* Rows.  The two cases of a tiled row: the first cell of a span, and one  *)
(* that names it.                                                          *)
Rows(cols) == [0..cols - 1 -> Cells(LineStyle)]

Spans(row, cols, f) ==
  /\ Whole(row[f])
  /\ row[f].cols >= 1 /\ f + row[f].cols <= cols
  /\ \A d \in f + 1..f + row[f].cols - 1 : row[d].state = "CONT" /\ row[d].cols = f

Continues(row, c) ==
  /\ row[c].cols < c
  /\ row[row[c].cols].state # "CONT"
  /\ c < row[c].cols + row[row[c].cols].cols

SpansIn(row, cols) ==
  \A c \in 0..cols - 1 :
    /\ row[c].state # "CONT" => Spans(row, cols, c)
    /\ row[c].state = "CONT" => Continues(row, c)

LEMMA TiledIs ==
  ASSUME NEW cols \in Nat, NEW row \in Rows(cols)
  PROVE  Tiled(row, cols) <=> SpansIn(row, cols)
<1>0. /\ DOMAIN row = 0..cols - 1
      /\ \A c \in 0..cols - 1 : row[c] \in Cells(LineStyle) /\ row[c].cols \in Nat
  BY DEF Rows, Cells
<1>1. ASSUME Tiled(row, cols), NEW c \in 0..cols - 1
      PROVE  /\ row[c].state # "CONT" => Spans(row, cols, c)
             /\ row[c].state = "CONT" => Continues(row, c)
  <2>1. CASE row[c].state # "CONT"
    <3>1. First(row, c) = c
      BY <2>1 DEF First
    <3>2. /\ c < c + row[c].cols /\ c + row[c].cols <= cols
          /\ Whole(row[c])
          /\ \A d \in c + 1..c + row[c].cols - 1 :
               row[d].state = "CONT" /\ row[d].cols = c
      BY <1>0, <1>1, <3>1 DEF Tiled
    <3> QED BY <1>0, <2>1, <3>2 DEF Spans
  <2>2. CASE row[c].state = "CONT"
    <3>1. First(row, c) = row[c].cols
      BY <2>2 DEF First
    <3>2. /\ row[c].cols <= c /\ c < row[c].cols + row[row[c].cols].cols
          /\ row[row[c].cols].state # "CONT"
      BY <1>0, <1>1, <3>1 DEF Tiled, Whole
    <3>3. row[c].cols # c
      BY <2>2, <3>2
    <3> QED BY <1>0, <2>2, <3>2, <3>3 DEF Continues
  <2> QED BY <2>1, <2>2
<1>2. ASSUME SpansIn(row, cols) PROVE Tiled(row, cols)
  <2> SUFFICES ASSUME NEW c \in 0..cols - 1
               PROVE  LET first == First(row, c)
                          span  == row[first]
                      IN  /\ first <= c /\ c < first + span.cols
                          /\ first + span.cols <= cols
                          /\ Whole(span)
                          /\ \A d \in first + 1..first + span.cols - 1 :
                               row[d].state = "CONT" /\ row[d].cols = first
    BY <1>0 DEF Tiled
  <2>1. PICK f : f = First(row, c)
    OBVIOUS
  <2>2. f \in 0..cols - 1 /\ f <= c /\ c < f + row[f].cols /\ row[f].state # "CONT"
    <3>1. CASE row[c].state # "CONT"
      BY <1>0, <1>2, <2>1, <3>1 DEF First, SpansIn, Spans
    <3>2. CASE row[c].state = "CONT"
      BY <1>0, <1>2, <2>1, <3>2 DEF First, SpansIn, Continues
    <3> QED BY <3>1, <3>2
  <2>3. Spans(row, cols, f)
    BY <1>2, <2>2 DEF SpansIn
  <2> QED BY <2>1, <2>2, <2>3 DEF Spans
<1> QED BY <1>1, <1>2 DEF SpansIn

-----------------------------------------------------------------------------
(* make_span.  What goes on after a span that is cut is a whole span.      *)
LEMMA TailIs ==
  ASSUME NEW span \in Cells(LineStyle), Whole(span), NEW f \in Nat, NEW end \in Nat,
         f < end, end < f + span.cols, NEW mask \in Nat \cup {-1}
  PROVE  LET tail == [TailCell(span, f, end) EXCEPT !.mask = mask] IN
         /\ tail \in Cells(LineStyle) /\ Whole(tail)
         /\ tail.cols = f + span.cols - end /\ tail.mask = mask
<1> DEFINE tail == [TailCell(span, f, end) EXCEPT !.mask = mask]
<1>1. /\ span.state \in States /\ span.mask \in Nat \cup {-1} /\ span.offs \in Nat
      /\ span.pen \in {None} \cup RBPens /\ span.text \in Seq(Glyphs)
      /\ span.cols \in Nat
      /\ f + span.cols - end \in Nat /\ span.offs + end - f \in Nat
  <2>1. span.cols \in Nat /\ span.offs \in Nat
    BY DEF Cells
  <2>2. \A w, o \in Nat : end < f + w => f + w - end \in Nat /\ o + end - f \in Nat
    OBVIOUS
  <2>3. f + span.cols - end \in Nat /\ span.offs + end - f \in Nat
    BY <2>1, <2>2
  <2> QED BY <2>1, <2>3 DEF Cells
<1>2. /\ TailCell(span, f, end) \in Cells(LineStyle)
      /\ TailCell(span, f, end).cols = f + span.cols - end
      /\ TailCell(span, f, end).state = span.state
      /\ TailCell(span, f, end).pen = span.pen
      /\ TailCell(span, f, end).text = span.text
      /\ span.state = "TEXT" => TailCell(span, f, end).offs = span.offs + end - f
  BY <1>1 DEF TailCell, Cells
<1>3. /\ tail \in Cells(LineStyle)
      /\ tail.cols = f + span.cols - end
      /\ tail.state = span.state /\ tail.pen = span.pen /\ tail.text = span.text
      /\ span.state = "TEXT" => tail.offs = span.offs + end - f
      /\ tail.mask = mask
  <2> HIDE DEF TailCell
  <2> QED BY <1>1, <1>2 DEF Cells
<1>4. span.state = "TEXT" => tail.offs + tail.cols = span.offs + span.cols
  <2> HIDE DEF tail
  <2>1. \A w, o \in Nat : (o + end - f) + (f + w - end) = o + w
    OBVIOUS
  <2> QED BY <1>1, <1>3, <2>1
<1>5. Whole(tail)
  <2>1. span.state \in {"SKIP", "ERASE", "TEXT"} /\ span.cols > 1
    BY <1>1 DEF Whole
  <2> HIDE DEF tail
  <2> QED BY <1>3, <1>4, <2>1 DEF Whole
<1> QED BY <1>3, <1>5

(* What make_span and the caller that fills in the cell leave of a row.    *)
Placed(row, col, cols, cell) == [MakeSpan(row, col, cols) EXCEPT ![col] = cell]

(* The span that col is inside of, and the one that end is inside of.      *)
CutAt(row, col, c) == row[col].state = "CONT" /\ c = row[col].cols

SplitAt(row, end) == end \in DOMAIN row /\ row[end].state = "CONT"

SplitEnd(row, end) == row[end].cols + row[row[end].cols].cols

PlacedIs(new, row, col, end, cell) ==
  /\ new[col] = cell
  /\ \A c \in col + 1..end - 1 : new[c] = ContCell(col)
  /\ \A c \in 0..col - 1 :
       new[c] = IF CutAt(row, col, c) THEN [row[c] EXCEPT !.cols = col - c] ELSE row[c]
  /\ \A c \in DOMAIN row : c >= end =>
       new[c] = IF ~SplitAt(row, end) THEN row[c]
                ELSE IF c = end
                THEN [TailCell(row[row[end].cols], row[end].cols, end) EXCEPT
                        !.mask = row[end].mask]
                ELSE IF c < SplitEnd(row, end) THEN [row[c] EXCEPT !.cols = end]
                ELSE row[c]

LEMMA PlacedCells ==
  ASSUME NEW cols \in Nat, NEW row \in Rows(cols), SpansIn(row, cols),
         NEW col \in Nat, NEW n \in Nat, n >= 1, col + n <= cols, NEW cell
  PROVE  /\ PlacedIs(Placed(row, col, n, cell), row, col, col + n, cell)
         /\ DOMAIN Placed(row, col, n, cell) = 0..cols - 1
         /\ Placed(row, col, n, cell) = [c \in 0..cols - 1 |-> Placed(row, col, n, cell)[c]]
<1> DEFINE end == col + n
           split == SplitAfter(row, end)
           cut == CutBefore(split, col)
           new == Placed(row, col, n, cell)
<1>0. /\ DOMAIN row = 0..cols - 1
      /\ \A c \in 0..cols - 1 : row[c] \in Cells(LineStyle) /\ row[c].cols \in Nat
      /\ row = [c \in 0..cols - 1 |-> row[c]]
  BY DEF Rows, Cells
<1>a. end \in Nat /\ col < end /\ end <= cols /\ col \in 0..cols - 1
  OBVIOUS
<1>1. /\ DOMAIN split = 0..cols - 1
      /\ split = [c \in 0..cols - 1 |-> split[c]]
      /\ \A c \in 0..cols - 1 :
           split[c] = IF ~SplitAt(row, end) THEN row[c]
                      ELSE IF c = end
                      THEN [TailCell(row[row[end].cols], row[end].cols, end) EXCEPT
                              !.mask = row[end].mask]
                      ELSE IF end < c /\ c < SplitEnd(row, end)
                      THEN [row[c] EXCEPT !.cols = end] ELSE row[c]
  <2>1. CASE SplitAt(row, end)
    BY <1>0, <2>1 DEF SplitAfter, SplitAt, SplitEnd
  <2>2. CASE ~SplitAt(row, end)
    BY <1>0, <2>2 DEF SplitAfter, SplitAt
  <2> QED BY <2>1, <2>2
<1> HIDE DEF split
<1>2. ASSUME NEW c \in 0..cols - 1, c < end PROVE split[c] = row[c]
  <2>1. c # end /\ ~(end < c)
    BY <1>a, <1>2
  <2> QED BY <1>1, <2>1
<1>3. /\ DOMAIN cut = 0..cols - 1
      /\ cut = [c \in 0..cols - 1 |-> cut[c]]
      /\ \A c \in 0..cols - 1 :
           cut[c] = IF CutAt(row, col, c) THEN [split[c] EXCEPT !.cols = col - c]
                    ELSE split[c]
  <2>1. split[col] = row[col]
    BY <1>2, <1>a
  <2>2. CASE row[col].state = "CONT"
    <3>1. cut = [split EXCEPT ![row[col].cols] = [split[row[col].cols] EXCEPT
                                                   !.cols = col - row[col].cols]]
      BY <2>1, <2>2 DEF CutBefore
    <3> QED BY <1>1, <2>2, <3>1 DEF CutAt
  <2>3. CASE row[col].state # "CONT"
    BY <1>1, <2>1, <2>3 DEF CutBefore, CutAt
  <2> QED BY <2>2, <2>3
<1> HIDE DEF cut
<1>4. /\ DOMAIN new = 0..cols - 1
      /\ new = [c \in 0..cols - 1 |-> new[c]]
      /\ \A c \in 0..cols - 1 :
           new[c] = IF c = col THEN cell
                    ELSE IF col < c /\ c < end THEN ContCell(col) ELSE cut[c]
  <2>1. MakeSpan(row, col, n) =
          [c \in 0..cols - 1 |->
             IF c = col THEN [ContCell(col) EXCEPT !.cols = n]
             ELSE IF col < c /\ c < col + n THEN ContCell(col) ELSE cut[c]]
    <3>1. /\ cut = CutBefore(SplitAfter(row, col + n), col)
          /\ DOMAIN cut = 0..cols - 1
      BY <1>3 DEF cut, split
    <3> QED BY <1>0, <3>1 DEF MakeSpan
  <2> QED BY <2>1 DEF Placed
<1> HIDE DEF new
<1>5. ASSUME NEW c \in 0..cols - 1, CutAt(row, col, c) PROVE c < col
  BY <1>0, <1>a, <1>5 DEF SpansIn, Continues, CutAt
<1>6. ASSUME NEW c \in 0..col - 1
      PROVE  new[c] = IF CutAt(row, col, c) THEN [row[c] EXCEPT !.cols = col - c]
                      ELSE row[c]
  <2>1. c \in 0..cols - 1 /\ c < end /\ c # col /\ ~(col < c)
    BY <1>a
  <2> QED BY <1>2, <1>3, <1>4, <2>1
<1>7. ASSUME NEW c \in DOMAIN row, c >= end
      PROVE  new[c] = IF ~SplitAt(row, end) THEN row[c]
                      ELSE IF c = end
                      THEN [TailCell(row[row[end].cols], row[end].cols, end) EXCEPT
                              !.mask = row[end].mask]
                      ELSE IF c < SplitEnd(row, end) THEN [row[c] EXCEPT !.cols = end]
                      ELSE row[c]
  <2>1. new[c] = split[c]
    <3>1. c \in 0..cols - 1 /\ ~(c < end) /\ c # col /\ ~(c < col)
      BY <1>0, <1>7, <1>a
    <3>2. new[c] = cut[c] /\ ~CutAt(row, col, c)
      BY <1>4, <1>5, <3>1
    <3> QED BY <1>3, <3>1, <3>2
  <2>2. c # end => end < c
    BY <1>0, <1>7, <1>a
  <2> QED BY <1>0, <1>1, <2>1, <2>2
<1>8. new[col] = cell /\ \A c \in col + 1..end - 1 : new[c] = ContCell(col)
  BY <1>4, <1>a
<1>9. PlacedIs(new, row, col, end, cell)
  BY <1>6, <1>7, <1>8 DEF PlacedIs
<1> QED BY <1>4, <1>9 DEF new
(* It is tiled if the new cell starts a span that long.                    *)
LEMMA PlacedTiled ==
  ASSUME NEW cols \in Nat, NEW row \in Rows(cols), SpansIn(row, cols),
         NEW col \in Nat, NEW n \in Nat, n >= 1, col + n <= cols,
         NEW cell \in Cells(LineStyle), Whole(cell), cell.cols = n
  PROVE  LET new == Placed(row, col, n, cell) IN
         /\ new \in Rows(cols) /\ SpansIn(new, cols)
         /\ \A c \in 0..cols - 1 :
              new[c].mask = IF c = col THEN cell.mask
                            ELSE IF col < c /\ c < col + n THEN -1 ELSE row[c].mask
<1> DEFINE end == col + n
<1>0. /\ DOMAIN row = 0..cols - 1
      /\ \A c \in 0..cols - 1 : row[c] \in Cells(LineStyle) /\ row[c].cols \in Nat
  BY DEF Rows, Cells
<1>a. end \in Nat /\ col < end /\ end <= cols /\ col \in 0..cols - 1
  OBVIOUS
<1>b. PICK new : new = Placed(row, col, n, cell)
  OBVIOUS
<1>c. /\ PlacedIs(new, row, col, end, cell)
      /\ new = [c \in 0..cols - 1 |-> new[c]]
  BY <1>b, PlacedCells
<1>d. cell.state # "CONT" /\ cell.cols = end - col
  BY DEF Whole
<1> HIDE DEF end
(* The two spans that are cut. *)
<1>1. ASSUME SplitAt(row, end)
      PROVE  LET g == row[end].cols IN
             /\ g \in 0..cols - 1 /\ g < end /\ end < SplitEnd(row, end)
             /\ SplitEnd(row, end) <= cols /\ Spans(row, cols, g)
             /\ SplitEnd(row, end) = g + row[g].cols
  <2>1. end \in 0..cols - 1 /\ Continues(row, end)
    BY <1>0, <1>1 DEF SplitAt, SpansIn
  <2>2. row[end].cols \in 0..cols - 1 /\ row[end].cols < end
    BY <1>0, <2>1 DEF Continues
  <2>3. Spans(row, cols, row[end].cols)
    BY <2>1, <2>2 DEF SpansIn, Continues
  <2> QED BY <2>1, <2>2, <2>3 DEF Continues, Spans, SplitEnd
<1>2. ASSUME NEW c \in 0..cols - 1, CutAt(row, col, c)
      PROVE  c < col /\ row[c].state # "CONT" /\ col < c + row[c].cols
  BY <1>0, <1>a, <1>2 DEF SpansIn, Continues, CutAt
<1>3. new[col] = cell
  BY <1>c DEF PlacedIs
<1>4. ASSUME NEW c \in 0..cols - 1, col < c, c < end
      PROVE  /\ new[c] \in Cells(LineStyle) /\ new[c].state = "CONT"
             /\ new[c].cols = col /\ new[c].mask = -1
  <2>1. new[c] = ContCell(col)
    <3>1. c \in col + 1..end - 1
      BY <1>4, <1>a
    <3> QED BY <1>c, <3>1, Zenon DEF PlacedIs
  <2>2. <<>> \in Seq(Glyphs)
    OBVIOUS
  <2>3. /\ ContCell(col) \in Cells(LineStyle) /\ ContCell(col).state = "CONT"
        /\ ContCell(col).cols = col /\ ContCell(col).mask = -1
    BY <2>2 DEF ContCell, NewCell, Cells, States
  <2> QED BY <2>1, <2>3
<1>5. ASSUME NEW c \in 0..cols - 1, c < col
      PROVE  /\ new[c] \in Cells(LineStyle) /\ new[c].state = row[c].state
             /\ new[c].mask = row[c].mask
             /\ CutAt(row, col, c) => new[c].cols = col - c /\ Whole(new[c])
             /\ ~CutAt(row, col, c) => new[c] = row[c]
  <2>1. new[c] = IF CutAt(row, col, c) THEN [row[c] EXCEPT !.cols = col - c]
                 ELSE row[c]
    <3>1. c \in 0..col - 1
      BY <1>5, <1>a
    <3> QED BY <1>c, <3>1, Zenon DEF PlacedIs
  <2>2. CASE CutAt(row, col, c)
    <3>1. /\ [row[c] EXCEPT !.cols = col - c] \in Cells(LineStyle)
          /\ new[c] = [row[c] EXCEPT !.cols = col - c]
          /\ new[c].cols = col - c /\ new[c].state = row[c].state
          /\ new[c].mask = row[c].mask /\ new[c].offs = row[c].offs
          /\ new[c].text = row[c].text /\ new[c].pen = row[c].pen
      <4>1. col - c \in Nat
        BY <1>5, <1>a
      <4> QED BY <1>0, <2>1, <2>2, <4>1 DEF Cells
    <3>2. /\ Whole(row[c]) /\ row[c].cols > 1 /\ row[c].cols \in Nat
          /\ col - c <= row[c].cols /\ col - c \in Nat /\ row[c].offs \in Nat
      <4>1. Spans(row, cols, c) /\ col < c + row[c].cols
        BY <1>2, <2>2 DEF SpansIn
      <4>2. row[c].cols \in Nat /\ row[c].offs \in Nat
        BY <1>0 DEF Cells
      <4>3. col - c <= row[c].cols /\ col - c \in Nat /\ row[c].cols > 1
        BY <1>5, <1>a, <4>1, <4>2
      <4> QED BY <4>1, <4>2, <4>3 DEF Spans
    <3>3. \A x \in Nat : row[c].offs + row[c].cols <= x => row[c].offs + (col - c) <= x
      BY <3>2
    <3>4. row[c].state = "TEXT" => Len(Columns(row[c].text)) \in Nat
      BY <1>0, ColumnsType DEF Cells
    <3>5. Whole(new[c])
      BY <3>1, <3>2, <3>3, <3>4 DEF Whole
    <3> QED BY <2>2, <3>1, <3>5
  <2>3. CASE ~CutAt(row, col, c)
    BY <1>0, <2>1, <2>3
  <2> QED BY <2>2, <2>3
<1>6. ASSUME NEW c \in 0..cols - 1, end <= c, ~SplitAt(row, end)
      PROVE  new[c] = row[c]
  BY <1>0, <1>6, <1>c DEF PlacedIs
<1>7. ASSUME SplitAt(row, end)
      PROVE  /\ end \in 0..cols - 1 /\ new[end] \in Cells(LineStyle)
             /\ Whole(new[end]) /\ new[end].cols = SplitEnd(row, end) - end
             /\ new[end].mask = row[end].mask
  <2> DEFINE g == row[end].cols
  <2>1. end \in 0..cols - 1
    BY <1>0, <1>7 DEF SplitAt
  <2>2. new[end] = [TailCell(row[g], g, end) EXCEPT !.mask = row[end].mask]
    BY <1>7, <1>a, <1>c, <2>1, <1>0 DEF PlacedIs
  <2>3. /\ g \in Nat /\ end \in Nat /\ g < end /\ end < g + row[g].cols
        /\ row[g] \in Cells(LineStyle) /\ Whole(row[g])
        /\ SplitEnd(row, end) = g + row[g].cols /\ row[g].cols \in Nat
    BY <1>0, <1>1, <1>7, <1>a DEF Spans
  <2>4. row[end].mask \in Nat \cup {-1}
    BY <1>0, <2>1 DEF Cells
  <2>5. /\ new[end] \in Cells(LineStyle) /\ Whole(new[end])
        /\ new[end].cols = g + row[g].cols - end /\ new[end].mask = row[end].mask
    <3> HIDE DEF g
    <3> QED BY <2>2, <2>3, <2>4, TailIs
  <2> QED BY <2>1, <2>3, <2>5, <1>a
<1>8. ASSUME NEW c \in 0..cols - 1, SplitAt(row, end), end < c
      PROVE  /\ new[c] \in Cells(LineStyle) /\ new[c].mask = row[c].mask
             /\ c < SplitEnd(row, end) => new[c].state = "CONT" /\ new[c].cols = end
             /\ SplitEnd(row, end) <= c => new[c] = row[c]
  <2>1. new[c] = IF c < SplitEnd(row, end) THEN [row[c] EXCEPT !.cols = end]
                 ELSE row[c]
    BY <1>0, <1>8, <1>a, <1>c DEF PlacedIs
  <2>2. CASE c < SplitEnd(row, end)
    <3>1. row[c].state = "CONT"
      BY <1>0, <1>1, <1>8, <1>a, <2>2 DEF Spans
    <3>2. /\ [row[c] EXCEPT !.cols = end] \in Cells(LineStyle)
          /\ [row[c] EXCEPT !.cols = end].cols = end
          /\ [row[c] EXCEPT !.cols = end].state = row[c].state
          /\ [row[c] EXCEPT !.cols = end].mask = row[c].mask
      BY <1>0, <1>a DEF Cells
    <3>3. SplitEnd(row, end) \in Int
      BY <1>0, <1>1, <1>8
    <3> QED BY <2>1, <2>2, <3>1, <3>2, <3>3
  <2>3. CASE SplitEnd(row, end) <= c
    BY <1>0, <1>1, <1>8, <1>a, <2>1, <2>3
  <2> QED BY <2>2, <2>3, <1>0, <1>1, <1>8, <1>a
<1>9. new \in Rows(cols)
  <2>1. ASSUME NEW c \in 0..cols - 1 PROVE new[c] \in Cells(LineStyle)
    BY <1>0, <1>3, <1>4, <1>5, <1>6, <1>7, <1>8, <1>a
  <2> QED BY <1>c, <2>1 DEF Rows
<1>10. ASSUME NEW c \in 0..cols - 1
       PROVE  new[c].mask = IF c = col THEN cell.mask
                            ELSE IF col < c /\ c < end THEN -1 ELSE row[c].mask
  BY <1>0, <1>3, <1>4, <1>5, <1>6, <1>7, <1>8, <1>a
<1>11. SpansIn(new, cols)
  <2> SUFFICES ASSUME NEW c \in 0..cols - 1
               PROVE  /\ new[c].state # "CONT" => Spans(new, cols, c)
                      /\ new[c].state = "CONT" => Continues(new, c)
    BY DEF SpansIn
  <2>0. /\ row[c].state # "CONT" => Spans(row, cols, c)
        /\ row[c].state = "CONT" => Continues(row, c)
    BY DEF SpansIn
  <2>1. CASE c < col
    <3>1. CASE CutAt(row, col, c)
      <4>1. new[c].state # "CONT" /\ new[c].cols = col - c /\ Whole(new[c])
        BY <1>2, <1>5, <2>1, <3>1
      <4>2. ASSUME NEW d \in c + 1..col - 1
            PROVE  new[d].state = "CONT" /\ new[d].cols = c
        <5>1. d \in 0..cols - 1 /\ d < col /\ ~CutAt(row, col, d)
          BY <1>a, <2>1, <3>1, <4>2 DEF CutAt
        <5>2. d \in c + 1..c + row[c].cols - 1
          BY <1>0, <1>2, <1>a, <3>1, <4>2
        <5>3. row[d].state = "CONT" /\ row[d].cols = c
          BY <1>2, <2>0, <3>1, <5>2 DEF Spans
        <5> QED BY <1>5, <5>1, <5>3
      <4>3. col - c >= 1 /\ c + (col - c) = col /\ col <= cols
        BY <1>a, <2>1
      <4> QED BY <4>1, <4>2, <4>3 DEF Spans
    <3>2. CASE ~CutAt(row, col, c) /\ row[c].state # "CONT"
      <4>1. new[c] = row[c]
        BY <1>5, <2>1, <3>2
      <4>2. c + row[c].cols <= col
        <5> SUFFICES ASSUME col < c + row[c].cols PROVE FALSE
          BY <1>0, <1>a
        <5>1. col \in c + 1..c + row[c].cols - 1
          BY <1>0, <1>a, <2>1
        <5> QED BY <2>0, <3>2, <5>1 DEF Spans, CutAt
      <4>3. ASSUME NEW d \in c + 1..c + row[c].cols - 1
            PROVE  new[d].state = "CONT" /\ new[d].cols = c
        <5>1. d \in 0..cols - 1 /\ d < col
          BY <1>0, <1>a, <2>1, <4>2, <4>3
        <5>2. row[d].state = "CONT" /\ row[d].cols = c
          BY <2>0, <3>2, <4>3 DEF Spans
        <5>3. ~CutAt(row, col, d)
          BY <1>2, <5>1, <5>2
        <5> QED BY <1>5, <5>1, <5>2, <5>3
      <4> QED BY <2>0, <3>2, <4>1, <4>3 DEF Spans
    <3>3. CASE row[c].state = "CONT"
      <4>1. new[c] = row[c]
        BY <1>2, <1>5, <2>1, <3>3
      <4>2. PICK f : f = row[c].cols
        OBVIOUS
      <4>3. /\ f \in 0..cols - 1 /\ f < c /\ f < col
            /\ row[f].state # "CONT" /\ c < f + row[f].cols
        BY <1>0, <1>a, <2>0, <2>1, <3>3, <4>2 DEF Continues
      <4>4. new[f].state # "CONT" /\ c < f + new[f].cols
        <5>1. CASE CutAt(row, col, f)
          BY <1>5, <1>a, <2>1, <4>3, <5>1
        <5>2. CASE ~CutAt(row, col, f)
          BY <1>5, <4>3, <5>2
        <5> QED BY <5>1, <5>2
      <4> QED BY <3>3, <4>1, <4>2, <4>3, <4>4 DEF Continues
    <3> QED BY <3>1, <3>2, <3>3
  <2>2. CASE c = col
    <3>1. \A d \in col + 1..end - 1 : new[d].state = "CONT" /\ new[d].cols = col
      BY <1>4, <1>a
    <3>2. col + cell.cols = end /\ cell.cols >= 1
      BY <1>a, <1>d
    <3> QED BY <1>3, <1>a, <1>d, <2>2, <3>1, <3>2 DEF Spans
  <2>3. CASE col < c /\ c < end
    <3>1. new[c].state = "CONT" /\ new[c].cols = col
      BY <1>4, <2>3
    <3>2. new[col].state # "CONT" /\ c < col + new[col].cols
      BY <1>3, <1>a, <1>d, <2>3
    <3> QED BY <2>3, <3>1, <3>2 DEF Continues
  <2>4. CASE end <= c /\ ~SplitAt(row, end)
    <3>1. new[c] = row[c]
      BY <1>6, <2>4
    <3>2. end \in 0..cols - 1 /\ row[end].state # "CONT"
      BY <1>0, <1>a, <2>4 DEF SplitAt
    <3>3. CASE row[c].state # "CONT"
      <4>1. ASSUME NEW d \in c + 1..c + row[c].cols - 1
            PROVE  new[d].state = "CONT" /\ new[d].cols = c
        <5>1. d \in 0..cols - 1 /\ end <= d
          BY <1>0, <1>a, <2>0, <2>4, <3>3, <4>1 DEF Spans
        <5> QED BY <1>6, <2>0, <2>4, <3>3, <4>1, <5>1 DEF Spans
      <4> QED BY <2>0, <3>1, <3>3, <4>1 DEF Spans
    <3>4. CASE row[c].state = "CONT"
      <4>1. PICK f : f = row[c].cols
        OBVIOUS
      <4>2. /\ f \in 0..cols - 1 /\ f < c
            /\ row[f].state # "CONT" /\ c < f + row[f].cols
        BY <1>0, <2>0, <3>4, <4>1 DEF Continues
      <4>3. end <= f
        <5> SUFFICES ASSUME f < end PROVE FALSE
          BY <1>a, <4>2
        <5>1. Spans(row, cols, f)
          BY <4>2 DEF SpansIn
        <5>2. end # c
          BY <3>2, <3>4
        <5>3. end \in f + 1..f + row[f].cols - 1
          BY <1>0, <1>a, <2>4, <4>2
        <5> QED BY <3>2, <5>1, <5>3 DEF Spans
      <4>4. new[f] = row[f]
        BY <1>6, <2>4, <4>2, <4>3
      <4> QED BY <3>1, <3>4, <4>1, <4>2, <4>4 DEF Continues
    <3> QED BY <3>3, <3>4
  <2>5. CASE end <= c /\ SplitAt(row, end)
    <3> DEFINE g == row[end].cols
    <3>0. PICK last : last = SplitEnd(row, end)
      OBVIOUS
    <3>1. /\ g \in 0..cols - 1 /\ g < end /\ end < last /\ last <= cols
          /\ last = g + row[g].cols /\ last \in Nat /\ row[g].cols \in Nat
          /\ Spans(row, cols, g) /\ end \in 0..cols - 1
      BY <1>0, <1>1, <1>7, <1>a, <2>5, <3>0
    <3> HIDE DEF g
    <3>2. new[end].state # "CONT" /\ Whole(new[end]) /\ new[end].cols = last - end
      BY <1>7, <2>5, <3>0 DEF Whole
    <3>3. ASSUME NEW d \in 0..cols - 1, end < d, d < last
          PROVE  new[d].state = "CONT" /\ new[d].cols = end
      BY <1>8, <2>5, <3>0, <3>3
    <3>4. ASSUME NEW d \in 0..cols - 1, last <= d PROVE new[d] = row[d]
      BY <1>8, <2>5, <3>0, <3>1, <3>4, <1>a
    <3>5. CASE c = end
      <4>1. \A d \in end + 1..end + (last - end) - 1 :
              new[d].state = "CONT" /\ new[d].cols = end
        BY <3>1, <3>3, <1>a
      <4>2. last - end >= 1 /\ end + (last - end) <= cols
        BY <3>1, <1>a
      <4> QED BY <3>2, <3>5, <4>1, <4>2 DEF Spans
    <3>6. CASE end < c /\ c < last
      <4>1. new[c].state = "CONT" /\ new[c].cols = end
        BY <3>3, <3>6
      <4>2. c < end + new[end].cols
        BY <1>a, <3>1, <3>2, <3>6
      <4> QED BY <3>2, <3>6, <4>1, <4>2 DEF Continues
    <3>7. CASE last <= c /\ row[c].state # "CONT"
      <4>1. ASSUME NEW d \in c + 1..c + row[c].cols - 1
            PROVE  new[d].state = "CONT" /\ new[d].cols = c
        <5>1. d \in 0..cols - 1 /\ last <= d
          BY <1>0, <2>0, <3>1, <3>7, <4>1 DEF Spans
        <5> QED BY <2>0, <3>4, <3>7, <4>1, <5>1 DEF Spans
      <4> QED BY <2>0, <3>4, <3>7, <4>1 DEF Spans
    <3>8. CASE last <= c /\ row[c].state = "CONT"
      <4>1. PICK f : f = row[c].cols
        OBVIOUS
      <4>2. /\ f \in 0..cols - 1 /\ f < c /\ row[f].cols \in Nat
            /\ row[f].state # "CONT" /\ c < f + row[f].cols
        BY <1>0, <2>0, <3>8, <4>1 DEF Continues
      <4>3. last <= f
        <5> SUFFICES ASSUME f < last PROVE FALSE
          BY <3>1, <4>2
        <5>1. CASE f = g
          BY <3>1, <3>8, <4>2, <5>1
        <5>2. CASE f > g
          <6>1. f \in g + 1..g + row[g].cols - 1
            BY <3>1, <4>2, <5>2
          <6> QED BY <3>1, <4>2, <6>1 DEF Spans
        <5>3. CASE f < g
          <6>1. Spans(row, cols, f)
            BY <4>2 DEF SpansIn
          <6>2. g \in f + 1..f + row[f].cols - 1
            BY <3>1, <3>8, <4>2, <5>3
          <6> QED BY <3>1, <6>1, <6>2 DEF Spans, Whole
        <5> QED BY <3>1, <4>2, <5>1, <5>2, <5>3
      <4>4. new[f] = row[f] /\ new[c] = row[c]
        BY <3>4, <3>8, <4>2, <4>3
      <4> QED BY <3>8, <4>1, <4>2, <4>4 DEF Continues
    <3> QED BY <2>5, <1>a, <3>1, <3>5, <3>6, <3>7, <3>8
  <2> QED BY <1>a, <2>1, <2>2, <2>3, <2>4, <2>5
<1> QED BY <1>9, <1>10, <1>11, <1>b DEF end

-----------------------------------------------------------------------------
(* The buffers that are tiled, with a stack. *)
TiledRows(cols) == {row \in Rows(cols) : SpansIn(row, cols)}

Sound(lines, cols, stack) ==
  {b \in Buffers(lines, cols, LineStyle) :
     /\ \A l \in 0..lines - 1 : b.cells[l] \in TiledRows(cols)
     /\ b.stack = stack}

LEMMA SoundFields ==
  ASSUME NEW lines \in Nat, NEW cols \in Nat, NEW stack,
         NEW b \in Sound(lines, cols, stack)
  PROVE  /\ b.lines = lines /\ b.cols = cols
         /\ b.cells \in [0..lines - 1 -> TiledRows(cols)]
         /\ b.vcSet \in BOOLEAN /\ b.vc \in Int \X Int /\ b.xlate \in Int \X Int
         /\ b.clip \in Clips(lines, cols) /\ b.pen \in RBPens
         /\ b.stack = stack /\ stack \in Seq(Frames(lines, cols))
<1>1. /\ b.lines \in {lines} /\ b.cols \in {cols}
      /\ b.cells \in [0..lines - 1 -> [0..cols - 1 -> Cells(LineStyle)]]
      /\ b.vcSet \in BOOLEAN /\ b.vc \in Int \X Int /\ b.xlate \in Int \X Int
      /\ b.clip \in Clips(lines, cols) /\ b.pen \in RBPens
      /\ b.stack \in Seq(Frames(lines, cols)) /\ b.stack = stack
  BY DEF Sound, Buffers
<1>2. b.cells \in [0..lines - 1 -> TiledRows(cols)]
  BY <1>1 DEF Sound
<1> QED BY <1>1, <1>2

(* A call that draws changes one line, and leaves it tiled.                *)
LEMMA LineDrawn ==
  ASSUME NEW lines \in Nat, NEW cols \in Nat, NEW stack,
         NEW b \in Sound(lines, cols, stack),
         NEW l \in 0..lines - 1, NEW row \in TiledRows(cols)
  PROVE  [b EXCEPT !.cells[l] = row] \in Sound(lines, cols, stack)
<1> DEFINE new == [b EXCEPT !.cells[l] = row]
           Cell == [0..lines - 1 -> [0..cols - 1 -> Cells(LineStyle)]]
<1>1. /\ b \in Buffers(lines, cols, LineStyle)
      /\ b.cells \in [0..lines - 1 -> TiledRows(cols)]
      /\ b.stack = stack
  BY SoundFields DEF Sound
<1>2. [b.cells EXCEPT ![l] = row] \in [0..lines - 1 -> TiledRows(cols)]
  BY <1>1
<1>3. [b.cells EXCEPT ![l] = row] \in Cell
  BY <1>2 DEF TiledRows, Rows
<1>4. /\ new \in Buffers(lines, cols, LineStyle)
      /\ new.cells = [b.cells EXCEPT ![l] = row] /\ new.stack = b.stack
  <2> HIDE DEF Cell
  <2>1. new = [b EXCEPT !.cells = [b.cells EXCEPT ![l] = row]]
    OBVIOUS
  <2> QED BY <1>1, <1>3, <2>1 DEF Buffers, Cell
<1> QED BY <1>1, <1>2, <1>4 DEF Sound

(* The loop over the unmasked runs.  A span like cell can stand for any    *)
(* run of the columns that are drawn.                                      *)
Drawable(at, cell, cols) ==
  /\ at.col \in Nat /\ at.cols \in Nat /\ at.startcol \in Nat
  /\ at.col + at.cols <= cols
  /\ cell \in Cells(LineStyle)
  /\ cell.state \in {"SKIP", "ERASE", "TEXT"}
  /\ cell.state # "SKIP" => cell.pen # None
  /\ cell.state = "TEXT" => at.startcol + at.cols <= Len(Columns(cell.text))

LEMMA SpanLikeWhole ==
  ASSUME NEW cell \in Cells(LineStyle), NEW offs \in Nat, NEW n \in Nat,
         cell.state \in {"SKIP", "ERASE", "TEXT"},
         cell.state # "SKIP" => cell.pen # None,
         cell.state = "TEXT" => offs + n <= Len(Columns(cell.text))
  PROVE  LET span == SpanLike(cell, offs, n) IN
         span \in Cells(LineStyle) /\ Whole(span) /\ span.cols = n
<1> DEFINE span == SpanLike(cell, offs, n)
<1>1. /\ span \in Cells(LineStyle) /\ span.cols = n /\ span.state = cell.state
      /\ span.pen = cell.pen /\ span.text = cell.text
      /\ cell.state = "TEXT" => span.offs = offs
  BY DEF SpanLike, Cells
<1> HIDE DEF span
<1>2. Whole(span)
  BY <1>1 DEF Whole
<1> QED BY <1>1, <1>2 DEF span

LEMMA RunLengthIs ==
  ASSUME NEW row, NEW c \in Nat, NEW end \in Nat, c < end
  PROVE  /\ RunLength(row, c, end) \in Nat /\ RunLength(row, c, end) >= 1
         /\ c + RunLength(row, c, end) <= end
<1> DEFINE S == {d \in c + 1..end : d = end \/ ~Open(row, d)}
<1>1. S \in SUBSET Nat /\ end \in S
  OBVIOUS
<1>2. \E x \in S : \A y \in S : x <= y
  <2> HIDE DEF S
  <2> QED BY <1>1, Runs!LeastOf
<1>3. Min(S) \in S
  <2> HIDE DEF S
  <2> QED BY <1>2, Zenon DEF Min
<1>4. PICK d \in c + 1..end : d = Min(S)
  BY <1>3
<1>5. RunLength(row, c, end) = d - c
  BY <1>4 DEF RunLength
<1> QED BY <1>5

LEMMA RunTiled ==
  ASSUME NEW cols \in Nat, NEW row \in TiledRows(cols), NEW at, NEW cell,
         Drawable(at, cell, cols), NEW k \in 1..at.cols
  PROVE  PutRun(at, cell, row, k) \in TiledRows(cols)
<1> DEFINE c == at.col + k - 1
           n == RunLength(row, c, at.col + at.cols)
           span == SpanLike(cell, at.startcol + k - 1, n)
<1>0. /\ at.col \in Nat /\ at.cols \in Nat /\ at.startcol \in Nat
      /\ at.col + at.cols \in Nat /\ at.col + at.cols <= cols
      /\ c \in Nat /\ c < at.col + at.cols /\ at.startcol + k - 1 \in Nat
  <2>1. /\ at.col \in Nat /\ at.cols \in Nat /\ at.startcol \in Nat
        /\ at.col + at.cols <= cols
    BY DEF Drawable
  <2>2. k \in Nat /\ k - 1 \in Nat /\ k - 1 < at.cols
    BY <2>1
  <2>3. \A x, y, z \in Nat : x + z \in Nat /\ (y < z => x + y \in Nat /\ x + y < x + z)
    OBVIOUS
  <2>4. \A x, y \in Nat : x + y \in Nat
    OBVIOUS
  <2> QED BY <2>1, <2>2, <2>3, <2>4
<1>1. n \in Nat /\ n >= 1 /\ c + n <= at.col + at.cols
  <2> HIDE DEF c
  <2> QED BY <1>0, RunLengthIs
<1>2. c + n <= cols
  <2> HIDE DEF c, n
  <2> QED BY <1>0, <1>1
<1>3. (at.startcol + k - 1) + n <= at.startcol + at.cols
  <2>1. k - 1 + n <= at.cols
    <3> HIDE DEF n
    <3> QED BY <1>0, <1>1
  <2> HIDE DEF n
  <2> QED BY <1>0, <1>1, <2>1
<1>4. span \in Cells(LineStyle) /\ Whole(span) /\ span.cols = n
  <2>1. cell.state = "TEXT" =>
          (at.startcol + k - 1) + n <= Len(Columns(cell.text))
    <3>1. Len(Columns(cell.text)) \in Nat
      BY ColumnsType DEF Drawable, Cells
    <3>2. \A x, y, z \in Nat : x <= y /\ y <= z => x <= z
      OBVIOUS
    <3>3. (at.startcol + k - 1) + n \in Nat /\ at.startcol + at.cols \in Nat
      <4> DEFINE o == at.startcol + k - 1
      <4>1. o \in Nat
        BY <1>0
      <4> HIDE DEF n, o
      <4> QED BY <1>0, <1>1, <4>1
    <3>4. cell.state = "TEXT" => at.startcol + at.cols <= Len(Columns(cell.text))
      BY DEF Drawable
    <3> HIDE DEF n
    <3> QED BY <1>3, <3>1, <3>2, <3>3, <3>4
  <2> HIDE DEF n
  <2> QED BY <1>0, <1>1, <2>1, SpanLikeWhole DEF Drawable
<1>5. Placed(row, c, n, span) \in TiledRows(cols)
  <2> HIDE DEF c, n, span
  <2> QED BY <1>0, <1>1, <1>2, <1>4, PlacedTiled DEF TiledRows
<1>6. PutRun(at, cell, row, k) = Placed(row, c, n, span)
      \/ PutRun(at, cell, row, k) = row
  BY DEF PutRun, Placed
<1> HIDE DEF c, n, span
<1> QED BY <1>5, <1>6

LEMMA RunsTiled ==
  ASSUME NEW lines \in Nat, NEW cols \in Nat, NEW stack,
         NEW b \in Sound(lines, cols, stack),
         NEW at, NEW cell, Drawable(at, cell, cols), at.line \in 0..lines - 1
  PROVE  PutRuns(b, at, cell) \in Sound(lines, cols, stack)
<1> DEFINE row == b.cells[at.line]
           seq == [n \in 1..at.cols |-> n]
           kept == (0..at.cols) \X TiledRows(cols)
<1>0. at.cols \in Nat /\ row \in TiledRows(cols)
  BY SoundFields DEF Drawable
<1>1. <<at.cols, Runs!Loop(at, cell, {}, row, seq)>> \in kept
  <2>1. DOMAIN seq = 1..at.cols /\ <<0, row>> \in kept
    BY <1>0
  <2>2. ASSUME NEW k \in 1..at.cols, NEW made, <<k - 1, made>> \in kept
        PROVE  <<k, PutRun(at, cell, made, seq[k])>> \in kept
    <3>1. made \in TiledRows(cols) /\ seq[k] = k /\ k \in 0..at.cols
      BY <1>0, <2>2
    <3>2. PutRun(at, cell, made, k) \in TiledRows(cols)
      BY <3>1, RunTiled
    <3> QED BY <3>1, <3>2
  <2> HIDE DEF seq, kept, row
  <2> QED BY <1>0, <2>1, <2>2, Runs!LoopKeeps
<1>2. Runs!Loop(at, cell, {}, row, seq) \in TiledRows(cols)
  BY <1>1
<1>3. PutRuns(b, at, cell) = [b EXCEPT !.cells[at.line] = Runs!Loop(at, cell, {}, row, seq)]
  BY Zenon DEF PutRuns, Runs!Loop, Runs!Passes, FoldLeft, MapThenFoldSet, Max, Runs!Max
<1> HIDE DEF row, seq
<1> QED BY <1>2, <1>3, LineDrawn

-----------------------------------------------------------------------------
(* Calls that draw.  What is left of the columns of a call is on the line. *)
LEMMA ClippedIn ==
  ASSUME NEW lines \in Nat, NEW cols \in Nat, NEW stack,
         NEW b \in Sound(lines, cols, stack),
         NEW line \in Int, NEW col \in Int, NEW n \in Int, InClip(b, line, col, n)
  PROVE  LET at == Clipped(b, line, col, n) IN
         /\ at.line \in 0..lines - 1
         /\ at.col \in Nat /\ at.cols \in Nat /\ at.startcol \in Nat
         /\ at.col + at.cols <= cols /\ at.startcol + at.cols <= n
<1>1. PICK x \in Int, y \in Int : x = b.xlate[1] /\ y = b.xlate[2]
  <2>1. b.xlate \in Int \X Int
    BY SoundFields
  <2> QED BY <2>1
<1>2. /\ b.clip \in RectType
      /\ b.clip.lines # 0 =>
           /\ 0 <= b.clip.top /\ Bottom(b.clip) <= lines
           /\ 0 <= b.clip.left /\ 0 <= b.clip.cols /\ Right(b.clip) <= cols
  BY SoundFields DEF Clips
<1>3. PICK top \in Int, left \in Int, bottom \in Int, right \in Int :
        /\ top = b.clip.top /\ left = b.clip.left
        /\ bottom = Bottom(b.clip) /\ right = Right(b.clip)
  <2>1. /\ b.clip.top \in Int /\ b.clip.left \in Int
        /\ b.clip.lines \in Int /\ b.clip.cols \in Int
    BY <1>2 DEF RectType
  <2>2. Bottom(b.clip) \in Int /\ Right(b.clip) \in Int
    BY <2>1 DEF Bottom, Right
  <2> QED BY <2>1, <2>2
<1>4. b.clip.lines # 0 =>
        0 <= top /\ bottom <= lines /\ 0 <= left /\ left <= right /\ right <= cols
  BY <1>2, <1>3 DEF Right, RectType
<1>5. Translated(b, line, col) = <<line + x, col + y>>
  BY <1>1 DEF Translated
<1>6. PICK at1 \in Int, at2 \in Int : at1 = line + x /\ at2 = col + y
  OBVIOUS
<1>7. /\ b.clip.lines # 0 /\ at1 >= top /\ at1 < bottom /\ at2 < right
      /\ at2 + n > MaxInt(at2, left)
  BY <1>3, <1>5, <1>6 DEF InClip
<1>8. PICK from \in Int : from = MaxInt(at2, left)
  BY DEF MaxInt
<1>9. PICK to \in Int : to = MinInt(at2 + n, right)
  BY DEF MinInt
<1>10. Clipped(b, line, col, n) =
         [line |-> at1, col |-> from, startcol |-> from - at2, cols |-> to - from]
  BY <1>3, <1>5, <1>6, <1>8, <1>9 DEF Clipped
<1>11. /\ 0 <= from /\ at2 <= from /\ from <= to /\ to <= right /\ to <= at2 + n
  BY <1>4, <1>7, <1>8, <1>9 DEF MaxInt, MinInt
<1>12. /\ at1 \in 0..lines - 1 /\ from \in Nat /\ to - from \in Nat /\ from - at2 \in Nat
       /\ from + (to - from) <= cols /\ (from - at2) + (to - from) <= n
  BY <1>4, <1>7, <1>11
<1> QED BY <1>10, <1>12

LEMMA ColsSound ==
  ASSUME NEW lines \in Nat, NEW cols \in Nat, NEW stack,
         NEW b \in Sound(lines, cols, stack),
         NEW line \in Int, NEW col \in Int, NEW n \in Int, NEW cell \in Cells(LineStyle),
         cell.state \in {"SKIP", "ERASE", "TEXT"},
         cell.state # "SKIP" => cell.pen # None,
         cell.state = "TEXT" => n = Len(Columns(cell.text))
  PROVE  PutCols(b, line, col, n, cell) \in Sound(lines, cols, stack)
<1>1. CASE InClip(b, line, col, n)
  <2>1. PICK at : at = Clipped(b, line, col, n)
    OBVIOUS
  <2>2. Drawable(at, cell, cols) /\ at.line \in 0..lines - 1
    BY <1>1, <2>1, ClippedIn DEF Drawable
  <2>3. PutCols(b, line, col, n, cell) = PutRuns(b, at, cell)
    BY <1>1, <2>1 DEF PutCols
  <2> QED BY <2>2, <2>3, RunsTiled
<1>2. CASE ~InClip(b, line, col, n)
  BY <1>2 DEF PutCols
<1> QED BY <1>1, <1>2

LEMMA NewCellIs ==
  ASSUME NEW state \in States, NEW n \in Nat, NEW pen \in {None} \cup RBPens
  PROVE  LET cell == NewCell(state, n, pen) IN
         /\ cell \in Cells(LineStyle) /\ cell.state = state /\ cell.cols = n
         /\ cell.pen = pen /\ cell.mask = -1
<1>1. <<>> \in Seq(Glyphs)
  OBVIOUS
<1> QED BY <1>1 DEF NewCell, Cells

LEMMA NoneIsNoPen == None \notin RBPens
BY CallersAssumption

LEMMA TextSound ==
  ASSUME NEW lines \in Nat, NEW cols \in Nat, NEW stack,
         NEW b \in Sound(lines, cols, stack),
         NEW line \in Int, NEW col \in Int, NEW text \in Seq(Glyphs)
  PROVE  PutText(b, line, col, text) \in Sound(lines, cols, stack)
<1>1. PICK n : n = Len(Columns(text))
  OBVIOUS
<1>2. n \in Nat
  BY <1>1, ColumnsType
<1>3. b.pen \in RBPens /\ b.pen # None
  <2>1. b.pen \in RBPens
    BY SoundFields
  <2> QED BY <2>1, NoneIsNoPen
<1> DEFINE new == NewCell("TEXT", n, b.pen)
           cell == [new EXCEPT !.text = text]
<1>4. new \in Cells(LineStyle) /\ new.state = "TEXT" /\ new.pen = b.pen
  BY <1>2, <1>3, NewCellIs DEF States
<1>5. /\ cell \in Cells(LineStyle) /\ cell.state = "TEXT" /\ cell.pen = b.pen
      /\ cell.text = text
  <2> HIDE DEF new
  <2> QED BY <1>4 DEF Cells
<1>6. PutText(b, line, col, text) = PutCols(b, line, col, n, cell)
  BY <1>1 DEF PutText
<1>7. n \in Int /\ cell.state \in {"SKIP", "ERASE", "TEXT"} /\ cell.pen # None
      /\ n = Len(Columns(cell.text))
  BY <1>1, <1>2, <1>3, <1>5
<1> HIDE DEF cell
<1> QED BY <1>5, <1>6, <1>7, ColsSound

(* No column is left of a call that has none. *)
LEMMA DrawsSome ==
  ASSUME NEW lines \in Nat, NEW cols \in Nat, NEW stack,
         NEW b \in Sound(lines, cols, stack),
         NEW line \in Int, NEW col \in Int, NEW n \in Int, InClip(b, line, col, n)
  PROVE  n \in Nat
<1>1. PICK at : at = Clipped(b, line, col, n)
  OBVIOUS
<1>2. at.cols \in Nat /\ at.startcol \in Nat /\ at.startcol + at.cols <= n
  BY <1>1, ClippedIn
<1> QED BY <1>2

LEMMA SkipSound ==
  ASSUME NEW lines \in Nat, NEW cols \in Nat, NEW stack,
         NEW b \in Sound(lines, cols, stack),
         NEW line \in Int, NEW col \in Int, NEW n \in Int
  PROVE  SkipCols(b, line, col, n) \in Sound(lines, cols, stack)
<1>1. CASE InClip(b, line, col, n)
  <2>1. n \in Nat
    BY <1>1, DrawsSome
  <2>2. /\ SkipCell(n) \in Cells(LineStyle) /\ SkipCell(n).state = "SKIP"
    BY <2>1, NewCellIs DEF SkipCell, States
  <2> QED BY <2>1, <2>2, ColsSound DEF SkipCols
<1>2. CASE ~InClip(b, line, col, n)
  BY <1>2 DEF SkipCols, PutCols
<1> QED BY <1>1, <1>2

LEMMA EraseSound ==
  ASSUME NEW lines \in Nat, NEW cols \in Nat, NEW stack,
         NEW b \in Sound(lines, cols, stack),
         NEW line \in Int, NEW col \in Int, NEW n \in Int
  PROVE  EraseCols(b, line, col, n) \in Sound(lines, cols, stack)
<1>1. CASE InClip(b, line, col, n)
  <2>1. n \in Nat
    BY <1>1, DrawsSome
  <2>2. b.pen \in RBPens
    BY SoundFields
  <2>3. PICK cell : cell = NewCell("ERASE", n, b.pen)
    OBVIOUS
  <2>4. cell \in Cells(LineStyle) /\ cell.state = "ERASE" /\ cell.pen = b.pen
    BY <2>1, <2>2, <2>3, NewCellIs DEF States
  <2>5. b.pen # None
    BY <2>2, NoneIsNoPen
  <2>6. EraseCols(b, line, col, n) = PutCols(b, line, col, n, cell)
    BY <2>3 DEF EraseCols
  <2> QED BY <2>1, <2>4, <2>5, <2>6, ColsSound
<1>2. CASE ~InClip(b, line, col, n)
  BY <1>2 DEF EraseCols, PutCols
<1> QED BY <1>1, <1>2

(* One cell of the screen.                                                 *)
LEMMA CanPutIn ==
  ASSUME NEW lines \in Nat, NEW cols \in Nat, NEW stack,
         NEW b \in Sound(lines, cols, stack),
         NEW line \in Int, NEW col \in Int, CanPut(b, line, col)
  PROVE  LET at == Translated(b, line, col) IN
         at[1] \in 0..lines - 1 /\ at[2] \in 0..cols - 1
<1>1. PICK x \in Int, y \in Int : x = b.xlate[1] /\ y = b.xlate[2]
  <2>1. b.xlate \in Int \X Int
    BY SoundFields
  <2> QED BY <2>1
<1>2. InClip(b, line, col, 1)
  BY DEF CanPut
<1>3. PICK at : at = Clipped(b, line, col, 1)
  OBVIOUS
<1>4. /\ at.line \in 0..lines - 1 /\ at.col \in Nat /\ at.cols \in Nat
      /\ at.startcol \in Nat /\ at.col + at.cols <= cols
  BY <1>2, <1>3, ClippedIn
<1>5. /\ at.line = line + x /\ at.col = MaxInt(col + y, b.clip.left)
      /\ at.cols = MinInt((col + y) + 1, Right(b.clip)) - MaxInt(col + y, b.clip.left)
  BY <1>1, <1>3 DEF Clipped, Translated
<1>6. /\ (col + y) + 1 > MaxInt(col + y, b.clip.left)
      /\ col + y < Right(b.clip)
  BY <1>1, <1>2 DEF InClip, Translated
<1>7. b.clip.left \in Int /\ Right(b.clip) \in Int
  <2>1. b.clip \in RectType
    BY SoundFields DEF Clips
  <2> QED BY <2>1 DEF RectType, Right
<1>8. at.col = col + y /\ at.cols = 1
  BY <1>5, <1>6, <1>7 DEF MaxInt, MinInt
<1>9. Translated(b, line, col) = <<line + x, col + y>>
  BY <1>1 DEF Translated
<1> QED BY <1>4, <1>5, <1>8, <1>9

LEMMA CellSound ==
  ASSUME NEW lines \in Nat, NEW cols \in Nat, NEW stack,
         NEW b \in Sound(lines, cols, stack),
         NEW l \in 0..lines - 1, NEW c \in 0..cols - 1,
         NEW cell \in Cells(LineStyle), Whole(cell), cell.cols = 1
  PROVE  [b EXCEPT !.cells[l] = [MakeSpan(@, c, 1) EXCEPT ![c] = cell]]
           \in Sound(lines, cols, stack)
<1>1. b.cells[l] \in TiledRows(cols)
  <2>1. b.cells \in [0..lines - 1 -> TiledRows(cols)]
    BY SoundFields
  <2> QED BY <2>1
<1>2. Placed(b.cells[l], c, 1, cell) \in TiledRows(cols)
  BY <1>1, PlacedTiled DEF TiledRows
<1>3. [b EXCEPT !.cells[l] = [MakeSpan(@, c, 1) EXCEPT ![c] = cell]]
        = [b EXCEPT !.cells[l] = Placed(b.cells[l], c, 1, cell)]
  BY DEF Placed
<1> QED BY <1>2, <1>3, LineDrawn

LEMMA CharSound ==
  ASSUME NEW lines \in Nat, NEW cols \in Nat, NEW stack,
         NEW b \in Sound(lines, cols, stack),
         NEW line \in Int, NEW col \in Int, NEW codepoint \in Glyphs
  PROVE  PutChar(b, line, col, codepoint) \in Sound(lines, cols, stack)
<1>1. CASE CanPut(b, line, col)
  <2>1. PICK at : at = Translated(b, line, col)
    OBVIOUS
  <2>2. at[1] \in 0..lines - 1 /\ at[2] \in 0..cols - 1
    BY <1>1, <2>1, CanPutIn
  <2>3. b.pen \in RBPens /\ b.pen # None
    <3>1. b.pen \in RBPens
      BY SoundFields
    <3> QED BY <3>1, NoneIsNoPen
  <2> DEFINE new == NewCell("CHAR", 1, b.pen)
             cell == [new EXCEPT !.text = <<codepoint>>]
  <2>4. new \in Cells(LineStyle) /\ new.state = "CHAR" /\ new.pen = b.pen /\ new.cols = 1
    <3>1. "CHAR" \in States /\ b.pen \in {None} \cup RBPens /\ 1 \in Nat
      BY <2>3 DEF States
    <3> QED BY <3>1, NewCellIs
  <2>5. /\ cell \in Cells(LineStyle) /\ cell.state = "CHAR" /\ cell.pen = b.pen
        /\ cell.text = <<codepoint>> /\ cell.cols = 1
    <3>1. <<codepoint>> \in Seq(Glyphs)
      OBVIOUS
    <3> HIDE DEF new
    <3> QED BY <2>4, <3>1 DEF Cells
  <2>6. PutChar(b, line, col, codepoint)
          = [b EXCEPT !.cells[at[1]] = [MakeSpan(@, at[2], 1) EXCEPT ![at[2]] = cell]]
    BY <1>1, <2>1 DEF PutChar
  <2> HIDE DEF cell
  <2>7. Whole(cell)
    BY <2>3, <2>5 DEF Whole
  <2>8. ASSUME NEW l \in 0..lines - 1, NEW c \in 0..cols - 1
        PROVE  [b EXCEPT !.cells[l] = [MakeSpan(@, c, 1) EXCEPT ![c] = cell]]
                 \in Sound(lines, cols, stack)
    BY <2>5, <2>7, CellSound
  <2> QED BY <2>2, <2>6, <2>8
<1>2. CASE ~CanPut(b, line, col)
  BY <1>2 DEF PutChar
<1> QED BY <1>1, <1>2

(* A line cell may take another's place. *)
LEMMA JoinedTiled ==
  ASSUME NEW cols \in Nat, NEW row \in TiledRows(cols), NEW c \in 0..cols - 1,
         row[c].state = "LINE", NEW cell \in Cells(LineStyle), Whole(cell),
         cell.cols = 1
  PROVE  [row EXCEPT ![c] = cell] \in TiledRows(cols)
<1> DEFINE new == [row EXCEPT ![c] = cell]
<1>1. /\ row \in Rows(cols) /\ SpansIn(row, cols) /\ DOMAIN row = 0..cols - 1
      /\ \A d \in 0..cols - 1 : row[d].cols \in Nat
  BY DEF TiledRows, Rows, Cells
<1>2. new \in Rows(cols)
  BY <1>1 DEF Rows
<1>3. row[c].cols = 1
  BY <1>1 DEF SpansIn, Spans, Whole
<1>4. new[c] = cell /\ \A d \in 0..cols - 1 : d # c => new[d] = row[d]
  BY <1>1
<1> HIDE DEF new
<1>5. SpansIn(new, cols)
  <2> SUFFICES ASSUME NEW d \in 0..cols - 1
               PROVE  /\ new[d].state # "CONT" => Spans(new, cols, d)
                      /\ new[d].state = "CONT" => Continues(new, d)
    BY DEF SpansIn
  <2>0. /\ row[d].state # "CONT" => Spans(row, cols, d)
        /\ row[d].state = "CONT" => Continues(row, d)
    BY <1>1 DEF SpansIn
  <2>1. CASE d = c
    <3>1. cell.state # "CONT" /\ c + cell.cols <= cols
      BY DEF Whole
    <3> QED BY <1>4, <2>1, <3>1 DEF Spans
  <2>2. CASE d # c /\ row[d].state # "CONT"
    <3>1. ASSUME NEW e \in d + 1..d + row[d].cols - 1
          PROVE  new[e].state = "CONT" /\ new[e].cols = d
      <4>1. row[e].state = "CONT" /\ row[e].cols = d /\ e \in 0..cols - 1
        BY <1>1, <2>0, <2>2, <3>1 DEF Spans
      <4>2. e # c
        BY <4>1
      <4> QED BY <1>4, <4>1, <4>2
    <3> QED BY <1>4, <2>0, <2>2, <3>1 DEF Spans
  <2>3. CASE d # c /\ row[d].state = "CONT"
    <3>1. PICK f : f = row[d].cols
      OBVIOUS
    <3>2. f \in 0..cols - 1 /\ f < d /\ row[f].state # "CONT" /\ d < f + row[f].cols
      BY <1>1, <2>0, <2>3, <3>1 DEF Continues
    <3>3. f # c
      BY <1>3, <3>2
    <3> QED BY <1>4, <2>3, <3>1, <3>2, <3>3 DEF Continues
  <2> QED BY <2>1, <2>2, <2>3
<1> QED BY <1>2, <1>5 DEF TiledRows, new

Arms == {"north", "east", "south", "west"} \X LineStyle

LEMMA LineCellSound ==
  ASSUME NEW lines \in Nat, NEW cols \in Nat, NEW stack,
         NEW b \in Sound(lines, cols, stack),
         NEW line \in Int, NEW col \in Int, NEW bits \in SUBSET Arms
  PROVE  LineCell(b, line, col, bits) \in Sound(lines, cols, stack)
<1>1. CASE CanPut(b, line, col)
  <2>1. PICK at : at = Translated(b, line, col)
    OBVIOUS
  <2>2. at[1] \in 0..lines - 1 /\ at[2] \in 0..cols - 1
    BY <1>1, <2>1, CanPutIn
  <2>3. b.pen \in RBPens /\ b.pen # None
    <3>1. b.pen \in RBPens
      BY SoundFields
    <3> QED BY <3>1, NoneIsNoPen
  <2>4. PICK row : row = b.cells[at[1]]
    OBVIOUS
  <2>5. row \in TiledRows(cols) /\ row[at[2]] \in Cells(LineStyle)
    BY <2>2, <2>4, SoundFields DEF TiledRows, Rows
  <2> DEFINE fresh == NewCell("LINE", 1, b.pen)
             new == [fresh EXCEPT !.bits = bits]
             joined == [new EXCEPT !.bits = bits \cup row[at[2]].bits]
  <2>6. /\ fresh \in Cells(LineStyle) /\ fresh.state = "LINE" /\ fresh.pen = b.pen
        /\ fresh.cols = 1
    BY <2>3, NewCellIs DEF States
  <2>7. new \in Cells(LineStyle) /\ new.state = "LINE" /\ new.pen = b.pen /\ new.cols = 1
    <3> HIDE DEF fresh
    <3> QED BY <2>6 DEF Cells, Arms
  <2>8. /\ joined \in Cells(LineStyle) /\ joined.state = "LINE" /\ joined.pen = b.pen
        /\ joined.cols = 1
    <3>1. bits \cup row[at[2]].bits \in SUBSET Arms
      BY <2>5 DEF Cells, Arms
    <3> HIDE DEF new
    <3> QED BY <2>7, <3>1 DEF Cells, Arms
  <2>9. CASE row[at[2]].state # "LINE"
    <3>1. LineCell(b, line, col, bits)
            = [b EXCEPT !.cells[at[1]] = [MakeSpan(@, at[2], 1) EXCEPT ![at[2]] = new]]
      BY <1>1, <2>1, <2>4, <2>9 DEF LineCell
    <3> HIDE DEF new
    <3>2. Whole(new)
      BY <2>3, <2>7 DEF Whole
    <3> QED BY <2>2, <2>7, <3>1, <3>2, CellSound
  <2>10. CASE row[at[2]].state = "LINE"
    <3>1. LineCell(b, line, col, bits) = [b EXCEPT !.cells[at[1]][at[2]] = joined]
      BY <1>1, <2>1, <2>4, <2>10 DEF LineCell
    <3> HIDE DEF new, joined
    <3>2. Whole(joined)
      BY <2>3, <2>8 DEF Whole
    <3>3. [row EXCEPT ![at[2]] = joined] \in TiledRows(cols)
      BY <2>2, <2>5, <2>8, <2>10, <3>2, JoinedTiled
    <3>4. [b EXCEPT !.cells[at[1]][at[2]] = joined]
            = [b EXCEPT !.cells[at[1]] = [row EXCEPT ![at[2]] = joined]]
      BY <2>4
    <3>5. \A l \in 0..lines - 1, r \in TiledRows(cols) :
            [b EXCEPT !.cells[l] = r] \in Sound(lines, cols, stack)
      BY LineDrawn
    <3>6. [b EXCEPT !.cells[at[1]] = [row EXCEPT ![at[2]] = joined]]
            \in Sound(lines, cols, stack)
      BY <2>2, <3>3, <3>5, Zenon
    <3> QED BY <3>1, <3>4, <3>6, Zenon
  <2> QED BY <2>9, <2>10
<1>2. CASE ~CanPut(b, line, col)
  BY <1>2 DEF LineCell
<1> QED BY <1>1, <1>2

-----------------------------------------------------------------------------
(* The loops over what is drawn.                                           *)
HBody(line, startcol, bits, b, n) == LineCell(b, line, startcol + n, bits)
VBody(startline, col, bits, b, n) == LineCell(b, startline + n, col, bits)

HStrokes == INSTANCE Induction WITH Pass <- HBody
VStrokes == INSTANCE Induction WITH Pass <- VBody

Erases == INSTANCE Induction WITH
  Pass <- LAMBDA rect, y, z, b, n :
            EraseCols(b, rect.top + n - 1, rect.left, rect.cols)

LEMMA ArmType ==
  ASSUME NEW d \in {"north", "east", "south", "west"}
  PROVE  Arm(d, LineStyle) \in SUBSET Arms
BY DEF Arm, Arms

(* A range that starts at 1 is that of a natural number. *)
LEMMA RangeOf ==
  ASSUME NEW count \in Int
  PROVE  \E m \in Nat : 1..count = 1..m
<1>1. CASE count \in Nat
  BY <1>1
<1>2. CASE count \notin Nat
  <2>1. 1..count = {} /\ 1..0 = {}
    BY <1>2
  <2> QED BY <2>1
<1> QED BY <1>1, <1>2

LEMMA HLineSound ==
  ASSUME NEW lines \in Nat, NEW cols \in Nat, NEW stack,
         NEW b \in Sound(lines, cols, stack),
         NEW line \in Int, NEW startcol \in Int, NEW endcol \in Int
  PROVE  HLine(b, line, startcol, endcol, LineStyle, LineCaps) \in Sound(lines, cols, stack)
<1> DEFINE east == Arm("east", LineStyle)
           west == Arm("west", LineStyle)
           first == LineCell(b, line, startcol,
                      east \cup (IF "start" \in LineCaps THEN west ELSE {}))
           count == endcol - startcol - 1
           seq == [n \in 1..count |-> n]
           between == HStrokes!Loop(line, startcol, east \cup west, first, seq)
           last == (IF "end" \in LineCaps THEN east ELSE {}) \cup west
<1>1. east \in SUBSET Arms /\ west \in SUBSET Arms
  BY ArmType
<1>2. HLine(b, line, startcol, endcol, LineStyle, LineCaps)
        = LineCell(between, line, endcol, last)
  BY Zenon DEF HLine, HStrokes!Loop, HStrokes!Passes, HBody, FoldLeft, MapThenFoldSet,
       Max, HStrokes!Max
<1> HIDE DEF east, west
<1>3. first \in Sound(lines, cols, stack)
  BY <1>1, LineCellSound
<1>4. between \in Sound(lines, cols, stack)
  <2>1. PICK m \in Nat : 1..count = 1..m
    <3>1. count \in Int
      OBVIOUS
    <3> HIDE DEF count
    <3> QED BY <3>1, RangeOf
  <2> DEFINE kept == (0..m) \X Sound(lines, cols, stack)
  <2>2. ASSUME NEW k \in 1..m, NEW made, <<k - 1, made>> \in kept
        PROVE  <<k, HBody(line, startcol, east \cup west, made, seq[k])>> \in kept
    <3>1. made \in Sound(lines, cols, stack) /\ k \in 0..m /\ startcol + k \in Int
          /\ seq[k] = k
      BY <2>1, <2>2
    <3>2. HBody(line, startcol, east \cup west, made, k) \in Sound(lines, cols, stack)
      BY <1>1, <3>1, LineCellSound DEF HBody
    <3> QED BY <3>1, <3>2
  <2>3. DOMAIN seq = 1..m /\ <<0, first>> \in kept
    BY <1>3, <2>1
  <2>4. <<m, between>> \in kept
    <3> HIDE DEF seq, first, kept
    <3> QED BY <2>2, <2>3, HStrokes!LoopKeeps
  <2> QED BY <2>4
<1>5. last \in SUBSET Arms
  BY <1>1
<1> HIDE DEF between, last
<1> QED BY <1>2, <1>4, <1>5, LineCellSound

LEMMA VLineSound ==
  ASSUME NEW lines \in Nat, NEW cols \in Nat, NEW stack,
         NEW b \in Sound(lines, cols, stack),
         NEW startline \in Int, NEW endline \in Int, NEW col \in Int
  PROVE  VLine(b, startline, endline, col, LineStyle, LineCaps) \in Sound(lines, cols, stack)
<1> DEFINE south == Arm("south", LineStyle)
           north == Arm("north", LineStyle)
           first == LineCell(b, startline, col,
                      south \cup (IF "start" \in LineCaps THEN north ELSE {}))
           count == endline - startline - 1
           seq == [n \in 1..count |-> n]
           between == VStrokes!Loop(startline, col, north \cup south, first, seq)
           last == (IF "end" \in LineCaps THEN south ELSE {}) \cup north
<1>1. south \in SUBSET Arms /\ north \in SUBSET Arms
  BY ArmType
<1>2. VLine(b, startline, endline, col, LineStyle, LineCaps)
        = LineCell(between, endline, col, last)
  BY Zenon DEF VLine, VStrokes!Loop, VStrokes!Passes, VBody, FoldLeft, MapThenFoldSet,
       Max, VStrokes!Max
<1> HIDE DEF south, north
<1>3. first \in Sound(lines, cols, stack)
  BY <1>1, LineCellSound
<1>4. between \in Sound(lines, cols, stack)
  <2>1. PICK m \in Nat : 1..count = 1..m
    <3>1. count \in Int
      OBVIOUS
    <3> HIDE DEF count
    <3> QED BY <3>1, RangeOf
  <2> DEFINE kept == (0..m) \X Sound(lines, cols, stack)
  <2>2. ASSUME NEW k \in 1..m, NEW made, <<k - 1, made>> \in kept
        PROVE  <<k, VBody(startline, col, north \cup south, made, seq[k])>> \in kept
    <3>1. made \in Sound(lines, cols, stack) /\ k \in 0..m /\ startline + k \in Int
          /\ seq[k] = k
      BY <2>1, <2>2
    <3>2. VBody(startline, col, north \cup south, made, k) \in Sound(lines, cols, stack)
      BY <1>1, <3>1, LineCellSound DEF VBody
    <3> QED BY <3>1, <3>2
  <2>3. DOMAIN seq = 1..m /\ <<0, first>> \in kept
    BY <1>3, <2>1
  <2>4. <<m, between>> \in kept
    <3> HIDE DEF seq, first, kept
    <3> QED BY <2>2, <2>3, VStrokes!LoopKeeps
  <2> QED BY <2>4
<1>5. last \in SUBSET Arms
  BY <1>1
<1> HIDE DEF between, last
<1> QED BY <1>2, <1>4, <1>5, LineCellSound

LEMMA EraseRectSound ==
  ASSUME NEW lines \in Nat, NEW cols \in Nat, NEW stack,
         NEW b \in Sound(lines, cols, stack),
         NEW rect \in RectType
  PROVE  EraseRect(b, rect) \in Sound(lines, cols, stack)
<1> DEFINE seq == [n \in 1..rect.lines |-> n]
           kept(m) == (0..m) \X Sound(lines, cols, stack)
<1>1. rect.lines \in Int /\ rect.top \in Int /\ rect.left \in Int /\ rect.cols \in Int
  BY DEF RectType
<1>2. PICK m \in Nat : 1..rect.lines = 1..m
  BY <1>1, RangeOf
<1>3. ASSUME NEW k \in 1..m, NEW made, <<k - 1, made>> \in kept(m)
      PROVE  <<k, EraseCols(made, rect.top + seq[k] - 1, rect.left, rect.cols)>> \in kept(m)
  <2>1. made \in Sound(lines, cols, stack) /\ k \in 0..m /\ rect.top + k - 1 \in Int
        /\ seq[k] = k
    BY <1>1, <1>2, <1>3
  <2>2. EraseCols(made, rect.top + k - 1, rect.left, rect.cols) \in Sound(lines, cols, stack)
    BY <1>1, <2>1, EraseSound
  <2> QED BY <2>1, <2>2
<1>4. DOMAIN seq = 1..m /\ <<0, b>> \in kept(m)
  BY <1>2
<1>5. EraseRect(b, rect) = Erases!Loop(rect, {}, {}, b, seq)
  BY Zenon DEF EraseRect, Erases!Loop, Erases!Passes, FoldLeft, MapThenFoldSet,
       Max, Erases!Max
<1>6. <<m, Erases!Loop(rect, {}, {}, b, seq)>> \in kept(m)
  <2> HIDE DEF seq, kept
  <2> QED BY <1>3, <1>4, Erases!LoopKeeps
<1> HIDE DEF seq
<1> QED BY <1>5, <1>6

LEMMA ClearSound ==
  ASSUME NEW lines \in Nat, NEW cols \in Nat, NEW stack,
         NEW b \in Sound(lines, cols, stack)
  PROVE  Clear(b) \in Sound(lines, cols, stack)
<1>1. b.lines \in Int /\ b.cols \in Int
  BY SoundFields
<1>2. InitSized(0, 0, b.lines, b.cols) \in RectType
  BY <1>1 DEF InitSized, RectType
<1> QED BY <1>2, EraseRectSound DEF Clear

-----------------------------------------------------------------------------
(* The context. *)
LEMMA ContextSound ==
  ASSUME NEW lines \in Nat, NEW cols \in Nat, NEW stack,
         NEW b \in Sound(lines, cols, stack)
  PROVE  /\ \A v \in Int \X Int : [b EXCEPT !.vc = v] \in Sound(lines, cols, stack)
         /\ \A v \in BOOLEAN : [b EXCEPT !.vcSet = v] \in Sound(lines, cols, stack)
         /\ \A v \in Int \X Int : [b EXCEPT !.xlate = v] \in Sound(lines, cols, stack)
         /\ \A v \in Clips(lines, cols) : [b EXCEPT !.clip = v] \in Sound(lines, cols, stack)
         /\ \A v \in RBPens : [b EXCEPT !.pen = v] \in Sound(lines, cols, stack)
         /\ \A v \in Seq(Frames(lines, cols)) :
              [b EXCEPT !.stack = v] \in Sound(lines, cols, v)
<1>1. /\ b \in Buffers(lines, cols, LineStyle)
      /\ \A l \in 0..lines - 1 : b.cells[l] \in TiledRows(cols)
      /\ b.stack = stack
  BY DEF Sound
<1>2. ASSUME NEW new \in Buffers(lines, cols, LineStyle), new.cells = b.cells,
             new.stack = b.stack
      PROVE  new \in Sound(lines, cols, stack)
  BY <1>1, <1>2 DEF Sound
<1>3. ASSUME NEW v \in Int \X Int PROVE [b EXCEPT !.vc = v] \in Sound(lines, cols, stack)
  <2>1. [b EXCEPT !.vc = v] \in Buffers(lines, cols, LineStyle)
        /\ [b EXCEPT !.vc = v].cells = b.cells
        /\ [b EXCEPT !.vc = v].stack = b.stack
    BY <1>1 DEF Buffers
  <2> QED BY <1>2, <2>1, Zenon
<1>4. ASSUME NEW v \in BOOLEAN PROVE [b EXCEPT !.vcSet = v] \in Sound(lines, cols, stack)
  <2>1. [b EXCEPT !.vcSet = v] \in Buffers(lines, cols, LineStyle)
        /\ [b EXCEPT !.vcSet = v].cells = b.cells
        /\ [b EXCEPT !.vcSet = v].stack = b.stack
    BY <1>1 DEF Buffers
  <2> QED BY <1>2, <2>1, Zenon
<1>5. ASSUME NEW v \in Int \X Int PROVE [b EXCEPT !.xlate = v] \in Sound(lines, cols, stack)
  <2>1. [b EXCEPT !.xlate = v] \in Buffers(lines, cols, LineStyle)
        /\ [b EXCEPT !.xlate = v].cells = b.cells
        /\ [b EXCEPT !.xlate = v].stack = b.stack
    BY <1>1 DEF Buffers
  <2> QED BY <1>2, <2>1, Zenon
<1>6. ASSUME NEW v \in Clips(lines, cols)
      PROVE  [b EXCEPT !.clip = v] \in Sound(lines, cols, stack)
  <2>1. [b EXCEPT !.clip = v] \in Buffers(lines, cols, LineStyle)
        /\ [b EXCEPT !.clip = v].cells = b.cells
        /\ [b EXCEPT !.clip = v].stack = b.stack
    BY <1>1 DEF Buffers
  <2> QED BY <1>2, <2>1, Zenon
<1>7. ASSUME NEW v \in RBPens PROVE [b EXCEPT !.pen = v] \in Sound(lines, cols, stack)
  <2>1. [b EXCEPT !.pen = v] \in Buffers(lines, cols, LineStyle)
        /\ [b EXCEPT !.pen = v].cells = b.cells
        /\ [b EXCEPT !.pen = v].stack = b.stack
    BY <1>1 DEF Buffers
  <2> QED BY <1>2, <2>1, Zenon
<1>8. ASSUME NEW v \in Seq(Frames(lines, cols))
      PROVE  [b EXCEPT !.stack = v] \in Sound(lines, cols, v)
  <2>1. [b EXCEPT !.stack = v] \in Buffers(lines, cols, LineStyle)
        /\ [b EXCEPT !.stack = v].cells = b.cells
        /\ [b EXCEPT !.stack = v].stack = v
    BY <1>1 DEF Buffers
  <2> QED BY <1>1, <2>1 DEF Sound
<1> QED BY <1>3, <1>4, <1>5, <1>6, <1>7, <1>8

(* Masks are no part of the tiling. *)
LEMMA MasksSound ==
  ASSUME NEW lines \in Nat, NEW cols \in Nat, NEW stack,
         NEW b \in Sound(lines, cols, stack),
         NEW masks \in [(0..lines - 1) \X (0..cols - 1) -> Nat \cup {-1}],
         NEW cells,
         cells = [l \in DOMAIN b.cells |-> [c \in DOMAIN b.cells[l] |->
                    [b.cells[l][c] EXCEPT !.mask = masks[<<l, c>>]]]]
  PROVE  [b EXCEPT !.cells = cells] \in Sound(lines, cols, stack)
<1>1. /\ b \in Buffers(lines, cols, LineStyle)
      /\ b.cells \in [0..lines - 1 -> TiledRows(cols)]
      /\ b.stack = stack
  BY SoundFields DEF Sound
<1>2. ASSUME NEW l \in 0..lines - 1 PROVE cells[l] \in TiledRows(cols)
  <2>1. PICK row \in TiledRows(cols) : row = b.cells[l]
    BY <1>1
  <2>2. row \in Rows(cols) /\ SpansIn(row, cols) /\ DOMAIN row = 0..cols - 1
    BY DEF TiledRows, Rows
  <2>3. PICK new : new = cells[l]
    OBVIOUS
  <2>4. new = [c \in 0..cols - 1 |-> [row[c] EXCEPT !.mask = masks[<<l, c>>]]]
    BY <1>1, <2>1, <2>2, <2>3
  <2>5. ASSUME NEW c \in 0..cols - 1
        PROVE  /\ new[c] \in Cells(LineStyle)
               /\ new[c].state = row[c].state /\ new[c].cols = row[c].cols
               /\ new[c].offs = row[c].offs /\ new[c].text = row[c].text
               /\ new[c].pen = row[c].pen /\ row[c].cols \in Nat
    <3>1. masks[<<l, c>>] \in Nat \cup {-1} /\ row[c] \in Cells(LineStyle)
      BY <2>2 DEF Rows
    <3>2. new[c] = [row[c] EXCEPT !.mask = masks[<<l, c>>]]
      BY <2>4
    <3> QED BY <3>1, <3>2 DEF Cells
  <2>6. new \in Rows(cols)
    BY <2>4, <2>5 DEF Rows
  <2>7. ASSUME NEW c \in 0..cols - 1
        PROVE  /\ new[c].state # "CONT" => Spans(new, cols, c)
               /\ new[c].state = "CONT" => Continues(new, c)
    <3>0. /\ row[c].state # "CONT" => Spans(row, cols, c)
          /\ row[c].state = "CONT" => Continues(row, c)
      BY <2>2 DEF SpansIn
    <3>1. CASE row[c].state # "CONT"
      <4>1. Whole(row[c]) /\ Whole(new[c])
        BY <2>5, <3>0, <3>1 DEF Spans, Whole
      <4>2. ASSUME NEW d \in c + 1..c + row[c].cols - 1
            PROVE  new[d].state = "CONT" /\ new[d].cols = c
        <5>1. d \in 0..cols - 1
          BY <2>5, <3>0, <3>1 DEF Spans
        <5> QED BY <2>5, <3>0, <3>1, <5>1 DEF Spans
      <4> QED BY <2>5, <3>0, <3>1, <4>1, <4>2 DEF Spans
    <3>2. CASE row[c].state = "CONT"
      <4>1. row[c].cols \in 0..cols - 1
        BY <2>5, <3>0, <3>2 DEF Continues
      <4> QED BY <2>5, <3>0, <3>2, <4>1 DEF Continues
    <3> QED BY <2>5, <3>1, <3>2
  <2> QED BY <2>3, <2>6, <2>7 DEF TiledRows, SpansIn
<1>3. cells \in [0..lines - 1 -> TiledRows(cols)]
  BY <1>1, <1>2
<1>4. cells \in [0..lines - 1 -> [0..cols - 1 -> Cells(LineStyle)]]
  BY <1>3 DEF TiledRows, Rows
<1>5. /\ [b EXCEPT !.cells = cells] \in Buffers(lines, cols, LineStyle)
      /\ [b EXCEPT !.cells = cells].cells = cells
      /\ [b EXCEPT !.cells = cells].stack = stack
  BY <1>1, <1>4 DEF Buffers
<1> QED BY <1>3, <1>5 DEF Sound

LEMMA TranslateSound ==
  ASSUME NEW lines \in Nat, NEW cols \in Nat, NEW stack,
         NEW b \in Sound(lines, cols, stack), NEW downward \in Int, NEW rightward \in Int
  PROVE  TranslateBy(b, downward, rightward) \in Sound(lines, cols, stack)
<1>1. b.xlate \in Int \X Int
  BY SoundFields
<1>2. <<b.xlate[1] + downward, b.xlate[2] + rightward>> \in Int \X Int
  BY <1>1
<1>3. TranslateBy(b, downward, rightward)
        = [b EXCEPT !.xlate = <<b.xlate[1] + downward, b.xlate[2] + rightward>>]
  BY DEF TranslateBy
<1>4. \A v \in Int \X Int : [b EXCEPT !.xlate = v] \in Sound(lines, cols, stack)
  BY ContextSound
<1> QED BY <1>2, <1>3, <1>4, Zenon

LEMMA ClipSound ==
  ASSUME NEW lines \in Nat, NEW cols \in Nat, NEW stack,
         NEW b \in Sound(lines, cols, stack), NEW rect \in RectType
  PROVE  ClipTo(b, rect) \in Sound(lines, cols, stack)
<1> DEFINE other == Translate(rect, b.xlate[1], b.xlate[2])
           both == Intersection(b.clip, other)
           none == [b.clip EXCEPT !.lines = 0]
<1>1. b.xlate \in Int \X Int /\ b.clip \in Clips(lines, cols)
  BY SoundFields
<1>2. other \in RectType
  <2>1. PICK dy \in Int, dx \in Int : dy = b.xlate[1] /\ dx = b.xlate[2]
    BY <1>1
  <2>2. PICK top \in Int, left \in Int : top = rect.top + dy /\ left = rect.left + dx
    <3>1. rect.top + dy \in Int /\ rect.left + dx \in Int
      BY DEF RectType
    <3> QED BY <3>1
  <2>3. [rect EXCEPT !.top = top, !.left = left] \in RectType
    BY DEF RectType
  <2>4. other = [rect EXCEPT !.top = top, !.left = left]
    BY <2>1, <2>2 DEF Translate
  <2> QED BY <2>3, <2>4
<1> HIDE DEF other
<1>3. b.clip \in RectType
  BY <1>1 DEF Clips
<1>4. none \in Clips(lines, cols)
  BY <1>3 DEF Clips, RectType
<1>5. ASSUME HasIntersection(b.clip, other) PROVE both \in Clips(lines, cols)
  <2>1. PICK top \in Int, left \in Int, bottom \in Int, right \in Int :
          /\ top = b.clip.top /\ left = b.clip.left
          /\ bottom = Bottom(b.clip) /\ right = Right(b.clip)
    <3>1. /\ b.clip.top \in Int /\ b.clip.left \in Int
          /\ Bottom(b.clip) \in Int /\ Right(b.clip) \in Int
      BY <1>3 DEF RectType, Bottom, Right
    <3> QED BY <3>1
  <2>2. PICK t \in Int, l \in Int, d \in Int, r \in Int :
          t = other.top /\ l = other.left /\ d = Bottom(other) /\ r = Right(other)
    <3>1. /\ other.top \in Int /\ other.left \in Int
          /\ Bottom(other) \in Int /\ Right(other) \in Int
      BY <1>2 DEF RectType, Bottom, Right
    <3> QED BY <3>1
  <2>3. PICK mt \in Int, ml \in Int, mb \in Int, mr \in Int :
          /\ mt = MaxInt(top, t) /\ ml = MaxInt(left, l)
          /\ mb = MinInt(bottom, d) /\ mr = MinInt(right, r)
    <3>1. /\ MaxInt(top, t) \in Int /\ MaxInt(left, l) \in Int
          /\ MinInt(bottom, d) \in Int /\ MinInt(right, r) \in Int
      BY DEF MaxInt, MinInt
    <3> QED BY <3>1
  <2>4. mt < mb /\ ml < mr
    BY <1>5, <2>1, <2>2, <2>3 DEF HasIntersection
  <2>5. top <= mt /\ left <= ml /\ mb <= bottom /\ mr <= right
    BY <2>3 DEF MaxInt, MinInt
  <2>6. top < bottom
    BY <2>4, <2>5
  <2>7. b.clip.lines # 0
    BY <1>3, <2>1, <2>6 DEF Bottom, RectType
  <2>8. 0 <= top /\ bottom <= lines /\ 0 <= left /\ right <= cols
    BY <1>1, <2>1, <2>7 DEF Clips
  <2>9. both = [top |-> mt, left |-> ml, lines |-> mb - mt, cols |-> mr - ml]
    BY <2>1, <2>2, <2>3 DEF Intersection, InitBounded
  <2>10. /\ mb - mt \in Int /\ mr - ml \in Int /\ 0 <= mr - ml
         /\ mt + (mb - mt) <= lines /\ ml + (mr - ml) <= cols /\ 0 <= mt /\ 0 <= ml
    BY <2>4, <2>5, <2>8
  <2> HIDE DEF both
  <2> QED BY <2>9, <2>10 DEF Clips, RectType, Bottom, Right
<1>6. PICK clip \in Clips(lines, cols) :
        clip = IF HasIntersection(b.clip, other) THEN both ELSE none
  BY <1>4, <1>5
<1>7. ClipTo(b, rect) = [b EXCEPT !.clip = clip]
  BY <1>6 DEF ClipTo, other
<1>8. \A v \in Clips(lines, cols) : [b EXCEPT !.clip = v] \in Sound(lines, cols, stack)
  BY ContextSound
<1> QED BY <1>7, <1>8, Zenon

LEMMA MaskSound ==
  ASSUME NEW lines \in Nat, NEW cols \in Nat, NEW stack,
         NEW b \in Sound(lines, cols, stack), NEW rect
  PROVE  MaskOut(b, rect) \in Sound(lines, cols, stack)
<1> DEFINE hole == Translate(rect, b.xlate[1], b.xlate[2])
           Hit(l, c) == InRect(l, c, hole) /\ Open(b.cells[l], c)
           masks == [x \in (0..lines - 1) \X (0..cols - 1) |->
                       IF Hit(x[1], x[2]) THEN Depth(b) ELSE b.cells[x[1]][x[2]].mask]
           cells == [l \in DOMAIN b.cells |-> [c \in DOMAIN b.cells[l] |->
                       [b.cells[l][c] EXCEPT !.mask = masks[<<l, c>>]]]]
           given == [l \in DOMAIN b.cells |-> [c \in DOMAIN b.cells[l] |->
                       IF Hit(l, c) THEN [b.cells[l][c] EXCEPT !.mask = Depth(b)]
                       ELSE b.cells[l][c]]]
<1>1. b.cells \in [0..lines - 1 -> [0..cols - 1 -> Cells(LineStyle)]]
  <2>1. b.cells \in [0..lines - 1 -> TiledRows(cols)]
    BY SoundFields
  <2> QED BY <2>1 DEF TiledRows, Rows
<1>2. Depth(b) \in Nat
  <2>1. b.stack \in Seq(Frames(lines, cols))
    BY SoundFields
  <2> QED BY <2>1 DEF Depth
<1> HIDE DEF Hit
<1>3. masks \in [(0..lines - 1) \X (0..cols - 1) -> Nat \cup {-1}]
  <2>1. ASSUME NEW l \in 0..lines - 1, NEW c \in 0..cols - 1
        PROVE  b.cells[l][c].mask \in Nat \cup {-1}
    BY <1>1 DEF Cells
  <2> QED BY <1>2, <2>1
<1>4. ASSUME NEW l \in 0..lines - 1, NEW c \in 0..cols - 1
      PROVE  [b.cells[l][c] EXCEPT !.mask = masks[<<l, c>>]]
               = IF Hit(l, c) THEN [b.cells[l][c] EXCEPT !.mask = Depth(b)]
                 ELSE b.cells[l][c]
  <2>1. masks[<<l, c>>] = IF Hit(l, c) THEN Depth(b) ELSE b.cells[l][c].mask
    OBVIOUS
  <2>2. b.cells[l][c] \in Cells(LineStyle)
    BY <1>1
  <2>3. [b.cells[l][c] EXCEPT !.mask = b.cells[l][c].mask] = b.cells[l][c]
    BY <2>2 DEF Cells
  <2> HIDE DEF masks
  <2> QED BY <2>1, <2>3
<1>5. DOMAIN b.cells = 0..lines - 1
      /\ \A l \in 0..lines - 1 : DOMAIN b.cells[l] = 0..cols - 1
  BY <1>1
<1>6. cells = given
  <2> HIDE DEF masks
  <2> QED BY <1>4, <1>5
<1>7. MaskOut(b, rect) = [b EXCEPT !.cells = given]
  BY DEF MaskOut, Hit
<1>8. [b EXCEPT !.cells = cells] \in Sound(lines, cols, stack)
  <2>1. PICK cs : cs = cells
    OBVIOUS
  <2> HIDE DEF masks
  <2>2. [b EXCEPT !.cells = cs] \in Sound(lines, cols, stack)
    BY <1>3, <2>1, MasksSound
  <2> QED BY <2>1, <2>2
<1> QED BY <1>6, <1>7, <1>8

LEMMA PensSound ==
  ASSUME NEW lines \in Nat, NEW cols \in Nat, NEW stack,
         NEW b \in Sound(lines, cols, stack), NEW pen \in RBPens
  PROVE  SetPen(b, pen) \in Sound(lines, cols, stack)
<1>1. b.stack \in Seq(Frames(lines, cols))
  BY SoundFields
<1>2. PICK new : new = IF b.stack = <<>> THEN pen ELSE Layered(pen, Last(b.stack).pen)
  OBVIOUS
<1>3. new \in RBPens
  <2>1. CASE b.stack = <<>>
    BY <1>2, <2>1
  <2>2. CASE b.stack # <<>>
    <3>1. Last(b.stack) \in Frames(lines, cols)
      BY <1>1, <2>2 DEF Last
    <3>2. Last(b.stack).pen \in RBPens
      BY <3>1 DEF Frames
    <3> QED BY <1>2, <2>2, <3>2 DEF Layered, RBPens
  <2> QED BY <2>1, <2>2
<1>4. SetPen(b, pen) = [b EXCEPT !.pen = new]
  BY <1>2 DEF SetPen
<1>5. \A v \in RBPens : [b EXCEPT !.pen = v] \in Sound(lines, cols, stack)
  BY ContextSound
<1> QED BY <1>3, <1>4, <1>5, Zenon

LEMMA SaveSound ==
  ASSUME NEW lines \in Nat, NEW cols \in Nat, NEW stack,
         NEW b \in Sound(lines, cols, stack)
  PROVE  /\ SaveAll(b) \in Sound(lines, cols, SaveAll(b).stack)
         /\ SavePen(b) \in Sound(lines, cols, SavePen(b).stack)
         /\ SavePen(b).stack \in Seq(Frames(lines, cols)) \ {<<>>}
<1>1. /\ b.stack \in Seq(Frames(lines, cols)) /\ b.pen \in RBPens
      /\ b.vc \in Int \X Int /\ b.xlate \in Int \X Int /\ b.clip \in Clips(lines, cols)
  BY SoundFields
<1> DEFINE all == [penOnly |-> FALSE, pen |-> b.pen, vc |-> b.vc,
                   xlate |-> b.xlate, clip |-> b.clip]
           only == [penOnly |-> TRUE, pen |-> b.pen, vc |-> None,
                    xlate |-> None, clip |-> None]
<1>2. all \in Frames(lines, cols) /\ only \in Frames(lines, cols)
  BY <1>1 DEF Frames
<1> HIDE DEF all, only
<1>3. \A f \in Frames(lines, cols) :
        Append(b.stack, f) \in Seq(Frames(lines, cols)) \ {<<>>}
  BY <1>1
<1>4. SaveAll(b) = [b EXCEPT !.stack = Append(b.stack, all)]
  BY DEF SaveAll, all
<1>5. SavePen(b) = [b EXCEPT !.stack = Append(b.stack, only)]
  BY DEF SavePen, only
<1>6. \A v \in Seq(Frames(lines, cols)) :
        [b EXCEPT !.stack = v] \in Sound(lines, cols, v)
  BY ContextSound
<1>7. PICK u, v : u = Append(b.stack, all) /\ v = Append(b.stack, only)
  OBVIOUS
<1>8. u \in Seq(Frames(lines, cols)) /\ v \in Seq(Frames(lines, cols)) \ {<<>>}
  BY <1>2, <1>3, <1>7
<1>9. SaveAll(b) \in Sound(lines, cols, u) /\ SavePen(b) \in Sound(lines, cols, v)
  BY <1>4, <1>5, <1>6, <1>7, <1>8
<1>10. SaveAll(b).stack = u /\ SavePen(b).stack = v
  BY <1>9 DEF Sound
<1> QED BY <1>8, <1>9, <1>10

LEMMA PopSound ==
  ASSUME NEW lines \in Nat, NEW cols \in Nat, NEW stack,
         NEW b \in Sound(lines, cols, stack), stack # <<>>
  PROVE  Pop(b) \in Sound(lines, cols, Front(stack))
<1>1. /\ b.cells \in [0..lines - 1 -> TiledRows(cols)]
      /\ b.vc \in Int \X Int /\ b.xlate \in Int \X Int
      /\ b.clip \in Clips(lines, cols)
      /\ b.stack = stack /\ stack \in Seq(Frames(lines, cols))
  BY SoundFields
<1>2. PICK frame \in Frames(lines, cols) : frame = Last(b.stack)
  <2>1. Last(b.stack) \in Frames(lines, cols)
    BY <1>1 DEF Last
  <2> QED BY <2>1
<1>3. PICK rest \in Seq(Frames(lines, cols)) : rest = Front(stack)
  <2>1. 1 \in Int /\ Len(stack) - 1 \in 0..Len(stack)
    BY <1>1
  <2>2. Front(stack) \in Seq(Frames(lines, cols))
    BY <1>1, <2>1 DEF Front
  <2> QED BY <2>2
<1>4. PICK vc \in Int \X Int : vc = IF frame.penOnly THEN b.vc ELSE frame.vc
  BY <1>1 DEF Frames
<1>5. PICK xlate \in Int \X Int :
        xlate = IF frame.penOnly THEN b.xlate ELSE frame.xlate
  BY <1>1 DEF Frames
<1>6. PICK clip \in Clips(lines, cols) :
        clip = IF frame.penOnly THEN b.clip ELSE frame.clip
  BY <1>1 DEF Frames
<1>7. PICK pen \in RBPens : pen = frame.pen
  BY DEF Frames
<1>8. Depth(b) \in Nat
  BY <1>1 DEF Depth
<1>9. PICK depth \in Int : depth = Depth(b) - 1
  BY <1>8
<1> DEFINE masks == [x \in (0..lines - 1) \X (0..cols - 1) |->
                       IF b.cells[x[1]][x[2]].mask > depth THEN -1
                       ELSE b.cells[x[1]][x[2]].mask]
           cells == [l \in DOMAIN b.cells |-> [c \in DOMAIN b.cells[l] |->
                       [b.cells[l][c] EXCEPT !.mask = masks[<<l, c>>]]]]
           given == [l \in DOMAIN b.cells |-> [c \in DOMAIN b.cells[l] |->
                       IF b.cells[l][c].mask > depth
                       THEN [b.cells[l][c] EXCEPT !.mask = -1]
                       ELSE b.cells[l][c]]]
<1>10. b.cells \in [0..lines - 1 -> [0..cols - 1 -> Cells(LineStyle)]]
  BY <1>1 DEF TiledRows, Rows
<1>11. masks \in [(0..lines - 1) \X (0..cols - 1) -> Nat \cup {-1}]
  <2>1. ASSUME NEW l \in 0..lines - 1, NEW c \in 0..cols - 1
        PROVE  b.cells[l][c].mask \in Nat \cup {-1}
    BY <1>10 DEF Cells
  <2> QED BY <2>1
<1>12. ASSUME NEW l \in 0..lines - 1, NEW c \in 0..cols - 1
       PROVE  [b.cells[l][c] EXCEPT !.mask = masks[<<l, c>>]]
                = IF b.cells[l][c].mask > depth
                  THEN [b.cells[l][c] EXCEPT !.mask = -1] ELSE b.cells[l][c]
  <2>1. masks[<<l, c>>] = IF b.cells[l][c].mask > depth THEN -1
                          ELSE b.cells[l][c].mask
    OBVIOUS
  <2>2. b.cells[l][c] \in Cells(LineStyle)
    BY <1>10
  <2>3. [b.cells[l][c] EXCEPT !.mask = b.cells[l][c].mask] = b.cells[l][c]
    BY <2>2 DEF Cells
  <2> HIDE DEF masks
  <2> QED BY <2>1, <2>3
<1>13. cells = given
  <2>1. DOMAIN b.cells = 0..lines - 1
        /\ \A l \in 0..lines - 1 : DOMAIN b.cells[l] = 0..cols - 1
    BY <1>10
  <2> HIDE DEF masks
  <2>2. ASSUME NEW l \in 0..lines - 1
        PROVE  [c \in 0..cols - 1 |-> [b.cells[l][c] EXCEPT !.mask = masks[<<l, c>>]]]
                 = [c \in 0..cols - 1 |->
                      IF b.cells[l][c].mask > depth
                      THEN [b.cells[l][c] EXCEPT !.mask = -1] ELSE b.cells[l][c]]
    BY <1>12, Zenon
  <2>3. ASSUME NEW l \in 0..lines - 1 PROVE cells[l] = given[l]
    BY <2>1, <2>2
  <2>4. DOMAIN cells = 0..lines - 1 /\ DOMAIN given = 0..lines - 1
    BY <2>1
  <2>5. cells = [l \in DOMAIN cells |-> cells[l]] /\ given = [l \in DOMAIN given |-> given[l]]
    OBVIOUS
  <2> HIDE DEF cells, given
  <2> QED BY <2>3, <2>4, <2>5
<1>14. PICK cs : cs = cells
  OBVIOUS
<1> HIDE DEF masks
<1>15. PICK c1 : c1 = [b EXCEPT !.cells = cs]
  OBVIOUS
<1>16. c1 \in Sound(lines, cols, stack)
  BY <1>11, <1>14, <1>15, MasksSound
<1>17. PICK c2 \in Sound(lines, cols, rest) : c2 = [c1 EXCEPT !.stack = rest]
  <2>1. \A v \in Seq(Frames(lines, cols)) :
          [c1 EXCEPT !.stack = v] \in Sound(lines, cols, v)
    BY <1>16, ContextSound
  <2> QED BY <2>1
<1>18. PICK c3 \in Sound(lines, cols, rest) : c3 = [c2 EXCEPT !.pen = pen]
  <2>1. \A v \in RBPens : [c2 EXCEPT !.pen = v] \in Sound(lines, cols, rest)
    BY ContextSound
  <2> QED BY <2>1
<1>19. PICK c4 \in Sound(lines, cols, rest) : c4 = [c3 EXCEPT !.vc = vc]
  <2>1. \A v \in Int \X Int : [c3 EXCEPT !.vc = v] \in Sound(lines, cols, rest)
    BY ContextSound
  <2> QED BY <2>1
<1>20. PICK c5 \in Sound(lines, cols, rest) : c5 = [c4 EXCEPT !.xlate = xlate]
  <2>1. \A v \in Int \X Int : [c4 EXCEPT !.xlate = v] \in Sound(lines, cols, rest)
    BY ContextSound
  <2> QED BY <2>1
<1>21. PICK c6 \in Sound(lines, cols, rest) : c6 = [c5 EXCEPT !.clip = clip]
  <2>1. \A v \in Clips(lines, cols) : [c5 EXCEPT !.clip = v] \in Sound(lines, cols, rest)
    BY ContextSound
  <2> QED BY <2>1
<1>22. Pop(b) = [b EXCEPT !.stack = rest, !.pen = pen, !.vc = vc,
                          !.xlate = xlate, !.clip = clip, !.cells = cs]
  <2>1. cs = given
    BY <1>13, <1>14
  <2> HIDE DEF given
  <2> QED BY <1>1, <1>2, <1>3, <1>4, <1>5, <1>6, <1>7, <1>9, <2>1 DEF Pop, given
<1>23. b \in Buffers(lines, cols, LineStyle)
  BY DEF Sound
<1>24. c6 = [b EXCEPT !.stack = rest, !.pen = pen, !.vc = vc,
                      !.xlate = xlate, !.clip = clip, !.cells = cs]
  BY <1>15, <1>17, <1>18, <1>19, <1>20, <1>21, <1>23 DEF Buffers
<1> QED BY <1>3, <1>22, <1>24

(* A new buffer. *)
LEMMA NewSound ==
  ASSUME NEW lines \in Nat, NEW cols \in Nat, NEW where \in Int \X Int
  PROVE  BufferNew(lines, cols, where) \in Sound(lines, cols, <<>>)
<1> DEFINE new == BufferNew(lines, cols, where)
           row == FreshRow(cols)
<1>1. row \in [0..cols - 1 -> Cells(LineStyle)]
  <2>1. SkipCell(cols) \in Cells(LineStyle) /\ ContCell(0) \in Cells(LineStyle)
    BY NewCellIs DEF SkipCell, ContCell, States
  <2> QED BY <2>1 DEF FreshRow
<1>2. Tiled(row, cols)
  <2>1. ASSUME NEW c \in 0..cols - 1
        PROVE  /\ First(row, c) = 0 /\ row[0] = SkipCell(cols) /\ 0 \in 0..cols - 1
    BY DEF First, FreshRow, SkipCell, ContCell, NewCell
  <2>2. SkipCell(cols).state = "SKIP" /\ SkipCell(cols).cols = cols
    BY DEF SkipCell, NewCell
  <2>3. \A d \in 1..cols - 1 : row[d].state = "CONT" /\ row[d].cols = 0
    BY DEF FreshRow, ContCell, NewCell
  <2>4. Whole(SkipCell(cols))
    BY <2>2 DEF Whole
  <2>5. DOMAIN row = 0..cols - 1
    BY DEF FreshRow
  <2> HIDE DEF row
  <2> QED BY <2>1, <2>2, <2>3, <2>4, <2>5 DEF Tiled
<1>3. row \in TiledRows(cols)
  BY <1>1, <1>2, TiledIs DEF TiledRows, Rows
<1>4. InitSized(0, 0, lines, cols) \in Clips(lines, cols)
  BY DEF InitSized, Clips, RectType, Bottom, Right
<1>5. NewPen \in RBPens
  BY DEF NewPen, RBPens
<1> HIDE DEF row
<1>6. /\ new = [lines |-> lines, cols |-> cols,
                cells |-> [l \in 0..lines - 1 |-> row],
                vcSet |-> FALSE, vc |-> where, xlate |-> <<0, 0>>,
                clip |-> InitSized(0, 0, lines, cols), pen |-> NewPen,
                stack |-> <<>>]
  BY DEF BufferNew, row
<1>7. <<>> \in Seq(Frames(lines, cols)) /\ <<0, 0>> \in Int \X Int
  OBVIOUS
<1>8. new \in Buffers(lines, cols, LineStyle)
  BY <1>1, <1>4, <1>5, <1>6, <1>7 DEF Buffers
<1>9. new.stack = <<>> /\ \A l \in 0..lines - 1 : new.cells[l] = row
  BY <1>6
<1> QED BY <1>3, <1>8, <1>9 DEF Sound

-----------------------------------------------------------------------------
(* Blits.  Counting the columns of a text never leaves it.                 *)
LEMMA FittingIn ==
  ASSUME NEW text \in Seq(Glyphs), NEW n \in Nat
  PROVE  Fitting(text, n) \in 0..Len(text)
<1> DEFINE S == {i \in 0..Len(text) : Len(Columns(SubSeq(text, 1, i))) <= n}
<1>1. Len(text) \in Nat
  OBVIOUS
<1>2. Columns(SubSeq(text, 1, 0)) = <<>>
  <2>1. PICK h : ColumnsBy(h, text)
    BY ColumnsExist
  <2>2. Columns(SubSeq(text, 1, 0)) = h[0]
    BY <1>1, <2>1, ColumnsAre
  <2>3. h[0] = <<>>
    BY <2>1 DEF ColumnsBy
  <2> QED BY <2>2, <2>3, Zenon
<1>3. Len(Columns(SubSeq(text, 1, 0))) <= n
  <2>1. Len(<<>>) <= n
    OBVIOUS
  <2> QED BY <1>2, <2>1, Zenon
<1>4. 0 \in S
  <2>1. 0 \in 0..Len(text)
    BY <1>1
  <2> QED BY <1>3, <2>1, Zenon
<1>5. S \in SUBSET (0..Len(text))
  OBVIOUS
<1>6. Fitting(text, n) = Runs!Max(S)
  BY DEF Fitting, Max, Runs!Max
<1>7. Runs!Max(S) \in S
  <2> HIDE DEF S
  <2> QED BY <1>1, <1>4, <1>5, Runs!MaxUpto
<1> QED BY <1>6, <1>7

LEMMA SliceType ==
  ASSUME NEW text \in Seq(Glyphs), NEW offs \in Nat, NEW n \in Nat
  PROVE  Slice(text, offs, n) \in Seq(Glyphs)
<1>1. PICK i \in 0..Len(text), j \in 0..Len(text) :
        i = Fitting(text, offs) /\ j = Fitting(text, offs + n)
  <2>1. offs + n \in Nat
    OBVIOUS
  <2> QED BY <2>1, FittingIn
<1>2. Len(text) \in Nat /\ i + 1 \in Int /\ j \in Int
  OBVIOUS
<1>3. \A k \in i + 1..j : text[k] \in Glyphs
  BY <1>2
<1>4. SubSeq(text, i + 1, j) \in Seq(Glyphs)
  BY <1>2, <1>3, SubSeqProperties
<1> QED BY <1>1, <1>4 DEF Slice

(* After a span the line ends or the next span starts.                     *)
StartsAt(row, cols, c) == c = cols \/ (c \in 0..cols - 1 /\ row[c].state # "CONT")

LEMMA NextStarts ==
  ASSUME NEW cols \in Nat, NEW row \in TiledRows(cols), NEW c \in 0..cols - 1,
         row[c].state # "CONT"
  PROVE  StartsAt(row, cols, c + row[c].cols)
<1>1. SpansIn(row, cols) /\ row \in Rows(cols)
  BY DEF TiledRows
<1>2. Spans(row, cols, c)
  BY <1>1 DEF SpansIn
<1>3. PICK n \in Nat : n = row[c].cols
  BY <1>1 DEF Rows, Cells
<1>4. 1 <= n /\ c + n <= cols
      /\ \A d \in c + 1..c + n - 1 : row[d].state = "CONT"
  BY <1>2, <1>3 DEF Spans
<1>5. ASSUME c + n \in 0..cols - 1, row[c + n].state = "CONT" PROVE FALSE
  <2>1. Continues(row, c + n)
    BY <1>1, <1>5 DEF SpansIn
  <2>2. PICK s \in Nat : s = row[c + n].cols
    BY <1>1, <1>5 DEF Rows, Cells
  <2>3. s \in 0..cols - 1 /\ s < c + n /\ row[s].state # "CONT" /\ c + n < s + row[s].cols
    BY <1>5, <2>1, <2>2 DEF Continues
  <2>4. PICK m \in Nat : m = row[s].cols
    BY <1>1, <2>3 DEF Rows, Cells
  <2>5. \A d \in s + 1..s + m - 1 : row[d].state = "CONT"
    BY <1>1, <2>3, <2>4 DEF SpansIn, Spans
  <2>6. CASE s = c
    BY <1>3, <2>3, <2>4, <2>6
  <2>7. CASE s < c
    <3>1. c \in s + 1..s + m - 1
      BY <1>4, <2>3, <2>4, <2>7
    <3> QED BY <2>5, <3>1
  <2>8. CASE c < s
    <3>1. s \in c + 1..c + n - 1
      BY <2>3, <2>8
    <3> QED BY <1>4, <2>3, <3>1
  <2> QED BY <2>6, <2>7, <2>8
<1> QED BY <1>3, <1>4, <1>5 DEF StartsAt

LEMMA BlitSpanSound ==
  ASSUME NEW lines \in Nat, NEW cols \in Nat, NEW stack,
         NEW b \in Sound(lines, cols, stack),
         NEW width \in Nat, NEW row \in TiledRows(width),
         NEW line \in Int, NEW col \in 0..width - 1, row[col].state # "CONT"
  PROVE  BlitSpan(b, row, line, col) \in Sound(lines, cols, stack)
<1>1. PICK cell \in Cells(LineStyle) : cell = row[col]
  BY DEF TiledRows, Rows
<1>2. Whole(cell) /\ cell.state # "CONT"
  <2>1. Spans(row, width, col)
    BY DEF TiledRows, SpansIn
  <2> QED BY <1>1, <2>1 DEF Spans
<1>3. CASE cell.state = "SKIP"
  BY <1>1, <1>3 DEF BlitSpan
<1>4. CASE cell.state # "SKIP"
  <2>1. PICK pen \in RBPens : pen = cell.pen
    BY <1>2, <1>4 DEF Whole, Cells
  <2>2. PICK kept : kept = SavePen(b).stack
    OBVIOUS
  <2>3. SavePen(b) \in Sound(lines, cols, kept) /\ kept # <<>>
    BY <2>2, SaveSound
  <2>4. PICK under \in Sound(lines, cols, kept) : under = SetPen(SavePen(b), pen)
    BY <2>3, PensSound
  <2>5. Front(kept) = stack
    <3>1. b.stack = stack /\ stack \in Seq(Frames(lines, cols))
      BY SoundFields
    <3>2. PICK f : kept = Append(stack, f)
      <4>1. b \in Buffers(lines, cols, LineStyle)
        BY DEF Sound
      <4>2. SavePen(b).stack
              = Append(b.stack, [penOnly |-> TRUE, pen |-> b.pen, vc |-> None,
                                 xlate |-> None, clip |-> None])
        BY <4>1 DEF SavePen, Buffers
      <4> QED BY <2>2, <3>1, <4>2
    <3>3. stack \in Seq(Frames(lines, cols) \cup {f})
      BY <3>1
    <3>4. kept \in Seq(Frames(lines, cols) \cup {f}) /\ Len(kept) = Len(stack) + 1
          /\ \A i \in 1..Len(stack) : kept[i] = stack[i]
      BY <3>2, <3>3
    <3>5. Len(stack) \in Nat /\ Len(kept) - 1 = Len(stack)
      BY <3>3, <3>4
    <3>6. \A i \in 1..Len(stack) : kept[i] \in Frames(lines, cols) \cup {f}
      BY <3>3, <3>4
    <3>7. SubSeq(kept, 1, Len(stack)) \in Seq(Frames(lines, cols) \cup {f})
          /\ Len(SubSeq(kept, 1, Len(stack))) = Len(stack)
          /\ \A i \in 1..Len(stack) : SubSeq(kept, 1, Len(stack))[i] = kept[i]
      BY <3>5, <3>6, SubSeqProperties
    <3>8. SubSeq(kept, 1, Len(stack)) = stack
      BY <3>3, <3>4, <3>7
    <3> QED BY <3>5, <3>8 DEF Front
  <2>6. ASSUME NEW made \in Sound(lines, cols, kept)
        PROVE  Pop(made) \in Sound(lines, cols, stack)
    BY <2>3, <2>5, PopSound
  <2>7. under = SetPen(SavePen(b), row[col].pen)
    BY <1>1, <2>1, <2>4
  <2>8. CASE cell.state = "TEXT"
    <3>1. cell.text \in Seq(Glyphs) /\ cell.offs \in Nat /\ cell.cols \in Nat
      BY DEF Cells
    <3>2. PICK text \in Seq(Glyphs) : text = Slice(cell.text, cell.offs, cell.cols)
      BY <3>1, SliceType
    <3>3. PutText(under, line, col, text) \in Sound(lines, cols, kept)
      BY TextSound
    <3>4. BlitSpan(b, row, line, col) = Pop(PutText(under, line, col, text))
      BY <1>1, <2>7, <2>8, <3>2 DEF BlitSpan
    <3> QED BY <2>6, <3>3, <3>4
  <2>9. CASE cell.state = "ERASE"
    <3>1. cell.cols \in Int
      BY DEF Cells
    <3>2. EraseCols(under, line, col, cell.cols) \in Sound(lines, cols, kept)
      BY <3>1, EraseSound
    <3>3. BlitSpan(b, row, line, col) = Pop(EraseCols(under, line, col, cell.cols))
      BY <1>1, <2>7, <2>9 DEF BlitSpan
    <3> QED BY <2>6, <3>2, <3>3
  <2>10. CASE cell.state = "LINE"
    <3>1. cell.bits \in SUBSET Arms
      BY DEF Cells, Arms
    <3>2. LineCell(under, line, col, cell.bits) \in Sound(lines, cols, kept)
      BY <3>1, LineCellSound
    <3>3. BlitSpan(b, row, line, col) = Pop(LineCell(under, line, col, cell.bits))
      BY <1>1, <2>7, <2>10 DEF BlitSpan
    <3> QED BY <2>6, <3>2, <3>3
  <2>11. CASE cell.state = "CHAR"
    <3>1. cell.text \in Seq(Glyphs) /\ Len(cell.text) = 1
      BY <1>2, <2>11 DEF Cells, Whole
    <3>2. cell.text[1] \in Glyphs
      BY <3>1
    <3>3. PutChar(under, line, col, cell.text[1]) \in Sound(lines, cols, kept)
      BY <3>2, CharSound
    <3>4. BlitSpan(b, row, line, col) = Pop(PutChar(under, line, col, cell.text[1]))
      BY <1>1, <2>7, <2>11 DEF BlitSpan
    <3> QED BY <2>6, <3>3, <3>4
  <2>12. cell.state \in States
    BY DEF Cells
  <2> QED BY <1>2, <1>4, <2>8, <2>9, <2>10, <2>11, <2>12 DEF States
<1> QED BY <1>3, <1>4

BlitLineBody(row, line, z, f, n) ==
  IF n - 1 = f.next
  THEN [b |-> BlitSpan(f.b, row, line, n - 1), next |-> n - 1 + row[n - 1].cols]
  ELSE f

BlitBody(src, y, z, b, n) == BlitLine(b, src.cells[n - 1], n - 1)

SpanBlits == INSTANCE Induction WITH Pass <- BlitLineBody
LineBlits == INSTANCE Induction WITH Pass <- BlitBody

LEMMA BlitLineSound ==
  ASSUME NEW lines \in Nat, NEW cols \in Nat, NEW stack,
         NEW b \in Sound(lines, cols, stack),
         NEW width \in Nat, NEW row \in TiledRows(width), NEW line \in Int
  PROVE  BlitLine(b, row, line) \in Sound(lines, cols, stack)
<1> DEFINE seq == [n \in 1..width |-> n]
           first == [b |-> b, next |-> 0]
           ends == {c \in Nat : StartsAt(row, width, c)}
           kept == (0..width) \X [b : Sound(lines, cols, stack), next : ends]
<1>1. /\ SpansIn(row, width) /\ DOMAIN row = 0..width - 1
      /\ \A c \in 0..width - 1 : row[c].cols \in Nat
  BY DEF TiledRows, Rows, Cells
<1>2. Cardinality(DOMAIN row) = width
  <2>1. Cardinality(0..width - 1) = IF 0 > width - 1 THEN 0 ELSE (width - 1) - 0 + 1
    BY FS_Interval
  <2> QED BY <1>1, <2>1
<1>3. <<0, first>> \in kept
  <2>1. 0 \in ends
    <3>1. CASE width = 0
      BY <3>1 DEF StartsAt
    <3>2. CASE width # 0
      <4>1. 0 \in 0..width - 1
        BY <3>2
      <4>2. row[0].state # "CONT"
        BY <1>1, <4>1 DEF SpansIn, Continues
      <4> QED BY <4>1, <4>2 DEF StartsAt
    <3> QED BY <3>1, <3>2
  <2> HIDE DEF ends
  <2> QED BY <2>1
<1>4. ASSUME NEW k \in 1..width, NEW made, <<k - 1, made>> \in kept
      PROVE  <<k, BlitLineBody(row, line, {}, made, seq[k])>> \in kept
  <2>1. /\ made \in [b : Sound(lines, cols, stack), next : ends]
        /\ seq[k] = k /\ k \in 0..width /\ k - 1 \in 0..width - 1
    BY <1>4
  <2>2. made.b \in Sound(lines, cols, stack) /\ made.next \in ends
    <3> HIDE DEF ends
    <3> QED BY <2>1
  <2>3. CASE k - 1 = made.next
    <3>1. row[k - 1].state # "CONT"
      BY <2>1, <2>2, <2>3 DEF StartsAt
    <3>2. PICK new \in Sound(lines, cols, stack) :
            new = BlitSpan(made.b, row, line, k - 1)
      BY <2>1, <2>2, <3>1, BlitSpanSound
    <3>3. PICK next : next = k - 1 + row[k - 1].cols
      OBVIOUS
    <3>4. next \in ends
      <4>1. StartsAt(row, width, next)
        BY <2>1, <3>1, <3>3, NextStarts
      <4>2. next \in Nat
        BY <1>1, <2>1, <3>3
      <4> QED BY <4>1, <4>2
    <3>5. BlitLineBody(row, line, {}, made, seq[k]) = [b |-> new, next |-> next]
      BY <2>1, <2>3, <3>2, <3>3 DEF BlitLineBody
    <3> HIDE DEF ends, seq
    <3> QED BY <2>1, <3>4, <3>5
  <2>4. CASE k - 1 # made.next
    <3>1. BlitLineBody(row, line, {}, made, seq[k]) = made
      BY <2>1, <2>4 DEF BlitLineBody
    <3> HIDE DEF ends, seq
    <3> QED BY <2>1, <3>1
  <2> QED BY <2>3, <2>4
<1>5. BlitLine(b, row, line)
        = SpanBlits!Loop(row, line, {}, first, [n \in 1..Cardinality(DOMAIN row) |-> n]).b
  BY Zenon DEF BlitLine, SpanBlits!Loop, SpanBlits!Passes, BlitLineBody, FoldLeft,
     MapThenFoldSet, Max, SpanBlits!Max
<1>6. BlitLine(b, row, line) = SpanBlits!Loop(row, line, {}, first, seq).b
  BY <1>2, <1>5
<1>7. <<width, SpanBlits!Loop(row, line, {}, first, seq)>> \in kept
  <2>1. DOMAIN seq = 1..width
    OBVIOUS
  <2> HIDE DEF seq, kept, first
  <2> QED BY <1>3, <1>4, <2>1, SpanBlits!LoopKeeps
<1> HIDE DEF seq, first, ends
<1> QED BY <1>6, <1>7

LEMMA BlitSound ==
  ASSUME NEW lines \in Nat, NEW cols \in Nat, NEW stack,
         NEW b \in Sound(lines, cols, stack),
         NEW height \in Nat, NEW width \in Nat, NEW srcstack,
         NEW src \in Sound(height, width, srcstack)
  PROVE  Blit(b, src) \in Sound(lines, cols, stack)
<1> DEFINE seq == [n \in 1..height |-> n]
           kept == (0..height) \X Sound(lines, cols, stack)
<1>1. src.lines = height /\ src.cells \in [0..height - 1 -> TiledRows(width)]
  BY SoundFields
<1>2. ASSUME NEW k \in 1..height, NEW made, <<k - 1, made>> \in kept
      PROVE  <<k, BlitBody(src, {}, {}, made, seq[k])>> \in kept
  <2>1. made \in Sound(lines, cols, stack) /\ seq[k] = k /\ k \in 0..height
        /\ k - 1 \in 0..height - 1 /\ k - 1 \in Int
    BY <1>2
  <2>2. src.cells[k - 1] \in TiledRows(width)
    BY <1>1, <2>1
  <2>3. BlitLine(made, src.cells[k - 1], k - 1) \in Sound(lines, cols, stack)
    BY <2>1, <2>2, BlitLineSound
  <2> HIDE DEF seq
  <2> QED BY <2>1, <2>3 DEF BlitBody
<1>3. Blit(b, src) = LineBlits!Loop(src, {}, {}, b, [n \in 1..src.lines |-> n])
  BY Zenon DEF Blit, LineBlits!Loop, LineBlits!Passes, BlitBody, FoldLeft,
     MapThenFoldSet, Max, LineBlits!Max
<1>4. DOMAIN seq = 1..height /\ <<0, b>> \in kept
  OBVIOUS
<1>5. <<height, LineBlits!Loop(src, {}, {}, b, seq)>> \in kept
  <2> HIDE DEF seq, kept
  <2> QED BY <1>2, <1>4, LineBlits!LoopKeeps
<1> HIDE DEF seq
<1>6. LineBlits!Loop(src, {}, {}, b, seq) \in Sound(lines, cols, stack)
  BY <1>5
<1> QED BY <1>1, <1>3, <1>6 DEF seq

-----------------------------------------------------------------------------
(* The buffer of the program. *)
SoundBuffer(b) ==
  \E lines, cols \in Nat : \E stack : b \in Sound(lines, cols, stack)

LEMMA AdvancedSound ==
  ASSUME NEW lines \in Nat, NEW cols \in Nat, NEW stack,
         NEW b \in Sound(lines, cols, stack), NEW n \in Int
  PROVE  Advanced(b, n) \in Sound(lines, cols, stack)
<1>1. PICK vc \in Int \X Int : vc = b.vc
  BY SoundFields
<1>2. <<vc[1], vc[2] + n>> \in Int \X Int
  OBVIOUS
<1>3. Advanced(b, n) = [b EXCEPT !.vc = <<vc[1], vc[2] + n>>]
  BY <1>1 DEF Advanced
<1>4. \A v \in Int \X Int : [b EXCEPT !.vc = v] \in Sound(lines, cols, stack)
  BY ContextSound
<1> QED BY <1>2, <1>3, <1>4, Zenon

LEMMA SourceSound ==
  ASSUME NEW src \in Sources
  PROVE  /\ src.lines \in Nat /\ src.cols \in Nat
         /\ src \in Sound(src.lines, src.cols, <<>>)
<1>1. /\ src \in Buffers(src.lines, src.cols, LineStyle) /\ src.stack = <<>>
      /\ src.lines \in Nat /\ src.cols \in Nat
      /\ \A l \in DOMAIN src.cells : Tiled(src.cells[l], src.cols)
  BY CallersAssumption
<1>2. src.cells \in [0..src.lines - 1 -> Rows(src.cols)]
  BY <1>1 DEF Buffers, Rows
<1>3. ASSUME NEW l \in 0..src.lines - 1 PROVE src.cells[l] \in TiledRows(src.cols)
  <2>1. src.cells[l] \in Rows(src.cols) /\ Tiled(src.cells[l], src.cols)
    BY <1>1, <1>2
  <2> QED BY <1>1, <2>1, TiledIs DEF TiledRows
<1> QED BY <1>1, <1>3 DEF Sound

(* What the calls are given. *)
LEMMA CallTypes ==
  /\ \A p \in Places : p[1] \in Int /\ p[2] \in Int
  /\ \A d \in Displacements : d[1] \in Int /\ d[2] \in Int
  /\ \A h \in HLines \cup VLines : h[1] \in Int /\ h[2] \in Int /\ h[3] \in Int
  /\ Counts \subseteq Int /\ CodePoints \subseteq Glyphs
  /\ Texts \subseteq Seq(Glyphs) /\ CallRects \subseteq RectType
  /\ SetPens \subseteq RBPens /\ Where \subseteq Int \X Int
  /\ StartSize[1] \in Nat /\ StartSize[2] \in Nat
  /\ \A size \in Sizes : size[1] \in Nat /\ size[2] \in Nat
<1>1. /\ Places \subseteq Int \X Int /\ Displacements \subseteq Int \X Int
      /\ HLines \subseteq Int \X Int \X Int /\ VLines \subseteq Int \X Int \X Int
      /\ StartSize \in Nat \X Nat /\ Sizes \subseteq Nat \X Nat
  BY CallersAssumption
<1>2. \A h \in Int \X Int \X Int : h[1] \in Int /\ h[2] \in Int /\ h[3] \in Int
  OBVIOUS
<1>3. \A h \in HLines \cup VLines : h \in Int \X Int \X Int
  BY <1>1
<1> QED BY <1>1, <1>2, <1>3, CallersAssumption

LEMMA DrawsSound ==
  ASSUME NEW lines \in Nat, NEW cols \in Nat, NEW stack,
         rb \in Sound(lines, cols, stack),
         \/ SkipAt \/ EraseAt \/ TextAt \/ CharAt \/ HLineAt \/ VLineAt
         \/ EraseRectAt \/ ClearAll \/ BlitFrom
  PROVE  rb' \in Sound(lines, cols, stack)
<1>1. CASE SkipAt
  <2>1. PICK p \in Places, n \in Counts : rb' = SkipCols(rb, p[1], p[2], n)
    BY <1>1 DEF SkipAt, Drawn
  <2>2. p[1] \in Int /\ p[2] \in Int /\ n \in Int
    BY CallTypes
  <2> QED BY <2>1, <2>2, SkipSound
<1>2. CASE EraseAt
  <2>1. PICK p \in Places, n \in Counts : rb' = EraseCols(rb, p[1], p[2], n)
    BY <1>2 DEF EraseAt, Drawn
  <2>2. p[1] \in Int /\ p[2] \in Int /\ n \in Int
    BY CallTypes
  <2> QED BY <2>1, <2>2, EraseSound
<1>3. CASE TextAt
  <2>1. PICK p \in Places, text \in Texts : rb' = PutText(rb, p[1], p[2], text)
    BY <1>3 DEF TextAt, Drawn
  <2>2. p[1] \in Int /\ p[2] \in Int /\ text \in Seq(Glyphs)
    BY CallTypes
  <2> QED BY <2>1, <2>2, TextSound
<1>4. CASE CharAt
  <2>1. PICK p \in Places, c \in CodePoints : rb' = PutChar(rb, p[1], p[2], c)
    BY <1>4 DEF CharAt, Drawn
  <2>2. p[1] \in Int /\ p[2] \in Int /\ c \in Glyphs
    BY CallTypes
  <2> QED BY <2>1, <2>2, CharSound
<1>5. CASE HLineAt
  <2>1. PICK h \in HLines : rb' = HLine(rb, h[3], h[1], h[2], LineStyle, LineCaps)
    BY <1>5 DEF HLineAt, Drawn
  <2>2. h[1] \in Int /\ h[2] \in Int /\ h[3] \in Int
    BY CallTypes
  <2> QED BY <2>1, <2>2, HLineSound
<1>6. CASE VLineAt
  <2>1. PICK v \in VLines : rb' = VLine(rb, v[1], v[2], v[3], LineStyle, LineCaps)
    BY <1>6 DEF VLineAt, Drawn
  <2>2. v[1] \in Int /\ v[2] \in Int /\ v[3] \in Int
    BY CallTypes
  <2> QED BY <2>1, <2>2, VLineSound
<1>7. CASE EraseRectAt
  <2>1. PICK rect \in CallRects : rb' = EraseRect(rb, rect)
    BY <1>7 DEF EraseRectAt, Drawn
  <2> QED BY <2>1, CallTypes, EraseRectSound
<1>8. CASE ClearAll
  BY <1>8, ClearSound DEF ClearAll, Drawn
<1>9. CASE BlitFrom
  <2>1. PICK src \in Sources : rb' = Blit(rb, src)
    BY <1>9 DEF BlitFrom, Drawn
  <2> QED BY <2>1, SourceSound, BlitSound
<1> QED BY <1>1, <1>2, <1>3, <1>4, <1>5, <1>6, <1>7, <1>8, <1>9

(* The calls that draw at the virtual cursor. *)
LEMMA RelativeSound ==
  ASSUME NEW lines \in Nat, NEW cols \in Nat, NEW stack,
         rb \in Sound(lines, cols, stack),
         SkipOn \/ EraseOn \/ TextOn \/ CharOn \/ SkipTo \/ EraseTo
  PROVE  rb' \in Sound(lines, cols, stack)
<1>0. rb.vc[1] \in Int /\ rb.vc[2] \in Int
  <2>1. rb.vc \in Int \X Int
    BY SoundFields
  <2> QED BY <2>1
<1>1. CASE SkipOn
  <2>1. PICK n \in Counts : rb' = Advanced(SkipCols(rb, rb.vc[1], rb.vc[2], n), n)
    BY <1>1 DEF SkipOn, Drawn
  <2>2. n \in Int
    BY CallTypes
  <2>3. SkipCols(rb, rb.vc[1], rb.vc[2], n) \in Sound(lines, cols, stack)
    BY <1>0, <2>2, SkipSound
  <2> QED BY <2>1, <2>2, <2>3, AdvancedSound
<1>2. CASE EraseOn
  <2>1. PICK n \in Counts : rb' = Advanced(EraseCols(rb, rb.vc[1], rb.vc[2], n), n)
    BY <1>2 DEF EraseOn, Drawn
  <2>2. n \in Int
    BY CallTypes
  <2>3. EraseCols(rb, rb.vc[1], rb.vc[2], n) \in Sound(lines, cols, stack)
    BY <1>0, <2>2, EraseSound
  <2> QED BY <2>1, <2>2, <2>3, AdvancedSound
<1>3. CASE TextOn
  <2>1. PICK text \in Texts :
          rb' = Advanced(PutText(rb, rb.vc[1], rb.vc[2], text), Len(Columns(text)))
    BY <1>3 DEF TextOn, Drawn
  <2>2. text \in Seq(Glyphs)
    BY CallTypes
  <2>3. Len(Columns(text)) \in Int
    BY <2>2, ColumnsType
  <2>4. PutText(rb, rb.vc[1], rb.vc[2], text) \in Sound(lines, cols, stack)
    BY <1>0, <2>2, TextSound
  <2> QED BY <2>1, <2>3, <2>4, AdvancedSound
<1>4. CASE CharOn
  <2>1. PICK c \in CodePoints :
          rb' = Advanced(PutChar(rb, rb.vc[1], rb.vc[2], c), 1)
    BY <1>4 DEF CharOn, Drawn
  <2>2. c \in Glyphs
    BY CallTypes
  <2>3. PutChar(rb, rb.vc[1], rb.vc[2], c) \in Sound(lines, cols, stack)
    BY <1>0, <2>2, CharSound
  <2> QED BY <2>1, <2>3, AdvancedSound
<1>5. CASE SkipTo
  <2>1. PICK p \in Places :
          rb' = Advanced(IF p[2] - rb.vc[2] > 0
                         THEN SkipCols(rb, rb.vc[1], rb.vc[2], p[2] - rb.vc[2])
                         ELSE rb, p[2] - rb.vc[2])
    BY <1>5 DEF SkipTo, Drawn
  <2>2. PICK n \in Int : n = p[2] - rb.vc[2]
    <3>1. p[2] \in Int
      BY CallTypes
    <3> QED BY <1>0, <3>1
  <2>3. SkipCols(rb, rb.vc[1], rb.vc[2], n) \in Sound(lines, cols, stack)
    BY <1>0, SkipSound
  <2>4. PICK b \in Sound(lines, cols, stack) :
          b = IF n > 0 THEN SkipCols(rb, rb.vc[1], rb.vc[2], n) ELSE rb
    BY <2>3
  <2>5. rb' = Advanced(b, n)
    BY <2>1, <2>2, <2>4
  <2> QED BY <2>5, AdvancedSound
<1>6. CASE EraseTo
  <2>1. PICK p \in Places :
          rb' = Advanced(IF p[2] - rb.vc[2] > 0
                         THEN EraseCols(rb, rb.vc[1], rb.vc[2], p[2] - rb.vc[2])
                         ELSE rb, p[2] - rb.vc[2])
    BY <1>6 DEF EraseTo, Drawn
  <2>2. PICK n \in Int : n = p[2] - rb.vc[2]
    <3>1. p[2] \in Int
      BY CallTypes
    <3> QED BY <1>0, <3>1
  <2>3. EraseCols(rb, rb.vc[1], rb.vc[2], n) \in Sound(lines, cols, stack)
    BY <1>0, EraseSound
  <2>4. PICK b \in Sound(lines, cols, stack) :
          b = IF n > 0 THEN EraseCols(rb, rb.vc[1], rb.vc[2], n) ELSE rb
    BY <2>3
  <2>5. rb' = Advanced(b, n)
    BY <2>1, <2>2, <2>4
  <2> QED BY <2>5, AdvancedSound
<1> QED BY <1>1, <1>2, <1>3, <1>4, <1>5, <1>6

(* The calls that change the context, and those that empty the buffer. *)
LEMMA CallsSound ==
  ASSUME SoundBuffer(rb),
         \/ TranslateCall \/ ClipCall \/ MaskCall \/ GotoCall \/ UngotoCall
         \/ SetPenCall \/ SaveCall \/ SavePenCall \/ RestoreCall \/ ResetCall
         \/ Flush \/ ResizeTerm
  PROVE  SoundBuffer(rb')
<1> PICK lines \in Nat, cols \in Nat : \E stack : rb \in Sound(lines, cols, stack)
  BY DEF SoundBuffer
<1> PICK stack : rb \in Sound(lines, cols, stack)
  OBVIOUS
<1>0. /\ rb.lines = lines /\ rb.cols = cols /\ rb.stack = stack
      /\ rb.vc \in Int \X Int
  BY SoundFields
<1>a. ASSUME NEW s, rb' \in Sound(lines, cols, s) PROVE SoundBuffer(rb')
  BY <1>a DEF SoundBuffer
<1>1. CASE TranslateCall
  <2>1. PICK d \in Displacements : rb' = TranslateBy(rb, d[1], d[2])
    BY <1>1 DEF TranslateCall, Set
  <2>2. d[1] \in Int /\ d[2] \in Int
    BY CallTypes
  <2> QED BY <1>a, <2>1, <2>2, TranslateSound
<1>2. CASE ClipCall
  <2>1. PICK rect \in CallRects : rb' = ClipTo(rb, rect)
    BY <1>2 DEF ClipCall, Set
  <2> QED BY <1>a, <2>1, CallTypes, ClipSound
<1>3. CASE MaskCall
  BY <1>3, <1>a, MaskSound DEF MaskCall, Set
<1>4. CASE GotoCall
  <2>1. PICK p \in Places : rb' = Goto(rb, p[1], p[2])
    BY <1>4 DEF GotoCall, Set
  <2>2. <<p[1], p[2]>> \in Int \X Int
    BY CallTypes
  <2>3. PICK b \in Sound(lines, cols, stack) : b = [rb EXCEPT !.vcSet = TRUE]
    <3>1. \A v \in BOOLEAN : [rb EXCEPT !.vcSet = v] \in Sound(lines, cols, stack)
      BY ContextSound
    <3> QED BY <3>1
  <2>4. \A v \in Int \X Int : [b EXCEPT !.vc = v] \in Sound(lines, cols, stack)
    BY ContextSound
  <2>5. rb' = [b EXCEPT !.vc = <<p[1], p[2]>>]
    BY <2>1, <2>3 DEF Goto
  <2> QED BY <1>a, <2>2, <2>4, <2>5
<1>5. CASE UngotoCall
  <2>1. rb' = [rb EXCEPT !.vcSet = FALSE]
    BY <1>5 DEF UngotoCall, Undo, Ungoto
  <2>2. \A v \in BOOLEAN : [rb EXCEPT !.vcSet = v] \in Sound(lines, cols, stack)
    BY ContextSound
  <2> QED BY <1>a, <2>1, <2>2
<1>6. CASE SetPenCall
  <2>1. PICK pen \in SetPens : rb' = SetPen(rb, pen)
    BY <1>6 DEF SetPenCall, Set
  <2> QED BY <1>a, <2>1, CallTypes, PensSound
<1>7. CASE SaveCall \/ SavePenCall
  <2>1. rb' = SaveAll(rb) \/ rb' = SavePen(rb)
    BY <1>7 DEF SaveCall, SavePenCall, Set
  <2> QED BY <1>a, <2>1, SaveSound
<1>8. CASE RestoreCall
  <2>1. stack # <<>> /\ rb' = Pop(rb)
    BY <1>0, <1>8 DEF RestoreCall, Undo
  <2> QED BY <1>a, <2>1, PopSound
<1>9. CASE ResetCall \/ Flush
  <2>1. rb' = BufferNew(lines, cols, rb.vc)
    BY <1>0, <1>9 DEF ResetCall, Flush, Undo, ResetBuffer
  <2> QED BY <1>0, <1>a, <2>1, NewSound
<1>10. CASE ResizeTerm
  <2>1. PICK size \in Sizes, where \in Where : rb' = BufferNew(size[1], size[2], where)
    BY <1>10 DEF ResizeTerm
  <2>2. size[1] \in Nat /\ size[2] \in Nat /\ where \in Int \X Int
    BY CallTypes
  <2>3. rb' \in Sound(size[1], size[2], <<>>)
    BY <2>1, <2>2, NewSound
  <2> QED BY <2>2, <2>3 DEF SoundBuffer
<1> QED BY <1>1, <1>2, <1>3, <1>4, <1>5, <1>6, <1>7, <1>8, <1>9, <1>10

LEMMA BufferStep == SoundBuffer(rb) /\ [Next]_vars => SoundBuffer(rb')
<1> SUFFICES ASSUME SoundBuffer(rb), [Next]_vars PROVE SoundBuffer(rb')
  OBVIOUS
<1> PICK lines \in Nat, cols \in Nat : \E stack : rb \in Sound(lines, cols, stack)
  BY DEF SoundBuffer
<1>1. PICK stack : rb \in Sound(lines, cols, stack)
  OBVIOUS
<1>2. CASE \/ SkipAt \/ EraseAt \/ TextAt \/ CharAt \/ HLineAt \/ VLineAt
           \/ EraseRectAt \/ ClearAll \/ BlitFrom
  <2>1. rb' \in Sound(lines, cols, stack)
    BY <1>1, <1>2, DrawsSound
  <2> QED BY <2>1 DEF SoundBuffer
<1>3. CASE SkipOn \/ EraseOn \/ TextOn \/ CharOn \/ SkipTo \/ EraseTo
  <2>1. rb' \in Sound(lines, cols, stack)
    BY <1>1, <1>3, RelativeSound
  <2> QED BY <2>1 DEF SoundBuffer
<1>4. CASE \/ TranslateCall \/ ClipCall \/ MaskCall \/ GotoCall \/ UngotoCall
           \/ SetPenCall \/ SaveCall \/ SavePenCall \/ RestoreCall \/ ResetCall
           \/ Flush \/ ResizeTerm
  BY <1>4, CallsSound
<1>5. CASE ScrollTerm \/ ClearScreen \/ UNCHANGED vars
  <2>1. rb' = rb
    BY <1>5 DEF ScrollTerm, ClearScreen, vars
  <2> QED BY <2>1
<1> QED BY <1>2, <1>3, <1>4, <1>5 DEF Next

LEMMA BufferInit == Init => SoundBuffer(rb)
<1> SUFFICES ASSUME Init PROVE SoundBuffer(rb)
  OBVIOUS
<1>1. PICK where \in Where : rb = BufferNew(StartSize[1], StartSize[2], where)
  BY DEF Init
<1>2. rb \in Sound(StartSize[1], StartSize[2], <<>>)
  BY <1>1, CallTypes, NewSound
<1> QED BY <1>2, CallTypes DEF SoundBuffer

LEMMA SoundTiles == SoundBuffer(rb) => SpansTile
<1> SUFFICES ASSUME SoundBuffer(rb) PROVE SpansTile
  OBVIOUS
<1> PICK lines \in Nat, cols \in Nat : \E stack : rb \in Sound(lines, cols, stack)
  BY DEF SoundBuffer
<1>1. PICK stack : rb \in Sound(lines, cols, stack)
  OBVIOUS
<1>2. rb.cols = cols /\ rb.cells \in [0..lines - 1 -> TiledRows(cols)]
  <2>1. \A b \in Sound(lines, cols, stack) :
          b.cols = cols /\ b.cells \in [0..lines - 1 -> TiledRows(cols)]
    BY SoundFields
  <2> QED BY ONLY <1>1, <2>1, Zenon
<1>3. ASSUME NEW l \in 0..lines - 1 PROVE Tiled(rb.cells[l], rb.cols)
  <2>1. rb.cells[l] \in TiledRows(cols)
    BY <1>2
  <2> QED BY <1>2, <2>1, TiledIs DEF TiledRows
<1> QED BY <1>2, <1>3 DEF SpansTile

(* Whatever is drawn, skipped, erased, masked, clipped, translated, saved, *)
(* restored and blitted, in whatever order and beyond any edge, every line *)
(* of the buffer stays tiled by its spans: flush, blit and the queries     *)
(* always find the first cell of a span where they look for it             *)
(* (renderbuffer.c 105-1086).                                              *)
THEOREM SpansStayTiled == Spec => []SpansTile
<1>1. Init => SoundBuffer(rb)
  BY BufferInit
<1>2. SoundBuffer(rb) /\ [Next]_vars => SoundBuffer(rb)'
  BY BufferStep
<1>3. SoundBuffer(rb) => SpansTile
  BY SoundTiles
<1> QED BY <1>1, <1>2, <1>3, PTL DEF Spec

-----------------------------------------------------------------------------
(* Queries.  The glyph that a column of a text belongs to comes after as   *)
(* many glyphs as fit in the columns before.                               *)
LEMMA GlyphOfColumn ==
  ASSUME NEW text \in Seq(Glyphs), NEW k \in Nat, k < Len(Columns(text))
  PROVE  /\ Columns(text)[k + 1] \in Halved
         /\ Columns(text)[k + 1][1] = text[Fitting(text, k) + 1]
<1>1. PICK h : ColumnsBy(h, text)
  BY ColumnsExist
<1>2. PICK n \in Nat : n = Len(text)
  OBVIOUS
<1>3. /\ h \in [0..n -> Seq(Halved)]
      /\ \A i \in 1..n : h[i] = h[i - 1] \o Halves(text[i])
      /\ \A i \in 1..n : text[i] \in Glyphs
  <2>1. \A i \in 1..n : text[i] \in Glyphs
    BY <1>2
  <2> QED BY <1>1, <1>2, <2>1 DEF ColumnsBy
<1>4. \A i \in 0..n : Columns(SubSeq(text, 1, i)) = h[i]
  BY <1>1, <1>2, ColumnsAre
<1>5. Columns(text) = h[n] /\ n \in 0..n
  <2>1. SubSeq(text, 1, n) = text
    BY <1>2, SubSeqProperties
  <2>2. n \in 0..n
    OBVIOUS
  <2> QED BY <1>4, <2>1, <2>2
<1>6. \A i \in 0..n : Len(h[i]) \in Nat
  BY <1>3
<1> DEFINE S == {i \in 0..n : Len(h[i]) <= k}
<1>7. Fitting(text, k) = Runs!Max(S)
  <2>1. {i \in 0..n : Len(Columns(SubSeq(text, 1, i))) <= k} = S
    BY <1>4
  <2> HIDE DEF S
  <2> QED BY <1>2, <2>1 DEF Fitting, Max, Runs!Max
<1>8. 0 \in S
  <2>1. h[0] = <<>>
    BY <1>1 DEF ColumnsBy
  <2>2. Len(h[0]) = 0
    BY <2>1
  <2> QED BY <2>2
<1>9. PICK f \in S : f = Fitting(text, k) /\ \A i \in S : i <= f
  <2>1. S \in SUBSET (0..n)
    OBVIOUS
  <2> HIDE DEF S
  <2> QED BY <1>7, <1>8, <2>1, Runs!MaxUpto
<1>10. n \notin S
  BY <1>5, <1>6
<1>11. f \in 0..n - 1 /\ f + 1 \in 1..n /\ f + 1 \in 0..n /\ f + 1 \notin S
  <2>1. f \in 0..n /\ f # n
    BY <1>10
  <2>2. f + 1 \notin S
    <3>1. ~(f + 1 <= f)
      BY <2>1
    <3> HIDE DEF S
    <3> QED BY <1>9, <3>1
  <2> QED BY <2>1, <2>2
<1>12. PICK a \in Nat, b \in Nat : a = Len(h[f]) /\ b = Len(h[f + 1])
  BY <1>6, <1>11
<1>13. a <= k /\ k < b
  BY <1>11, <1>12
<1>14. PICK g \in Glyphs : g = text[f + 1]
  BY <1>3, <1>11
<1>15. /\ Halves(g) \in Seq(Halved) /\ Len(Halves(g)) \in 1..2
       /\ \A i \in DOMAIN Halves(g) : Halves(g)[i] = <<g, i>>
  BY HalvesType
<1>16. h[f] \in Seq(Halved) /\ h[f + 1] = h[f] \o Halves(g)
  <2>1. f \in 0..n /\ (f + 1) - 1 = f
    BY <1>11
  <2> QED BY <1>3, <1>11, <1>14, <2>1
<1>17. /\ b = a + Len(Halves(g))
       /\ \A i \in a + 1..b : h[f + 1][i] = Halves(g)[i - a]
  <2> HIDE DEF S
  <2>1. PICK u \in Seq(Halved), v \in Seq(Halved) : u = h[f] /\ v = Halves(g)
    BY <1>15, <1>16
  <2>2. Len(u \o v) = Len(u) + Len(v)
        /\ \A i \in 1..Len(u) + Len(v) :
             (u \o v)[i] = IF i <= Len(u) THEN u[i] ELSE v[i - Len(u)]
    BY ConcatProperties
  <2> QED BY <1>12, <1>16, <2>1, <2>2
<1>18. h[f + 1][k + 1] = <<g, k + 1 - a>> /\ k + 1 - a \in 1..2
  <2>1. k + 1 \in a + 1..b /\ (k + 1) - a \in 1..Len(Halves(g))
    BY <1>13, <1>15, <1>17
  <2>2. (k + 1) - a \in DOMAIN Halves(g) /\ (k + 1) - a \in 1..2
    <3>1. DOMAIN Halves(g) = 1..Len(Halves(g))
      BY <1>15
    <3>2. \A i \in 1..2 : 1..i \subseteq 1..2
      OBVIOUS
    <3> QED BY <1>15, <2>1, <3>1, <3>2
  <2> QED BY <1>15, <1>17, <2>1, <2>2
<1> DEFINE same == {i \in 0..n : i > f => Len(h[i]) > k /\ h[i][k + 1] = h[f + 1][k + 1]}
<1>19. 0 \in same
  BY <1>11
<1>20. \A i \in 0..n - 1 : i \in same => i + 1 \in same
  <2> SUFFICES ASSUME NEW i \in 0..n - 1, i \in same PROVE i + 1 \in same
    OBVIOUS
  <2>1. i + 1 \in 0..n /\ i + 1 \in 1..n /\ (i + 1) - 1 = i /\ i \in 0..n
    OBVIOUS
  <2>2. CASE i + 1 <= f
    BY <1>11, <2>1, <2>2
  <2>3. CASE i = f
    BY <1>12, <1>13, <2>1, <2>3
  <2>4. CASE i > f
    <3>1. Len(h[i]) > k /\ h[i][k + 1] = h[f + 1][k + 1]
      BY <2>1, <2>4
    <3> HIDE DEF S, same
    <3>2. PICK u \in Seq(Halved), v \in Seq(Halved) : u = h[i] /\ v = Halves(text[i + 1])
      BY <1>3, <2>1, HalvesType
    <3>3. h[i + 1] = u \o v
      BY <1>3, <2>1, <3>2
    <3>4. Len(u \o v) = Len(u) + Len(v)
          /\ \A j \in 1..Len(u) + Len(v) :
               (u \o v)[j] = IF j <= Len(u) THEN u[j] ELSE v[j - Len(u)]
      BY ConcatProperties
    <3>5. Len(u) \in Nat /\ Len(v) \in Nat /\ Len(u) > k
      <4>1. Len(u) \in Nat /\ Len(v) \in Nat
        OBVIOUS
      <4>2. Len(u) > k
        BY <3>1, <3>2, Zenon
      <4> QED BY <4>1, <4>2
    <3>6. k + 1 \in 1..Len(u) + Len(v) /\ k + 1 <= Len(u) /\ Len(u) + Len(v) > k
      BY <3>5
    <3>7. (u \o v)[k + 1] = u[k + 1]
      BY <3>4, <3>6
    <3>8. Len(h[i + 1]) > k /\ h[i + 1][k + 1] = h[f + 1][k + 1]
      BY <3>1, <3>2, <3>3, <3>4, <3>6, <3>7
    <3> QED BY <2>1, <3>8 DEF same
  <2> QED BY <1>11, <2>2, <2>3, <2>4
<1>21. \A i \in 0..n : i \in same
  <2> HIDE DEF same
  <2> QED BY <1>19, <1>20, Runs!BoundedInduction
<1>22. Columns(text)[k + 1] = h[f + 1][k + 1]
  <2>1. n \in same /\ n > f
    BY <1>5, <1>11, <1>21
  <2> QED BY <1>5, <2>1
<1> HIDE DEF S, same
<1>23. Columns(text)[k + 1] = <<g, k + 1 - a>>
  BY <1>18, <1>22
<1>24. <<g, k + 1 - a>> \in Halved /\ <<g, k + 1 - a>>[1] = g
  BY <1>18 DEF Halved
<1> QED BY <1>9, <1>14, <1>23, <1>24

(* The span of a cell. *)
LEMMA CellOf ==
  ASSUME NEW cols \in Nat, NEW row \in TiledRows(cols), NEW c \in 0..cols - 1
  PROVE  /\ First(row, c) \in 0..c
         /\ row[First(row, c)] \in Cells(LineStyle)
         /\ row[First(row, c)].state \in {"SKIP", "ERASE", "TEXT", "LINE", "CHAR"}
         /\ Whole(row[First(row, c)])
         /\ c < First(row, c) + row[First(row, c)].cols
<1>1. row \in [0..cols - 1 -> Cells(LineStyle)] /\ Tiled(row, cols)
  BY TiledIs DEF TiledRows, Rows
<1>2. PICK f : f = First(row, c)
  OBVIOUS
<1>3. f \in Int
  BY <1>1, <1>2 DEF First, Cells
<1>4. f <= c /\ c < f + row[f].cols /\ Whole(row[f])
  BY <1>1, <1>2 DEF Tiled
<1>5. f \in 0..c
  BY <1>1, <1>2, <1>3, <1>4 DEF First, Cells
<1>6. row[f] \in Cells(LineStyle)
  BY <1>1, <1>5
<1>7. row[f].state \in {"SKIP", "ERASE", "TEXT", "LINE", "CHAR"}
  BY <1>4, <1>6 DEF Cells, States, Whole
<1> QED BY <1>2, <1>4, <1>5, <1>6, <1>7

LEMMA SoundAnswers == SoundBuffer(rb) => QueriesExact
<1> SUFFICES ASSUME SoundBuffer(rb), NEW y \in 0..rb.lines - 1, NEW z \in 0..rb.cols - 1
             PROVE  LET l == y - rb.xlate[1]
                        c == z - rb.xlate[2]
                        content == Content(y, z)
                    IN  IF ~InRect(y, z, rb.clip) THEN CellActive(rb, l, c) = -1
                        ELSE IF content = None
                        THEN CellActive(rb, l, c) = 0 /\ CellText(rb, l, c) = <<>>
                        ELSE /\ CellActive(rb, l, c) = 1
                             /\ CellPen(rb, l, c) = content.pen
                             /\ CellText(rb, l, c) = IF Erased(y, z) THEN <<>>
                                                     ELSE <<content.ch[1]>>
                             /\ CellBits(rb, l, c) = IF content.ch[1] \in Glyphs THEN {}
                                                     ELSE content.ch[1]
  <2>1. \A x \in Grid(rb.lines, rb.cols) :
          x[1] \in 0..rb.lines - 1 /\ x[2] \in 0..rb.cols - 1
    BY DEF Grid
  <2> QED BY <2>1 DEF QueriesExact
<1> PICK lines \in Nat, cols \in Nat : \E stack : rb \in Sound(lines, cols, stack)
  BY DEF SoundBuffer
<1>1. PICK stack : rb \in Sound(lines, cols, stack)
  OBVIOUS
<1>2. /\ rb.lines = lines /\ rb.cols = cols
      /\ rb.cells \in [0..lines - 1 -> TiledRows(cols)]
      /\ rb.xlate \in Int \X Int /\ rb.clip \in Clips(lines, cols)
  BY <1>1, SoundFields
<1>3. PICK row \in TiledRows(cols) : row = rb.cells[y]
  BY <1>2
<1>4. PICK f \in 0..z : f = First(row, z)
  BY <1>2, CellOf
<1>5. PICK span \in Cells(LineStyle) : span = row[f]
  BY <1>2, <1>4, CellOf
<1>6. /\ span.state \in {"SKIP", "ERASE", "TEXT", "LINE", "CHAR"}
      /\ Whole(span) /\ z < f + span.cols
  BY <1>2, <1>4, <1>5, CellOf
<1>7. PICK l \in Int, c \in Int : l = y - rb.xlate[1] /\ c = z - rb.xlate[2]
  <2>1. PICK dy \in Int, dx \in Int : dy = rb.xlate[1] /\ dx = rb.xlate[2]
    BY <1>2
  <2>2. y - dy \in Int /\ z - dx \in Int
    BY <1>2
  <2> QED BY <2>1, <2>2
<1>8. Translated(rb, l, c) = <<y, z>>
  <2>1. PICK dy \in Int, dx \in Int : dy = rb.xlate[1] /\ dx = rb.xlate[2]
    BY <1>2
  <2>2. l + dy = y /\ c + dx = z
    <3>1. l = y - dy /\ c = z - dx /\ y \in Int /\ z \in Int
      BY <1>2, <1>7, <2>1
    <3> QED BY <3>1
  <2> QED BY <2>1, <2>2 DEF Translated
<1>9. InClip(rb, l, c, 1) <=> InRect(y, z, rb.clip)
  <2>1. PICK top \in Int, left \in Int, height \in Int, width \in Int :
          /\ top = rb.clip.top /\ left = rb.clip.left
          /\ height = rb.clip.lines /\ width = rb.clip.cols
    BY <1>2 DEF Clips, RectType
  <2>2. Bottom(rb.clip) = top + height /\ Right(rb.clip) = left + width
    BY <2>1 DEF Bottom, Right
  <2>3. y \in Int /\ z \in Int
    BY <1>2
  <2>4. InClip(rb, l, c, 1)
          <=> /\ height # 0 /\ y >= top /\ y < top + height /\ z < left + width
              /\ z + 1 > MaxInt(z, left)
    BY <1>8, <2>1, <2>2 DEF InClip
  <2>5. z + 1 > MaxInt(z, left) <=> left <= z
    BY <2>1, <2>3 DEF MaxInt
  <2> QED BY <2>1, <2>2, <2>3, <2>4, <2>5 DEF InRect
<1>10. SpanAt(rb, l, c) = [cell |-> span, offset |-> z - f]
  <2>1. z - z = 0
    BY <1>2
  <2>2. CASE row[z].state = "CONT"
    <3>1. f = row[z].cols
      BY <1>4, <2>2 DEF First
    <3> QED BY <1>3, <1>5, <1>8, <2>2, <3>1 DEF SpanAt
  <2>3. CASE row[z].state # "CONT"
    <3>1. f = z
      BY <1>4, <2>3 DEF First
    <3> QED BY <1>3, <1>5, <1>8, <2>1, <2>3, <3>1 DEF SpanAt
  <2> QED BY <2>2, <2>3
<1>11. CellActive(rb, l, c) = IF ~InRect(y, z, rb.clip) THEN -1
                              ELSE IF span.state # "SKIP" THEN 1 ELSE 0
  BY <1>9, <1>10 DEF CellActive
<1> DEFINE ch == CASE span.state = "TEXT" -> Columns(span.text)[span.offs + z - f + 1]
                   [] span.state = "ERASE" -> <<Blank, 1>>
                   [] span.state = "LINE"  -> <<span.bits, 1>>
                   [] OTHER -> <<span.text[1], 1>>
<1>12. Content(y, z) = IF span.state = "SKIP" THEN None ELSE [ch |-> ch, pen |-> span.pen]
  BY <1>3, <1>4, <1>5 DEF Content
<1>13. Erased(y, z) <=> span.state = "ERASE"
  BY <1>3, <1>4, <1>5 DEF Erased
<1>14. CASE ~InRect(y, z, rb.clip)
  BY <1>7, <1>11, <1>14
<1>15. CASE InRect(y, z, rb.clip) /\ span.state = "SKIP"
  <2>1. CellActive(rb, l, c) = 0
    BY <1>11, <1>15
  <2>2. CellText(rb, l, c) = <<>>
    BY <2>1 DEF CellText
  <2>3. Content(y, z) = None
    BY <1>12, <1>15
  <2> QED BY <1>7, <1>15, <2>1, <2>2, <2>3
<1>16. CASE InRect(y, z, rb.clip) /\ span.state # "SKIP"
  <2>1. CellActive(rb, l, c) = 1
    BY <1>11, <1>16
  <2>2. span.pen \in RBPens
    BY <1>6, <1>16 DEF Whole, Cells
  <2>3. CellPen(rb, l, c) = span.pen
    BY <1>10, <2>1 DEF CellPen
  <2>4. CellText(rb, l, c) = CASE span.state = "ERASE" -> <<>>
                               [] span.state = "TEXT"  ->
                                    <<span.text[Fitting(span.text, span.offs + (z - f)) + 1]>>
                               [] span.state = "LINE"  -> <<span.bits>>
                               [] OTHER -> span.text
    BY <1>10, <2>1 DEF CellText, SpanGlyph
  <2>5. CellBits(rb, l, c) = IF span.state = "LINE" THEN span.bits ELSE {}
    BY <1>9, <1>10, <1>16 DEF CellBits
  <2>6. /\ ch \in Contents
        /\ CellText(rb, l, c) = IF span.state = "ERASE" THEN <<>> ELSE <<ch[1]>>
        /\ CellBits(rb, l, c) = IF ch[1] \in Glyphs THEN {} ELSE ch[1]
    <3>1. CASE span.state = "TEXT"
      <4>1. PICK text \in Seq(Glyphs) : text = span.text
        BY DEF Cells
      <4>2. PICK k \in Nat : k = span.offs + (z - f)
        <5>1. span.offs \in Nat /\ z - f \in Nat
          BY <1>2 DEF Cells
        <5> QED BY <5>1
      <4>3. span.offs + z - f + 1 = k + 1
        <5>1. span.offs \in Nat /\ z \in Int /\ f \in Int
          BY <1>2 DEF Cells
        <5> QED BY <4>2, <5>1
      <4>4. k < Len(Columns(text))
        <5>1. span.offs + span.cols <= Len(Columns(text)) /\ Len(Columns(text)) \in Nat
          BY <1>6, <3>1, <4>1, ColumnsType DEF Whole
        <5>2. span.offs \in Nat /\ span.cols \in Nat /\ z \in Int /\ f \in Int
          BY <1>2 DEF Cells
        <5>3. z - f < span.cols
          BY <1>6, <5>2
        <5> QED BY <4>2, <5>1, <5>2, <5>3
      <4>5. Columns(text)[k + 1] \in Halved
            /\ Columns(text)[k + 1][1] = text[Fitting(text, k) + 1]
        BY <4>4, GlyphOfColumn
      <4>6. ch = Columns(text)[k + 1]
        BY <3>1, <4>1, <4>3
      <4>7. CellText(rb, l, c) = <<text[Fitting(text, k) + 1]>>
        BY <2>4, <3>1, <4>1, <4>2
      <4> HIDE DEF ch
      <4>8. ch \in Contents /\ ch[1] \in Glyphs
        BY <4>5, <4>6 DEF Halved, Contents
      <4> QED BY <2>5, <3>1, <4>5, <4>6, <4>7, <4>8
    <3>2. CASE span.state = "ERASE"
      <4>1. ch = <<Blank, 1>> /\ Blank \in Glyphs
        BY <3>2, RenderBufferAssumption
      <4> HIDE DEF ch
      <4>2. ch \in Contents /\ ch[1] = Blank
        BY <4>1 DEF Contents
      <4> QED BY <2>4, <2>5, <3>2, <4>1, <4>2
    <3>3. CASE span.state = "LINE"
      <4>1. ch = <<span.bits, 1>>
        BY <3>3
      <4>2. span.bits \in SUBSET ({"north", "east", "south", "west"} \X LineStyle)
        BY DEF Cells
      <4>3. span.bits \notin Glyphs
        BY <4>2, CallersAssumption
      <4> HIDE DEF ch
      <4>4. ch \in Contents /\ ch[1] = span.bits
        BY <4>1, <4>2 DEF Contents
      <4> QED BY <2>4, <2>5, <3>3, <4>3, <4>4
    <3>4. CASE span.state = "CHAR"
      <4>1. ch = <<span.text[1], 1>>
        BY <3>4
      <4>2. span.text \in Seq(Glyphs) /\ Len(span.text) = 1
        BY <1>6, <3>4 DEF Cells, Whole
      <4>3. PICK g \in Glyphs : g = span.text[1] /\ span.text = <<g>>
        BY <4>2
      <4> HIDE DEF ch
      <4>4. ch \in Contents /\ ch[1] = g
        BY <4>1, <4>3 DEF Contents
      <4>5. CellText(rb, l, c) = <<g>>
        BY <2>4, <3>4, <4>3
      <4> QED BY <2>5, <3>4, <4>4, <4>5
    <3> QED BY <1>6, <1>16, <3>1, <3>2, <3>3, <3>4
  <2> HIDE DEF ch
  <2>7. [ch |-> ch, pen |-> span.pen] # None
    <3>1. [ch |-> ch, pen |-> span.pen] \in [ch : Contents, pen : RBPens]
      BY <2>2, <2>6
    <3> QED BY <3>1, CallersAssumption
  <2>8. /\ Content(y, z) # None /\ Content(y, z).ch = ch
        /\ Content(y, z).pen = span.pen
    BY <1>12, <1>16, <2>7
  <2> QED BY <1>7, <1>13, <1>16, <2>1, <2>3, <2>6, <2>8
<1> QED BY <1>14, <1>15, <1>16

(* Whatever was drawn, and through every translation and clip, the queries *)
(* answer for the very cell that is asked about: whether it is active, and *)
(* its pen, its glyph or its line mask (renderbuffer.c 1088-1195).         *)
THEOREM QueriesAnswer == Spec => []QueriesExact
<1>1. Init => SoundBuffer(rb)
  BY BufferInit
<1>2. SoundBuffer(rb) /\ [Next]_vars => SoundBuffer(rb)'
  BY BufferStep
<1>3. SoundBuffer(rb) => QueriesExact
  BY SoundAnswers
<1> QED BY <1>1, <1>2, <1>3, PTL DEF Spec
=============================================================================
