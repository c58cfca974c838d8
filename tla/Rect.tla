-------------------------------- MODULE Rect --------------------------------
(***************************************************************************)
(* The rectangle arithmetic of libtickit (terminal/libtickit/rect.c).      *)
(*                                                                         *)
(* A rectangle is the half-open block of cells                             *)
(* top..Bottom-1 \X left..Right-1; lines or cols of zero or less make it   *)
(* empty.  What the C functions return through an array and a count is a   *)
(* sequence here.  Coordinates are mathematical integers: terminal sizes   *)
(* keep the C ints far from overflow.                                      *)
(***************************************************************************)
EXTENDS Integers, Sequences

RectType == [top : Int, left : Int, lines : Int, cols : Int]

Bottom(r) == r.top + r.lines
Right(r)  == r.left + r.cols

NonEmpty(r) == r.lines > 0 /\ r.cols > 0

(* Line l, column c is a cell of r. *)
InRect(l, c, r) ==
  /\ r.top <= l  /\ l < Bottom(r)
  /\ r.left <= c /\ c < Right(r)

(* Line l, column c is a cell of one of the rectangles of the sequence s. *)
InSome(l, c, s) == \E i \in DOMAIN s : InRect(l, c, s[i])

MinInt(a, b) == IF a < b THEN a ELSE b
MaxInt(a, b) == IF a > b THEN a ELSE b

-----------------------------------------------------------------------------

InitSized(top, left, lines, cols) ==
  [top |-> top, left |-> left, lines |-> lines, cols |-> cols]

InitBounded(top, left, bottom, right) ==
  [top |-> top, left |-> left, lines |-> bottom - top, cols |-> right - left]

Translate(r, downward, rightward) ==
  [r EXCEPT !.top = @ + downward, !.left = @ + rightward]

(* Bugs for the mutant runs: the columns are forgotten; rectangles that    *)
(* only touch count.                                                       *)
IntersectsRowsOnly(a, b) == a.top < Bottom(b) /\ b.top < Bottom(a)

IntersectsTouching(a, b) ==
  /\ a.top <= Bottom(b) /\ b.top <= Bottom(a)
  /\ a.left <= Right(b) /\ b.left <= Right(a)

Intersects(a, b) ==
  /\ a.top < Bottom(b) /\ b.top < Bottom(a)
  /\ a.left < Right(b) /\ b.left < Right(a)

(* tickit_rect_intersect writes dst and returns whether it did. *)
HasIntersection(a, b) ==
  /\ MaxInt(a.top, b.top) < MinInt(Bottom(a), Bottom(b))
  /\ MaxInt(a.left, b.left) < MinInt(Right(a), Right(b))

Intersection(a, b) ==
  InitBounded(MaxInt(a.top, b.top), MaxInt(a.left, b.left),
              MinInt(Bottom(a), Bottom(b)), MinInt(Right(a), Right(b)))

(* A bug for the mutant runs: the right edge is forgotten. *)
ContainsOpenRight(large, small) ==
  /\ small.top >= large.top   /\ Bottom(small) <= Bottom(large)
  /\ small.left >= large.left

RectContains(large, small) ==
  /\ small.top >= large.top   /\ Bottom(small) <= Bottom(large)
  /\ small.left >= large.left /\ Right(small) <= Right(large)

-----------------------------------------------------------------------------
(* tickit_rect_subtract: the parts of orig above, left of, right of and    *)
(* below the hole, in that order.                                          *)

When(cond, r) == IF cond THEN <<r>> ELSE <<>>

Subtract(orig, hole) ==
  LET midTop    == MaxInt(orig.top, hole.top)
      midBottom == MinInt(Bottom(orig), Bottom(hole))
      above == When(orig.top < hole.top,
                    InitBounded(orig.top, orig.left, hole.top, Right(orig)))
      left  == When(orig.left < hole.left,
                    InitBounded(midTop, orig.left, midBottom, hole.left))
      right == When(Right(orig) > Right(hole),
                    InitBounded(midTop, Right(hole), midBottom, Right(orig)))
      below == When(Bottom(orig) > Bottom(hole),
                    InitBounded(Bottom(hole), orig.left, Bottom(orig), Right(orig)))
  IN  IF RectContains(hole, orig) THEN <<>>
      ELSE IF ~Intersects(hole, orig) THEN <<orig>>
      ELSE (above \o left) \o (right \o below)

-----------------------------------------------------------------------------
(* tickit_rect_add: the union of two rectangles as at most three.          *)

Apart(a, b) ==
  \/ a.left > Right(b) \/ b.left > Right(a)
  \/ a.top > Bottom(b) \/ b.top > Bottom(a)

(* The slice of the union of a and b between two consecutive of the four   *)
(* sorted rows; both rectangles span it, or just one does.                 *)
Band(a, b, top, bottom) ==
  LET hasA  == top >= a.top /\ bottom <= Bottom(a)
      hasB  == top >= b.top /\ bottom <= Bottom(b)
      left  == IF hasA /\ hasB THEN MinInt(a.left, b.left)
               ELSE IF hasA THEN a.left ELSE b.left
      right == IF hasA /\ hasB THEN MaxInt(Right(a), Right(b))
               ELSE IF hasA THEN Right(a) ELSE Right(b)
  IN  InitBounded(top, left, bottom, right)

StretchTo(r, bottom) == InitSized(r.top, r.left, bottom - r.top, r.cols)

(* Bugs for the mutant runs: slices that start in the same column are      *)
(* joined whatever their width; empty slices are kept.                     *)
PutBandByLeft(ret, band) ==
  LET n == Len(ret) IN
  IF band.lines = 0 THEN ret
  ELSE IF n > 0 /\ ret[n].left = band.left
  THEN [ret EXCEPT ![n] = StretchTo(ret[n], Bottom(band))]
  ELSE Append(ret, band)

PutAnyBand(ret, band) == Append(ret, band)

(* An empty slice is skipped; one as wide as the last result extends it.   *)
PutBand(ret, band) ==
  LET n == Len(ret) IN
  IF band.lines = 0 THEN ret
  ELSE IF n > 0 /\ ret[n].left = band.left /\ ret[n].cols = band.cols
  THEN [ret EXCEPT ![n] = StretchTo(ret[n], Bottom(band))]
  ELSE Append(ret, band)

(* A bug for the mutant runs: right cells, in too many pieces. *)
AddBySubtracting(a, b) == <<a>> \o Subtract(b, a)

RectAdd(a, b) ==
  LET row0 == MinInt(a.top, b.top)
      tops == MaxInt(a.top, b.top)
      bots == MinInt(Bottom(a), Bottom(b))
      row1 == MinInt(tops, bots)
      row2 == MaxInt(tops, bots)
      row3 == MaxInt(Bottom(a), Bottom(b))
  IN  IF Apart(a, b) THEN <<a, b>>
      ELSE PutBand(PutBand(PutBand(<<>>, Band(a, b, row0, row1)),
                           Band(a, b, row1, row2)),
                   Band(a, b, row2, row3))
=============================================================================
