------------------------------ MODULE RectArray ------------------------------
(***************************************************************************)
(* The array of a rectangle set of libtickit (terminal/libtickit/          *)
(* rectset.c), a sequence ordered by cmprect, and what tickit_rectset_add  *)
(* makes of it.  The array grows as needed: its allocation is left out.    *)
(*                                                                         *)
(* tickit_rectset_add calls itself last, with the two or three rectangles  *)
(* a split leaves.  A call under way is a record: rects, the array; adds,  *)
(* the rectangles passed to the innermost call and to those that are still *)
(* to be made; grown, the block top..bottom, left..right of the innermost. *)
(***************************************************************************)
EXTENDS Rect, FiniteSetsExt, SequencesExt

CellsIn(r) == (r.top..Bottom(r) - 1) \X (r.left..Right(r) - 1)
CellsOf(s) == UNION {CellsIn(s[i]) : i \in DOMAIN s}

Nowhere == InitSized(0, 0, 0, 0)

-----------------------------------------------------------------------------
(* cmprect(x, y) > 0 *)
After(x, y) == x.top > y.top \/ (x.top = y.top /\ x.left > y.left)

(* A bug for the mutant runs: the new rectangle goes to the end. *)
InsertRectAtEnd(s, r) == Append(s, r)

InsertRect(s, r) ==
  LET later == {i \in DOMAIN s : After(s[i], r)}
  IN  InsertAt(s, IF later = {} THEN Len(s) + 1 ELSE Min(later), r)

Touches(r, s) ==
  /\ s.top <= Bottom(r) /\ r.top <= Bottom(s)
  /\ s.left <= Right(r) /\ r.left <= Right(s)

(* A bug for the mutant runs: only the first rows are compared. *)
SameTop(r, s) == r.top = s.top

SameRows(r, s) == r.top = s.top /\ Bottom(r) = Bottom(s)
SameCols(r, s) == r.left = s.left /\ Right(r) = Right(s)
OneAbove(r, s) == s.top = Bottom(r) \/ Bottom(s) = r.top

Hull(r, s) ==
  InitBounded(MinInt(r.top, s.top), MinInt(r.left, s.left),
              MaxInt(Bottom(r), Bottom(s)), MaxInt(Right(r), Right(s)))

(* Rectangle i of s is one that the loop of tickit_rectset_add(r) neither  *)
(* skips nor breaks before.  grown is the block that stretching has        *)
(* enlarged; line 113 tests, and line 144 splits, the rectangle passed.    *)
DecidesAt(s, r, grown, i) ==
  /\ \A j \in 1..i : Bottom(grown) >= s[j].top
  /\ Touches(s[i], grown)
  /\ \/ RectContains(s[i], r)
     \/ SameRows(s[i], grown) \/ SameCols(s[i], grown)
     \/ ~OneAbove(s[i], grown)

(* The block of the first of some calls, before any stretching. *)
Block(calls) == IF calls = <<>> THEN Nowhere ELSE calls[1]

Adding(rects, calls) == [rects |-> rects, adds |-> calls, grown |-> Block(calls)]

AddCall == [rects : Seq(RectType), adds : Seq(RectType), grown : RectType]

(* Rectangle i decides: r is already entirely covered by it; r is          *)
(* stretched over it, and the scan restarts; or the two are cut anew, and  *)
(* the pieces added.                                                       *)
Meet(x, i) ==
  LET r == x.adds[1]
      s == x.rects[i]
  IN  IF RectContains(s, r) THEN Adding(x.rects, Tail(x.adds))
      ELSE IF SameRows(s, x.grown) \/ SameCols(s, x.grown)
      THEN [rects |-> RemoveAt(x.rects, i), adds |-> x.adds, grown |-> Hull(s, x.grown)]
      ELSE Adding(RemoveAt(x.rects, i), RectAdd(s, r) \o Tail(x.adds))

(* One pass of the loop, up to its restart or the return of the call: the  *)
(* first rectangle that decides, or r is put in.                           *)
Turn[x \in AddCall] ==
  LET found == {i \in DOMAIN x.rects : DecidesAt(x.rects, x.adds[1], x.grown, i)} IN
  IF x.adds = <<>> THEN x
  ELSE IF found # {} THEN Meet(x, Min(found))
  ELSE Adding(InsertRect(x.rects, x.grown), Tail(x.adds))

(* tickit_rectset_add(r): as many turns as it takes, and at most turns.    *)
AddTurns(s, r, turns) ==
  FoldLeft(LAMBDA x, k : Turn[x], Adding(s, <<r>>), [k \in 1..turns |-> k])

Added(s, r, turns) == AddTurns(s, r, turns).rects
=============================================================================
