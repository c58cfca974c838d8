------------------------------- MODULE RectSet -------------------------------
(***************************************************************************)
(* The rectangle set of libtickit (terminal/libtickit/rectset.c): what the *)
(* root window keeps its damage in, and what a scroll computes the visible *)
(* part of a window with.                                                  *)
(*                                                                         *)
(* A set is the array trs->rects as a sequence ordered by cmprect.  A call *)
(* is a sequence of steps, one for each turn of its loop that changes the  *)
(* set or calls tickit_rectset_add; the calls that recursion leaves to be  *)
(* made are in adds.  The growth of the array is left out.                 *)
(***************************************************************************)
EXTENDS RectArray

CONSTANTS Lines, Cols,        \* the rectangles passed in lie on this grid
          MaxRects            \* no more adds once the set is this long

ASSUME BoundsAssumption == Lines \in Nat /\ Cols \in Nat /\ MaxRects \in Nat

VARIABLES rects,              \* trs->rects[0 .. count-1]
          fn,                 \* the function the application has called
          arg,                \* the rectangle it passed
          adds,               \* the arguments of tickit_rectset_add: of the
                              \*   innermost call, then of those to be made
          grown,              \* top..bottom, left..right of the innermost
          at,                 \* i of tickit_rectset_subtract, from 1
          part,               \* what tickit_rectset_contains looks up now
          answer,             \* what it returned
          asked,              \* ghost: the cells added and not taken away
          held                 \* ghost: the cells of the set before the call

vars == <<rects, fn, arg, adds, grown, at, part, answer, asked, held>>

(* The rectangles of the grid.                                             *)
GridRects ==
  {r \in {InitBounded(t, l, m, n) :
            t \in 0..Lines, l \in 0..Cols, m \in 0..Lines, n \in 0..Cols} :
     NonEmpty(r)}

TypeOK ==
  /\ rects \in Seq(RectType) /\ adds \in Seq(RectType)
  /\ fn \in {"none", "add", "subtract", "contains", "answered"}
  /\ arg \in RectType /\ grown \in RectType /\ part \in RectType
  /\ at \in Nat /\ answer \in BOOLEAN
  /\ asked \subseteq Int \X Int /\ held \subseteq Int \X Int

-----------------------------------------------------------------------------
(* The calls of tickit_rectset_add that are to be made. *)
Continue(calls) == adds' = calls /\ grown' = Block(calls)

SetOnly == UNCHANGED <<fn, arg, at, part, answer, asked, held>>

(* One turn of the innermost tickit_rectset_add. *)
AddStep ==
  LET now  == [rects |-> rects, adds |-> adds, grown |-> grown]
      next == Turn[now]
  IN  /\ adds # <<>>
      /\ rects' = next.rects /\ adds' = next.adds /\ grown' = next.grown
      /\ SetOnly

(* A call begins, and returns. *)
Begin(name, r) ==
  /\ fn = "none"
  /\ fn' = name /\ arg' = r
  /\ held' = CellsOf(rects)
  /\ UNCHANGED rects

Return ==
  /\ fn' = "none" /\ arg' = Nowhere /\ part' = Nowhere
  /\ at' = 0 /\ answer' = FALSE /\ held' = {}
  /\ UNCHANGED <<rects, adds, grown>>

BeginAdd(r) ==
  /\ Len(rects) < MaxRects
  /\ Begin("add", r)
  /\ Continue(<<r>>)
  /\ asked' = asked \cup CellsIn(r)
  /\ UNCHANGED <<at, part, answer>>

AddEnds ==
  /\ fn = "add" /\ adds = <<>>
  /\ Return /\ UNCHANGED asked

-----------------------------------------------------------------------------
(* tickit_rectset_subtract: a rectangle that meets arg is taken out and    *)
(* what remains of it added back; the scan goes on at the same index.      *)
BeginSubtract(r) ==
  /\ Begin("subtract", r)
  /\ at' = 1
  /\ UNCHANGED <<adds, grown, part, answer, asked>>

Scanning == fn = "subtract" /\ adds = <<>>

Skip ==
  /\ Scanning /\ at <= Len(rects)
  /\ ~Intersects(rects[at], arg)
  /\ at' = at + 1
  /\ UNCHANGED <<rects, fn, arg, adds, grown, part, answer, asked, held>>

(* A bug for the mutant runs: the index is not set back after a deletion.  *)
CutAndSkip ==
  /\ Scanning /\ at <= Len(rects)
  /\ Intersects(rects[at], arg)
  /\ rects' = RemoveAt(rects, at)
  /\ Continue(Subtract(rects[at], arg))
  /\ at' = at + 1
  /\ UNCHANGED <<fn, arg, part, answer, asked, held>>

Cut ==
  /\ Scanning /\ at <= Len(rects)
  /\ Intersects(rects[at], arg)
  /\ rects' = RemoveAt(rects, at)
  /\ Continue(Subtract(rects[at], arg))
  /\ SetOnly

SubtractEnds ==
  /\ Scanning /\ at > Len(rects)
  /\ Return /\ asked' = asked \ CellsIn(arg)

-----------------------------------------------------------------------------
(* tickit_rectset_contains: the first rectangle that meets the part looked *)
(* up decides for the rows it has; the rows below it are looked up again,  *)
(* which the code does before it compares the rows above.                  *)
BeginContains(r) ==
  /\ Begin("contains", r)
  /\ part' = r
  /\ UNCHANGED <<adds, grown, at, answer, asked>>

Meets(i) ==
  /\ Intersects(rects[i], part)
  /\ \A j \in 1..i - 1 : ~Intersects(rects[j], part)

Begins(r) == part.top >= r.top /\ part.left >= r.left

Reaches(r) == Bottom(r) < Bottom(part)

Answer(truth) ==
  /\ fn' = "answered" /\ answer' = truth
  /\ UNCHANGED <<rects, arg, adds, grown, at, part, asked, held>>

MeetsNone ==
  /\ \A i \in DOMAIN rects : ~Intersects(rects[i], part)
  /\ Answer(FALSE)

MeetsLate(i) == Meets(i) /\ ~Begins(rects[i]) /\ Answer(FALSE)

MeetsLast(i) ==
  /\ Meets(i) /\ Begins(rects[i]) /\ ~Reaches(rects[i])
  /\ Answer(RectContains(rects[i], part))

LooksBelow(i) ==
  LET r == rects[i] IN
  /\ Meets(i) /\ Begins(r) /\ Reaches(r)
  /\ IF RectContains(r, StretchTo(part, Bottom(r)))
     THEN /\ part' = InitBounded(Bottom(r), part.left, Bottom(part), Right(part))
          /\ UNCHANGED <<rects, fn, arg, adds, grown, at, answer, asked, held>>
     ELSE Answer(FALSE)

LookUp ==
  /\ fn = "contains"
  /\ MeetsNone \/ \E i \in DOMAIN rects : MeetsLate(i) \/ MeetsLast(i) \/ LooksBelow(i)

ContainsEnds == fn = "answered" /\ Return /\ UNCHANGED asked

SetIntersects(s, r) == \E i \in DOMAIN s : Intersects(s[i], r)

-----------------------------------------------------------------------------
TranslateAll(s, downward, rightward) ==
  [i \in DOMAIN s |-> Translate(s[i], downward, rightward)]

(* Translations that stay on the grid.                                     *)
Shift(downward, rightward) ==
  /\ fn = "none" /\ rects # <<>>
  /\ rects' = TranslateAll(rects, downward, rightward)
  /\ \A i \in DOMAIN rects' : rects'[i] \in GridRects
  /\ LET moved == {<<x[1] + downward, x[2] + rightward>> : x \in asked}
     IN  asked' = moved \cap (0..Lines - 1) \X (0..Cols - 1)
  /\ UNCHANGED <<fn, arg, adds, grown, at, part, answer, held>>

Clear ==
  /\ fn = "none" /\ rects # <<>>
  /\ rects' = <<>> /\ asked' = {}
  /\ UNCHANGED <<fn, arg, adds, grown, at, part, answer, held>>

Init ==                                 \* tickit_rectset_new
  /\ rects = <<>> /\ adds = <<>>
  /\ fn = "none" /\ arg = Nowhere /\ grown = Nowhere /\ part = Nowhere
  /\ at = 0 /\ answer = FALSE
  /\ asked = {} /\ held = {}

Next ==
  \/ \E r \in GridRects : BeginAdd(r) \/ BeginSubtract(r) \/ BeginContains(r)
  \/ AddStep \/ AddEnds
  \/ Skip \/ Cut \/ SubtractEnds
  \/ LookUp \/ ContainsEnds
  \/ \E d, e \in {-1, 0, 1} : Shift(d, e)
  \/ Clear

Spec == Init /\ [][Next]_vars

-----------------------------------------------------------------------------
(* The array stays in cmprect order, which the early exits of add and      *)
(* contains rely on, and no two rectangles share a cell, so that a flush   *)
(* exposes no cell twice.                                                  *)
OrderedDisjoint ==
  \A i, j \in DOMAIN rects : i < j =>
    /\ After(rects[j], rects[i])
    /\ ~Intersects(rects[i], rects[j])

(* No cell is in the set that nobody added.                                *)
NothingExtra == CellsOf(rects) \subseteq asked

(* tickit_rectset_contains answers whether the set covers the rectangle,   *)
(* also when it is covered by several rectangles together: expose skips    *)
(* the damage on a true answer.  tickit_rectset_intersects answers whether *)
(* they have a cell in common.                                             *)
QueriesAgree ==
  /\ fn = "answered" => (answer <=> CellsIn(arg) \subseteq CellsOf(rects))
  /\ fn = "none" =>
       \A r \in GridRects :
         SetIntersects(rects, r) <=> CellsIn(r) \cap CellsOf(rects) # {}

(* Subtracting a rectangle from whatever set the calls so far have left    *)
(* removes its cells and no others, although the remains of the rectangles *)
(* it cuts go through the same add that can drop cells.                    *)
SubtractKeepsRest ==
  Scanning /\ at > Len(rects) => CellsOf(rects) = held \ CellsIn(arg)

(* "Already entirely covered, just return" (rectset.c:114): nothing that   *)
(* was added is missing from the set.                                      *)
NothingLost == fn = "none" => asked \subseteq CellsOf(rects)
=============================================================================
