------------------------------- MODULE RectOps -------------------------------
(***************************************************************************)
(* A caller of the rectangle arithmetic with two rectangles in hand: each  *)
(* step calls one function of rect.c on them and keeps what it returned,   *)
(* so that the result can be compared, cell by cell, with the set          *)
(* operation it stands for.                                                *)
(***************************************************************************)
EXTENDS Rect

CONSTANTS Rows,      \* the lines of the cells looked at
          Columns    \* the columns of the cells looked at

ASSUME CellsAssumption == Rows \subseteq Int /\ Columns \subseteq Int

VARIABLES op,        \* the function called last
          a, b,      \* its operands
          pieces,    \* the rectangles it returned
          truth      \* the boolean it returned

opsVars == <<op, a, b, pieces, truth>>

OpsTypeOK ==
  /\ op \in {"none", "subtract", "add", "intersect", "contains"}
  /\ a \in RectType /\ b \in RectType
  /\ NonEmpty(a) /\ NonEmpty(b)
  /\ pieces \in Seq(RectType)
  /\ truth \in BOOLEAN

(* The blocks of cells of the window Rows \X Columns, given by corners.    *)
Blocks == {r \in {InitBounded(t, l, m + 1, n + 1) :
                    t \in Rows, l \in Columns, m \in Rows, n \in Columns} :
             NonEmpty(r)}

OpsInit ==
  /\ op = "none"
  /\ a \in Blocks /\ b \in Blocks
  /\ pieces = <<>> /\ truth = TRUE

CallSubtract ==
  /\ op' = "subtract"
  /\ pieces' = Subtract(a, b) /\ truth' = TRUE
  /\ UNCHANGED <<a, b>>

CallAdd ==
  /\ op' = "add"
  /\ pieces' = RectAdd(a, b) /\ truth' = TRUE
  /\ UNCHANGED <<a, b>>

(* dst is written only when the function returns true.                     *)
CallIntersect ==
  /\ op' = "intersect"
  /\ truth' = HasIntersection(a, b)
  /\ pieces' = When(truth', Intersection(a, b))
  /\ UNCHANGED <<a, b>>

CallContains ==
  /\ op' = "contains"
  /\ pieces' = <<>> /\ truth' = RectContains(a, b)
  /\ UNCHANGED <<a, b>>

OpsNext == CallSubtract \/ CallAdd \/ CallIntersect \/ CallContains

OpsSpec == OpsInit /\ [][OpsNext]_opsVars

-----------------------------------------------------------------------------
(* tickit_rect_subtract leaves exactly the cells of orig outside the hole: *)
(* a cell missed is never repainted, one too many is painted twice.        *)
SubtractExact ==
  op = "subtract" =>
    \A l \in Rows, c \in Columns :
      InSome(l, c, pieces) <=> InRect(l, c, a) /\ ~InRect(l, c, b)

(* tickit_rect_add returns rectangles that cover exactly the two operands, *)
(* whether they overlap, touch along an edge or are apart.                 *)
AddExact ==
  op = "add" =>
    \A l \in Rows, c \in Columns :
      InSome(l, c, pieces) <=> InRect(l, c, a) \/ InRect(l, c, b)

(* The rectangles either function returns never overlap one another and    *)
(* are never empty, except that operands of tickit_rect_add come back as   *)
(* they are when they are apart.                                           *)
PiecesDisjoint ==
  op \in {"subtract", "add"} =>
    /\ \A i, j \in DOMAIN pieces : i # j => ~Intersects(pieces[i], pieces[j])
    /\ \A i \in DOMAIN pieces : NonEmpty(pieces[i])

(* The callers' arrays are long enough: rectset.c gives tickit_rect_add 3  *)
(* places (line 143) and tickit_rect_subtract 4 (line 168).                *)
PiecesFit ==
  /\ op = "add" => Len(pieces) <= 3
  /\ op = "subtract" => Len(pieces) <= 4

(* What is asked of two rectangles is answered by their cells:             *)
(* tickit_rect_intersect and tickit_rect_intersects agree on whether they  *)
(* meet, and the rectangle written holds exactly the common cells;         *)
(* tickit_rect_contains says true exactly when every cell of the second is *)
(* one of the first, on which answer its callers skip work.                *)
OverlapExact ==
  /\ op = "intersect" =>
       /\ truth = Intersects(a, b)
       /\ \A l \in Rows, c \in Columns :
            InSome(l, c, pieces) <=> InRect(l, c, a) /\ InRect(l, c, b)
  /\ op = "contains" =>
       (truth <=> \A l \in a.top..Bottom(a) \cup b.top..Bottom(b),
                     c \in a.left..Right(a) \cup b.left..Right(b) :
                    InRect(l, c, b) => InRect(l, c, a))
=============================================================================
