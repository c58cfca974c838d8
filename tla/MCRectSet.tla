------------------------------ MODULE MCRectSet ------------------------------
(* Any calls on the rectangles of a small grid, as long as an add finds at *)
(* most two rectangles in the set.                                         *)
EXTENDS RectSet
=============================================================================
