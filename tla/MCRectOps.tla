------------------------------ MODULE MCRectOps ------------------------------
(* Every pair of rectangles of a 4 x 4 grid, looked at cell by cell.       *)
EXTENDS RectOps

MCRows    == 0..3
MCColumns == 0..3
=============================================================================
