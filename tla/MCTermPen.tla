------------------------------ MODULE MCTermPen ------------------------------
(* Pens of two colours, a truth value and a font.                          *)
EXTENDS TermPen

SomePens ==
  {[a \in Attrs |-> IF a \in DOMAIN v THEN v[a] ELSE Unset] :
     v \in [fg : {Unset, -1, 200}, bg : {Unset, 9, 200}, bold : {Unset, 0, 1},
            altfont : {Unset, 2, 10}]}

(* xterm-palette.inc: as8 of colours 9 and 200.                            *)
AsEight == [c \in {9, 200} |-> IF c = 9 THEN 1 ELSE 5]
=============================================================================
