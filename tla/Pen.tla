--------------------------------- MODULE Pen ---------------------------------
(***************************************************************************)
(* The attributes of a pen (terminal/libtickit/pen.c).  A pen is the       *)
(* function from attributes to values, Unset where the valid bit is off;   *)
(* truth values are 0 and 1.                                               *)
(***************************************************************************)
EXTENDS Integers

CONSTANT Unset

ASSUME UnsetAssumption == Unset \notin Int

ColourAttrs == {"fg", "bg"}
BoolAttrs   == {"bold", "under", "italic", "reverse", "strike", "blink"}
Attrs       == ColourAttrs \cup BoolAttrs \cup {"altfont"}

Pens == [Attrs -> Int \cup {Unset}]

EmptyPen == [a \in Attrs |-> Unset]

Has(pen, a) == pen[a] # Unset

Default(a) == IF a \in BoolAttrs THEN 0 ELSE -1

(* tickit_pen_get_bool_attr, _int_attr and _colour_attr.                   *)
Get(pen, a) == IF Has(pen, a) THEN pen[a] ELSE Default(a)

(* tickit_pen_equiv_attr: an unset attribute is as good as a default one.  *)
EquivAttr(p, q, a) == Get(p, a) = Get(q, a)

IsNondefault(pen) == \E a \in Attrs : Has(pen, a) /\ pen[a] > Default(a)

(* tickit_pen_copy: attributes only in src, and with overwrite those that  *)
(* differ, are taken over.                                                 *)
CopyPen(dst, src, overwrite) ==
  [a \in Attrs |->
     IF /\ Has(src, a)
        /\ Has(dst, a) => overwrite /\ ~EquivAttr(src, dst, a)
     THEN src[a] ELSE dst[a]]
=============================================================================
