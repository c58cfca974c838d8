------------------------------- MODULE TermPen -------------------------------
(***************************************************************************)
(* The pen of the terminal: tickit_term_chpen and tickit_term_setpen       *)
(* (terminal/libtickit/term.c 818-871), which keep in tt->pen what the     *)
(* terminal was last told, and the drivers' chpen, which tell it the       *)
(* difference (termdriver-xterm.c 211-291, termdriver-ti.c 306-344).       *)
(*                                                                         *)
(* The terminal is external: it reads SGR parameters one by one.           *)
(***************************************************************************)
EXTENDS Pen, Sequences

CONSTANTS
  TiColours,     \* the colours of a terminal that terminfo drives
  Reduced,       \* convert_colour: the table xterm256, for this many colours
  AppPens        \* the pens the application uses

ASSUME TermPenAssumption ==
  /\ TiColours \in Nat /\ TiColours >= 8
  /\ \A c \in DOMAIN Reduced : Reduced[c] \in 0..TiColours - 1
  /\ AppPens \subseteq Pens
  /\ \A p \in AppPens, a \in ColourAttrs :
       /\ Get(p, a) < 256
       /\ Get(p, a) >= TiColours => Get(p, a) \in DOMAIN Reduced
  /\ \A p \in AppPens, a \in BoolAttrs : Get(p, a) \in 0..1

VARIABLES
  driver,        \* tt->driver: "xterm" or "terminfo"
  pen,           \* tt->pen
  count,         \* SGR parameters the last call collected
  shown,         \* external: the attributes the terminal writes with
  asked          \* ghost: what the application asked for last, by attribute

vars == <<driver, pen, count, shown, asked>>

-----------------------------------------------------------------------------
(* tt->colors, which the driver tells once, in tickit_term_new_for_driver. *)
Colours == IF driver = "xterm" THEN 256 ELSE TiColours

(* A bug for the mutant runs: colours are cached as asked for.             *)
TargetUnreduced(a, value) == value

(* The value an attribute gets: colours beyond the terminal's are replaced. *)
Target(a, value) ==
  IF a \in ColourAttrs /\ value >= Colours THEN Reduced[value] ELSE value

(* The terminal was told this value already.                               *)
Known(p, a) == Has(pen, a) /\ EquivAttr(pen, p, a)

Delta(p, attrs) ==
  [a \in Attrs |-> IF a \in attrs /\ ~Known(p, a) THEN Target(a, Get(p, a))
                   ELSE Unset]

(* A bug for the mutant runs: attributes set already are kept.             *)
UpdatedOnce(delta) == CopyPen(pen, delta, FALSE)

Updated(delta) == [a \in Attrs |-> IF Has(delta, a) THEN delta[a] ELSE pen[a]]

-----------------------------------------------------------------------------
(* xterm: chpen collects SGR parameters.                                   *)
SgrOn ==
  [a \in Attrs |-> CASE a = "fg" -> 30 [] a = "bg" -> 40 [] a = "bold" -> 1
                     [] a = "under" -> 4 [] a = "italic" -> 3
                     [] a = "reverse" -> 7 [] a = "strike" -> 9
                     [] a = "altfont" -> 10 [] a = "blink" -> 5]

SgrOff ==
  [a \in Attrs |-> CASE a = "fg" -> 39 [] a = "bg" -> 49 [] a = "bold" -> 22
                     [] a = "under" -> 24 [] a = "italic" -> 23
                     [] a = "reverse" -> 27 [] a = "strike" -> 29
                     [] a = "altfont" -> 10 [] a = "blink" -> 25]

ColourParams(a, value) ==
  CASE value < 0   -> <<SgrOff[a]>>
    [] value \in 0..7  -> <<SgrOn[a] + value>>
    [] value \in 8..15 -> <<SgrOn[a] + 60 + value - 8>>
    [] OTHER       -> <<SgrOn[a] + 8, 5, value>>

AttrParams(a, value) ==
  CASE a \in ColourAttrs -> ColourParams(a, value)
    [] a = "altfont" -> <<IF value \in 0..9 THEN SgrOn[a] + value ELSE SgrOff[a]>>
    [] OTHER -> <<IF value = 1 THEN SgrOn[a] ELSE SgrOff[a]>>

Chunk(delta, a) == IF Has(delta, a) THEN AttrParams(a, delta[a]) ELSE <<>>

(* In the order of TickitPenAttr.                                          *)
Params(delta) ==
  Chunk(delta, "fg") \o Chunk(delta, "bg") \o Chunk(delta, "bold")
    \o Chunk(delta, "under") \o Chunk(delta, "italic")
    \o Chunk(delta, "reverse") \o Chunk(delta, "strike")
    \o Chunk(delta, "altfont") \o Chunk(delta, "blink")

-----------------------------------------------------------------------------
(* External: what a terminal makes of SGR parameters.  expect is the       *)
(* colour of a parameter 38 or 48, and what it still waits for.            *)
AllOff == [a \in Attrs |-> IF a = "altfont" THEN 0 ELSE Default(a)]

SgrStep(s, n) ==
  LET set(a, value) == [s EXCEPT !.look[a] = value]
  IN  CASE s.expect = "kind"  -> [s EXCEPT !.expect = "index"]
        [] s.expect = "index" -> [set(s.colour, n) EXCEPT !.expect = "none"]
        [] OTHER ->
             CASE n \in {38, 48} -> [s EXCEPT !.expect = "kind",
                                             !.colour = IF n = 38 THEN "fg" ELSE "bg"]
               [] n \in 30..37   -> set("fg", n - 30)
               [] n \in 40..47   -> set("bg", n - 40)
               [] n \in 90..97   -> set("fg", n - 82)
               [] n \in 100..107 -> set("bg", n - 92)
               [] n \in {39, 49} -> set(IF n = 39 THEN "fg" ELSE "bg", -1)
               [] n \in 10..19   -> set("altfont", n - 10)
               [] OTHER ->
                    LET a == CHOOSE b \in BoolAttrs : n \in {SgrOn[b], SgrOff[b]}
                    IN  set(a, IF n = SgrOn[a] THEN 1 ELSE 0)

(* What a terminal in state s is after these parameters.                   *)
Read(s, params) ==
  LET read[i \in 0..Len(params)] ==
        IF i = 0 THEN s ELSE SgrStep(read[i - 1], params[i])
  IN  read[Len(params)]

Obeyed(params) ==
  Read([look |-> shown, expect |-> "none", colour |-> "fg"], params).look

(* What an attribute looks like when it has this value.                    *)
Look(a, value) ==
  CASE a = "altfont" -> IF value \in 0..9 THEN value ELSE 0
    [] a \in ColourAttrs -> IF value < 0 THEN -1 ELSE value
    [] OTHER -> value

-----------------------------------------------------------------------------
(* A bug for the mutant runs: the difference decides on the empty SGR.     *)
XTermByDelta(delta, final) ==
  IF Params(delta) = <<>> THEN shown
  ELSE IF ~IsNondefault(delta) THEN AllOff
  ELSE Obeyed(Params(delta))

(* The xterm driver's chpen: an empty SGR resets all attributes.           *)
XTermChpen(delta, final) ==
  IF Params(delta) = <<>> THEN shown
  ELSE IF ~IsNondefault(final) THEN AllOff
  ELSE Obeyed(Params(delta))

(* A bug for the mutant runs: only a changed colour is written.            *)
TerminfoByDelta(delta, final) ==
  [a \in Attrs |->
     CASE a \in ColourAttrs -> IF Has(delta, a) THEN delta[a] ELSE -1
       [] a \in {"italic", "altfont", "strike"} -> AllOff[a]
       [] OTHER -> Get(final, a)]

(* The terminfo driver's chpen: sgr sets the attributes it knows, and      *)
(* resets all others, so that colours are written again; italics are only  *)
(* when they are part of the difference.                                   *)
TerminfoChpen(delta, final) ==
  [a \in Attrs |->
     CASE a \in ColourAttrs -> IF Get(final, a) < Colours THEN Get(final, a) ELSE -1
       [] a = "italic" -> Get(delta, a)
       [] a \in {"altfont", "strike"} -> AllOff[a]
       [] OTHER -> Get(final, a)]

(* What both functions do, for the attributes they look at.                *)
Write(p, attrs) ==
  LET delta == Delta(p, attrs)
      final == Updated(delta)
  IN  /\ pen' = final
      /\ count' = Len(Params(delta))
      /\ shown' = IF driver = "xterm" THEN XTermChpen(delta, final)
                  ELSE TerminfoChpen(delta, final)
      /\ UNCHANGED driver

(* A bug for the mutant runs: attributes the pen has not are left alone.   *)
SetpenOfSet(p) ==
  /\ Write(p, {a \in Attrs : Has(p, a)})
  /\ asked' = [a \in Attrs |-> Get(p, a)]

(* tickit_term_setpen: all attributes; those p has not become default.     *)
Setpen(p) ==
  /\ Write(p, Attrs)
  /\ asked' = [a \in Attrs |-> Get(p, a)]

(* tickit_term_chpen: only the attributes p has.                           *)
Chpen(p) ==
  /\ Write(p, {a \in Attrs : Has(p, a)})
  /\ asked' = [a \in Attrs |-> IF Has(p, a) THEN p[a] ELSE asked[a]]

(* tickit_term_new_for_driver: nothing is known of the terminal.           *)
Init ==
  /\ driver \in {"xterm", "terminfo"}
  /\ pen = EmptyPen
  /\ count = 0
  /\ shown \in {AllOff, [AllOff EXCEPT !["bold"] = 1, !["fg"] = 1]}
  /\ asked = EmptyPen

Next == \E p \in AppPens : Setpen(p) \/ Chpen(p)

Spec == Init /\ [][Next]_vars

-----------------------------------------------------------------------------
(* No colour in tt->pen is beyond those of the terminal, whatever is asked *)
(* for: the xterm driver writes the colour it is given without a look, and *)
(* terminfo's leaves one it does not have out, which ends in the default.  *)
ColoursKnown == \A a \in ColourAttrs : Get(pen, a) < Colours

(* tt->pen has every attribute the application ever asked for, with the    *)
(* value it asked for last or the nearest the terminal can show.  What the *)
(* drivers leave out is left out because of that.                          *)
PenCurrent ==
  \A a \in Attrs :
    IF Has(asked, a) THEN pen[a] = Target(a, asked[a]) ELSE ~Has(pen, a)

(* xterm's terminal writes with the attributes asked for last, whatever    *)
(* it wrote with before, whichever attributes were written as a difference *)
(* and however often an empty SGR took the place of many.                  *)
XTermShows ==
  driver = "xterm" =>
    \A a \in Attrs : Has(asked, a) => shown[a] = Look(a, Target(a, asked[a]))

(* The same for the attributes that terminfo's sgr and colours set.        *)
TerminfoShows ==
  driver = "terminfo" =>
    \A a \in {"fg", "bg", "bold", "under", "reverse", "blink"} :
      Has(asked, a) => shown[a] = Target(a, asked[a])

(* "There can be at most 12 SGR parameters; 3 from each of 2 colours, and  *)
(* 6 single attributes" (termdriver-xterm.c 213-214): the array of 12 that *)
(* chpen collects them in is not exceeded.                                 *)
ParamsFit == count <= 12
=============================================================================
