----------------------------- MODULE TermPenProofs -----------------------------
(***************************************************************************)
(* tt->pen follows what the application asks for, for any pens, any number *)
(* of colours and any table of replacements.                               *)
(***************************************************************************)
EXTENDS TermPen, Induction, TLAPS

(* The types of the pens, and colours that the terminal has.  What was     *)
(* asked for is a number, and so is what stands for it.                    *)
PenTypes ==
  /\ pen \in Pens /\ asked \in Pens /\ ColoursKnown
  /\ \A a \in Attrs : Has(asked, a) => Has(pen, a)

LEMMA ColoursNat == Colours \in Nat /\ Colours >= 8
  BY TermPenAssumption DEF Colours

PenInv == PenTypes /\ PenCurrent

(* What a pen has for an attribute is a number, and what the terminal gets *)
(* for it is one of its colours, if it is a colour.                        *)
LEMMA TargetFits ==
  ASSUME NEW p \in AppPens, NEW a \in Attrs
  PROVE  /\ Get(p, a) \in Int
         /\ Target(a, Get(p, a)) \in Int
         /\ a \in ColourAttrs => Target(a, Get(p, a)) < Colours
         /\ a \in ColourAttrs /\ Get(p, a) < Colours
              => Target(a, Get(p, a)) = Get(p, a)
<1>1. Get(p, a) \in Int
  BY TermPenAssumption DEF Pens, Get, Has, Default
<1>2. CASE a \in ColourAttrs /\ Get(p, a) >= Colours
  <2>1. Get(p, a) < 256
    BY <1>2, TermPenAssumption
  <2>2. Colours = TiColours
    BY <1>1, <1>2, <2>1 DEF Colours
  <2>3. Reduced[Get(p, a)] \in 0..Colours - 1
    BY <1>2, <2>2, TermPenAssumption
  <2> QED BY <1>1, <1>2, <2>3, ColoursNat DEF Target
<1>3. CASE ~(a \in ColourAttrs /\ Get(p, a) >= Colours)
  BY <1>1, <1>3, ColoursNat DEF Target
<1> QED BY <1>2, <1>3

LEMMA PenInvInit == Init => PenInv
  BY UnsetAssumption, ColoursNat
  DEF Init, PenInv, PenTypes, ColoursKnown, PenCurrent, EmptyPen, Pens, Has,
      Get, Default, ColourAttrs, BoolAttrs, Attrs

(* A terminal keeps its driver, and the number of its colours with it.     *)
LEMMA WriteKeeps ==
  ASSUME NEW p \in AppPens, NEW attrs \in SUBSET Attrs, Write(p, attrs)
  PROVE  Colours' = Colours
  BY DEF Write, Colours

(* One attribute after Write: told now, or told before, or not looked at.  *)
LEMMA WriteOne ==
  ASSUME PenInv, NEW p \in AppPens, NEW attrs \in SUBSET Attrs, Write(p, attrs),
         NEW a \in Attrs
  PROVE  /\ a \in attrs => pen'[a] = Target(a, Get(p, a))
         /\ a \notin attrs => pen'[a] = pen[a]
<1>1. pen' = Updated(Delta(p, attrs))
  BY DEF Write
<1>2. pen'[a] = IF a \in attrs /\ ~Known(p, a) /\ Target(a, Get(p, a)) # Unset
                THEN Target(a, Get(p, a)) ELSE pen[a]
  BY <1>1 DEF Updated, Delta, Has
<1>3. Target(a, Get(p, a)) # Unset
  BY TargetFits, UnsetAssumption
<1>4. CASE a \in attrs /\ Known(p, a)
  <2>1. pen[a] = Get(p, a)
    BY <1>4 DEF Known, EquivAttr, Get, Has
  <2>2. a \in ColourAttrs => Get(p, a) < Colours
    BY <1>4, <2>1 DEF PenInv, PenTypes, ColoursKnown, Known, Get, Has
  <2>3. Target(a, Get(p, a)) = Get(p, a)
    BY <2>2, TargetFits DEF Target
  <2> QED BY <1>2, <1>4, <2>1, <2>3
<1> QED BY <1>2, <1>3, <1>4

LEMMA WriteTypes ==
  ASSUME PenInv, NEW p \in AppPens, NEW attrs \in SUBSET Attrs, Write(p, attrs)
  PROVE  /\ pen' \in Pens
         /\ \A a \in ColourAttrs : Get(pen, a)' < Colours
<1>1. \A a \in Attrs : pen'[a] \in Int \cup {Unset}
  BY WriteOne, TargetFits DEF PenInv, PenTypes, Pens
<1>2. pen' = [a \in Attrs |-> pen'[a]]
  BY DEF Write, Updated
<1>3. ASSUME NEW a \in ColourAttrs PROVE Get(pen, a)' < Colours
  <2>1. a \in Attrs /\ Default(a) = -1
    BY <1>3 DEF Attrs, ColourAttrs, BoolAttrs, Default
  <2>2. CASE a \in attrs
    BY <2>1, <2>2, WriteOne, TargetFits, UnsetAssumption DEF Get, Has
  <2>3. CASE a \notin attrs
    BY <2>1, <2>3, WriteOne DEF PenInv, PenTypes, ColoursKnown, Get, Has
  <2> QED BY <2>2, <2>3
<1> QED BY <1>1, <1>2, <1>3 DEF Pens

LEMMA PenInvStep == PenInv /\ [Next]_vars => PenInv'
<1> SUFFICES ASSUME PenInv, [Next]_vars PROVE PenInv'
  OBVIOUS
<1>1. ASSUME NEW p \in AppPens, Setpen(p) PROVE PenInv'
  <2>1. Write(p, Attrs) /\ asked' = [a \in Attrs |-> Get(p, a)]
    BY <1>1 DEF Setpen
  <2>2. \A a \in Attrs : asked'[a] \in Int /\ pen'[a] = Target(a, asked'[a])
    BY <2>1, WriteOne, TargetFits
  <2>3. PenTypes'
    <3>1. \A a \in Attrs : Has(pen', a)
      BY <2>1, <2>2, WriteOne, TargetFits, UnsetAssumption DEF Has
    <3> QED BY <2>1, <2>2, <3>1, WriteTypes, WriteKeeps
            DEF PenTypes, ColoursKnown, Pens, Has
  <2>4. PenCurrent'
    BY <2>1, <2>2, UnsetAssumption, WriteKeeps DEF PenCurrent, Has, Target
  <2> QED BY <2>3, <2>4 DEF PenInv
<1>2. ASSUME NEW p \in AppPens, Chpen(p) PROVE PenInv'
  <2> DEFINE some == {a \in Attrs : Has(p, a)}
  <2>1. /\ Write(p, some)
        /\ asked' = [a \in Attrs |-> IF Has(p, a) THEN p[a] ELSE asked[a]]
    BY <1>2 DEF Chpen
  <2>2. \A a \in some : /\ asked'[a] = Get(p, a)
                        /\ asked'[a] \in Int
                        /\ pen'[a] = Target(a, asked'[a])
    BY <2>1, WriteOne, TargetFits DEF Get
  <2>3. \A a \in Attrs \ some : asked'[a] = asked[a] /\ pen'[a] = pen[a]
    BY <2>1, WriteOne
  <2>4. PenTypes'
    <3>1. asked' \in Pens
      BY <2>1, <2>2, <2>3 DEF PenInv, PenTypes, Pens
    <3>2. \A a \in some : Has(pen', a)
      BY <2>1, WriteOne, TargetFits, UnsetAssumption DEF Has
    <3>3. \A a \in Attrs : Has(asked', a) => Has(pen', a)
      BY <2>3, <3>2 DEF PenInv, PenTypes, Has
    <3> QED BY <2>1, <3>1, <3>3, WriteTypes, WriteKeeps
            DEF PenTypes, ColoursKnown, Has
  <2>5. PenCurrent'
    BY <2>1, <2>2, <2>3, UnsetAssumption, WriteKeeps
    DEF PenInv, PenCurrent, Has, Target
  <2> QED BY <2>4, <2>5 DEF PenInv
<1>3. CASE UNCHANGED vars
  BY <1>3 DEF vars, PenInv, PenTypes, ColoursKnown, PenCurrent, Has, Get, Target,
              Colours
<1> QED BY <1>1, <1>2, <1>3 DEF Next

(* What the terminal writes with, when terminfo drives it: sgr and the     *)
(* colours are written whole at each call, so that one call is enough.     *)
LEMMA TerminfoWrites ==
  ASSUME NEW p \in AppPens, NEW attrs \in SUBSET Attrs, Write(p, attrs),
         driver = "terminfo", PenTypes', PenCurrent',
         NEW a \in {"fg", "bg", "bold", "under", "reverse", "blink"}, Has(asked, a)'
  PROVE  shown'[a] = Target(a, asked[a])'
<1>1. /\ shown' = TerminfoChpen(Delta(p, attrs), pen')
      /\ Colours' = Colours
  BY DEF Write, Colours
<1>2. a \in Attrs /\ a \notin {"italic", "altfont", "strike"}
  BY DEF Attrs, ColourAttrs, BoolAttrs
<1>3. pen'[a] = Target(a, asked[a])'
  BY <1>2 DEF PenCurrent
<1>4. Get(pen', a) = pen'[a]
  BY <1>2 DEF PenTypes, Get, Has
<1>5. a \in ColourAttrs => Get(pen', a) < Colours
  BY <1>1 DEF PenTypes, ColoursKnown
<1> QED BY <1>1, <1>2, <1>3, <1>4, <1>5 DEF TerminfoChpen

(* A terminal reads parameters one by one.                                 *)
LEMMA ReadOnes ==
  ASSUME NEW s, NEW params \in Seq(Int)
  PROVE  \E read :
           /\ read[0] = s
           /\ \A i \in 1..Len(params) : read[i] = SgrStep(read[i - 1], params[i])
           /\ Read(s, params) = read[Len(params)]
<1> DEFINE IsRead(h, k) ==
             h = [i \in 0..k |-> IF i = 0 THEN s ELSE SgrStep(h[i - 1], params[i])]
           some == {k \in Nat : \E h : IsRead(h, k)}
<1>1. 0 \in some
  <2>1. IsRead([i \in 0..0 |-> s], 0)
    OBVIOUS
  <2> QED BY <2>1
<1>2. ASSUME NEW n \in Nat, n \in some PROVE n + 1 \in some
  <2>1. PICK f : IsRead(f, n)
    BY <1>2
  <2> DEFINE g == [i \in 0..n + 1 |-> IF i = n + 1 THEN SgrStep(f[n], params[n + 1])
                                     ELSE f[i]]
  <2>2. ASSUME NEW i \in 0..n + 1
        PROVE  g[i] = IF i = 0 THEN s ELSE SgrStep(g[i - 1], params[i])
    <3>1. CASE i = n + 1
      BY <3>1
    <3>2. CASE i # n + 1
      <4>1. i \in 0..n /\ (i # 0 => i - 1 \in 0..n /\ i - 1 # n + 1)
        BY <3>2
      <4>2. f[i] = IF i = 0 THEN s ELSE SgrStep(f[i - 1], params[i])
        BY <2>1, <4>1
      <4> QED BY <4>1, <4>2
    <3> QED BY <3>1, <3>2
  <2>3. IsRead(g, n + 1)
    BY <2>2
  <2>4. \E h : IsRead(h, n + 1)
    <3> HIDE DEF IsRead, g
    <3> QED BY <2>3
  <2> HIDE DEF IsRead
  <2> QED BY <2>4
<1>3. Len(params) \in some
  <2> HIDE DEF some
  <2> QED BY <1>1, <1>2, SetInduction
<1> DEFINE read == CHOOSE h : IsRead(h, Len(params))
<1>4. IsRead(read, Len(params))
  BY <1>3
<1>5. Read(s, params) = read[Len(params)]
  BY DEF Read
<1>6. ASSUME NEW i \in 0..Len(params)
      PROVE  read[i] = IF i = 0 THEN s ELSE SgrStep(read[i - 1], params[i])
  <2> HIDE DEF read
  <2> QED BY <1>4
<1>7. /\ read[0] = s
      /\ \A i \in 1..Len(params) : read[i] = SgrStep(read[i - 1], params[i])
  <2> HIDE DEF read
  <2> QED BY <1>6
<1> HIDE DEF read
<1> QED BY <1>5, <1>7

(* It does not matter where a stream of parameters is cut.                 *)
LEMMA ReadAppend ==
  ASSUME NEW s, NEW P \in Seq(Int), NEW Q \in Seq(Int)
  PROVE  Read(s, P \o Q) = Read(Read(s, P), Q)
<1> DEFINE m == Len(P)
           n == Len(Q)
           all == P \o Q
<1>1. /\ m \in Nat /\ n \in Nat /\ all \in Seq(Int) /\ Len(all) = m + n
      /\ \A i \in 1..m : all[i] = P[i]
      /\ \A i \in 1..n : all[m + i] = Q[i]
  OBVIOUS
<1>2. PICK f : /\ f[0] = s
               /\ \A i \in 1..m : f[i] = SgrStep(f[i - 1], P[i])
               /\ Read(s, P) = f[m]
  BY ReadOnes
<1>3. PICK g : /\ g[0] = f[m]
               /\ \A i \in 1..n : g[i] = SgrStep(g[i - 1], Q[i])
               /\ Read(f[m], Q) = g[n]
  BY ReadOnes
<1>4. PICK h : /\ h[0] = s
               /\ \A i \in 1..Len(all) : h[i] = SgrStep(h[i - 1], all[i])
               /\ Read(s, all) = h[Len(all)]
  BY <1>1, ReadOnes
<1> HIDE DEF m, n, all
<1>5. h[m] = f[m]
  <2> DEFINE same == {i \in Nat : h[i] = f[i]}
  <2>1. 0 \in same
    BY <1>2, <1>4
  <2>2. ASSUME NEW i \in 0..m - 1, i \in same PROVE i + 1 \in same
    <3>1. i + 1 \in 1..m /\ i + 1 \in 1..Len(all) /\ (i + 1) - 1 = i /\ i + 1 \in Nat
      BY <1>1
    <3>2. h[i + 1] = SgrStep(h[i], P[i + 1]) /\ f[i + 1] = SgrStep(f[i], P[i + 1])
      BY <1>1, <1>2, <1>4, <3>1
    <3> QED BY <2>2, <3>1, <3>2
  <2>3. m \in same
    <3>1. \A i \in 0..m - 1 : i \in same => i + 1 \in same
      BY <2>2
    <3> HIDE DEF same
    <3>2. \A i \in 0..m : i \in same
      BY <1>1, <2>1, <3>1, BoundedInduction
    <3> QED BY <1>1, <3>2
  <2> QED BY <2>3
<1>6. h[m + n] = g[n]
  <2> DEFINE same == {i \in Nat : h[m + i] = g[i]}
  <2>1. 0 \in same
    BY <1>1, <1>3, <1>5
  <2>2. ASSUME NEW i \in 0..n - 1, i \in same PROVE i + 1 \in same
    <3>1. /\ i + 1 \in 1..n /\ m + (i + 1) \in 1..Len(all) /\ (i + 1) - 1 = i
          /\ (m + (i + 1)) - 1 = m + i /\ i + 1 \in Nat
      BY <1>1
    <3>2. /\ h[m + (i + 1)] = SgrStep(h[m + i], Q[i + 1])
          /\ g[i + 1] = SgrStep(g[i], Q[i + 1])
      BY <1>1, <1>3, <1>4, <3>1
    <3> QED BY <2>2, <3>1, <3>2
  <2>3. n \in same
    <3>1. \A i \in 0..n - 1 : i \in same => i + 1 \in same
      BY <2>2
    <3> HIDE DEF same
    <3>2. \A i \in 0..n : i \in same
      BY <1>1, <2>1, <3>1, BoundedInduction
    <3> QED BY <1>1, <3>2
  <2> QED BY <2>3
<1> QED BY <1>1, <1>2, <1>3, <1>4, <1>6 DEF all

LEMMA ReadFew ==
  ASSUME NEW s
  PROVE  /\ Read(s, <<>>) = s
         /\ \A x \in Int : Read(s, <<x>>) = SgrStep(s, x)
<1>1. Read(s, <<>>) = s
  <2>1. PICK ps : ps = <<>>
    OBVIOUS
  <2>2. ps \in Seq(Int) /\ Len(ps) = 0
    BY <2>1
  <2>3. PICK f : /\ f[0] = s
                 /\ \A i \in 1..Len(ps) : f[i] = SgrStep(f[i - 1], ps[i])
                 /\ Read(s, ps) = f[Len(ps)]
    BY <2>2, ReadOnes
  <2>4. Read(s, ps) = s
    BY <2>2, <2>3
  <2> QED BY <2>1, <2>4
<1>2. ASSUME NEW x \in Int PROVE Read(s, <<x>>) = SgrStep(s, x)
  <2>1. <<x>> \in Seq(Int) /\ Len(<<x>>) = 1 /\ <<x>>[1] = x /\ 1 \in 1..1 /\ 1 - 1 = 0
    OBVIOUS
  <2> DEFINE ps == <<x>>
  <2> HIDE DEF ps
  <2>2. PICK f : /\ f[0] = s
                 /\ \A i \in 1..Len(ps) : f[i] = SgrStep(f[i - 1], ps[i])
                 /\ Read(s, ps) = f[Len(ps)]
    <3>1. ps \in Seq(Int)
      BY <2>1 DEF ps
    <3> QED BY <3>1, ReadOnes
  <2>3. Len(ps) = 1 /\ ps[1] = x
    BY <2>1 DEF ps
  <2>4. f[1] = SgrStep(f[1 - 1], x)
    BY <2>2, <2>3
  <2>5. Read(s, ps) = SgrStep(s, x)
    BY <2>1, <2>2, <2>3, <2>4
  <2> QED BY <2>5 DEF ps
<1> QED BY <1>1, <1>2

LEMMA ReadThree ==
  ASSUME NEW s, NEW x \in Int, NEW y \in Int, NEW z \in Int
  PROVE  Read(s, <<x, y, z>>) = SgrStep(SgrStep(SgrStep(s, x), y), z)
<1>1. /\ <<x, y, z>> \in Seq(Int) /\ Len(<<x, y, z>>) = 3
      /\ <<x, y, z>>[1] = x /\ <<x, y, z>>[2] = y /\ <<x, y, z>>[3] = z
  OBVIOUS
<1> DEFINE ps == <<x, y, z>>
<1> HIDE DEF ps
<1>2. PICK f : /\ f[0] = s
               /\ \A i \in 1..Len(ps) : f[i] = SgrStep(f[i - 1], ps[i])
               /\ Read(s, ps) = f[Len(ps)]
  <2>1. ps \in Seq(Int)
    BY <1>1 DEF ps
  <2> QED BY <2>1, ReadOnes
<1>3. Len(ps) = 3 /\ ps[1] = x /\ ps[2] = y /\ ps[3] = z
  BY <1>1 DEF ps
<1>4. /\ f[1] = SgrStep(f[1 - 1], x) /\ f[2] = SgrStep(f[2 - 1], y)
      /\ f[3] = SgrStep(f[3 - 1], z) /\ 1 - 1 = 0 /\ 2 - 1 = 1 /\ 3 - 1 = 2
  BY <1>2, <1>3
<1>5. Read(s, ps) = SgrStep(SgrStep(SgrStep(s, x), y), z)
  BY <1>2, <1>3, <1>4
<1> QED BY <1>5 DEF ps

(* A terminal that is not in the middle of a colour of the palette.        *)
Readers == [look : [Attrs -> Int], expect : {"none"}, colour : ColourAttrs]

LEMMA SgrNumbers ==
  /\ SgrOn["fg"] = 30 /\ SgrOff["fg"] = 39 /\ SgrOn["bg"] = 40 /\ SgrOff["bg"] = 49
  /\ SgrOn["altfont"] = 10 /\ SgrOff["altfont"] = 10
  /\ SgrOn["bold"] = 1 /\ SgrOff["bold"] = 22
  /\ SgrOn["under"] = 4 /\ SgrOff["under"] = 24
  /\ SgrOn["italic"] = 3 /\ SgrOff["italic"] = 23
  /\ SgrOn["reverse"] = 7 /\ SgrOff["reverse"] = 27
  /\ SgrOn["strike"] = 9 /\ SgrOff["strike"] = 29
  /\ SgrOn["blink"] = 5 /\ SgrOff["blink"] = 25
BY DEF SgrOn, SgrOff, Attrs, ColourAttrs, BoolAttrs

SetLook(s, a, value) == [s EXCEPT !.look[a] = value]

LEMMA SetLookReads ==
  ASSUME NEW s \in Readers, NEW a \in Attrs, NEW value \in Int
  PROVE  /\ SetLook(s, a, value) \in Readers
         /\ SetLook(s, a, value).look = [s.look EXCEPT ![a] = value]
  BY DEF Readers, SetLook

(* One parameter, when no colour of the palette is being read.             *)
LEMMA ReadColour ==
  ASSUME NEW s \in Readers, NEW a \in ColourAttrs
  PROVE  /\ SgrStep(s, SgrOff[a]) = SetLook(s, a, -1)
         /\ \A v \in 0..7 : SgrStep(s, SgrOn[a] + v) = SetLook(s, a, v)
         /\ \A v \in 8..15 : SgrStep(s, SgrOn[a] + 60 + v - 8) = SetLook(s, a, v)
         /\ SgrStep(s, SgrOn[a] + 8) = [s EXCEPT !.expect = "kind", !.colour = a]
<1>0. s.expect # "kind" /\ s.expect # "index"
  BY DEF Readers
<1>1. CASE a = "fg"
  <2>0. SgrOn[a] = 30 /\ SgrOff[a] = 39
    BY <1>1, SgrNumbers
  <2>1. SgrStep(s, 39) = SetLook(s, a, -1)
    BY <1>0, <1>1 DEF SgrStep, SetLook
  <2>2. ASSUME NEW v \in 0..7 PROVE SgrStep(s, 30 + v) = SetLook(s, a, v)
    <3>1. 30 + v \in 30..37 /\ 30 + v \notin {38, 48} /\ (30 + v) - 30 = v
      OBVIOUS
    <3> QED BY <1>0, <1>1, <3>1 DEF SgrStep, SetLook
  <2>3. ASSUME NEW v \in 8..15 PROVE SgrStep(s, 30 + 60 + v - 8) = SetLook(s, a, v)
    <3> DEFINE n == 30 + 60 + v - 8
    <3>1. n \in 90..97 /\ n \notin {38, 48} /\ n \notin 30..37 /\ n \notin 40..47 /\ n - 82 = v
      OBVIOUS
    <3> HIDE DEF n
    <3> QED BY <1>0, <1>1, <3>1 DEF SgrStep, SetLook
  <2>4. SgrStep(s, 38) = [s EXCEPT !.expect = "kind", !.colour = a]
    BY <1>0, <1>1 DEF SgrStep
  <2> QED BY <2>0, <2>1, <2>2, <2>3, <2>4
<1>2. CASE a = "bg"
  <2>0. SgrOn[a] = 40 /\ SgrOff[a] = 49
    BY <1>2, SgrNumbers
  <2>1. SgrStep(s, 49) = SetLook(s, a, -1)
    BY <1>0, <1>2 DEF SgrStep, SetLook
  <2>2. ASSUME NEW v \in 0..7 PROVE SgrStep(s, 40 + v) = SetLook(s, a, v)
    <3>1. /\ 40 + v \in 40..47 /\ 40 + v \notin {38, 48} /\ 40 + v \notin 30..37
          /\ (40 + v) - 40 = v
      OBVIOUS
    <3> QED BY <1>0, <1>2, <3>1 DEF SgrStep, SetLook
  <2>3. ASSUME NEW v \in 8..15 PROVE SgrStep(s, 40 + 60 + v - 8) = SetLook(s, a, v)
    <3> DEFINE n == 40 + 60 + v - 8
    <3>1. /\ n \in 100..107 /\ n \notin {38, 48} /\ n \notin 30..37 /\ n \notin 40..47
          /\ n \notin 90..97 /\ n - 92 = v
      OBVIOUS
    <3> HIDE DEF n
    <3> QED BY <1>0, <1>2, <3>1 DEF SgrStep, SetLook
  <2>4. SgrStep(s, 48) = [s EXCEPT !.expect = "kind", !.colour = a]
    BY <1>0, <1>2 DEF SgrStep
  <2> QED BY <2>0, <2>1, <2>2, <2>3, <2>4
<1> QED BY <1>1, <1>2 DEF ColourAttrs

LEMMA ReadFont ==
  ASSUME NEW s \in Readers, NEW v \in 0..9
  PROVE  SgrStep(s, 10 + v) = SetLook(s, "altfont", v)
<1>1. s.expect # "kind" /\ s.expect # "index"
  BY DEF Readers
<1> DEFINE n == 10 + v
<1>2. /\ n \in 10..19 /\ n \notin {38, 48, 39, 49} /\ n \notin 30..37 /\ n \notin 40..47
      /\ n \notin 90..97 /\ n \notin 100..107 /\ n - 10 = v
  OBVIOUS
<1> HIDE DEF n
<1>3. SgrStep(s, n) = SetLook(s, "altfont", v)
  BY <1>1, <1>2 DEF SgrStep, SetLook
<1> QED BY <1>3 DEF n

LEMMA ReadBool ==
  ASSUME NEW s \in Readers, NEW a \in BoolAttrs, NEW n \in {SgrOn[a], SgrOff[a]}
  PROVE  SgrStep(s, n) = SetLook(s, a, IF n = SgrOn[a] THEN 1 ELSE 0)
<1>1. s.expect # "kind" /\ s.expect # "index"
  BY DEF Readers
<1>2. /\ n \notin {38, 48} /\ n \notin 30..37 /\ n \notin 40..47 /\ n \notin 90..97
      /\ n \notin 100..107 /\ n \notin {39, 49} /\ n \notin 10..19
  BY SgrNumbers DEF BoolAttrs
<1> DEFINE c == CHOOSE b \in BoolAttrs : n \in {SgrOn[b], SgrOff[b]}
<1>3. c = a
  <2>1. \A b \in BoolAttrs : n \in {SgrOn[b], SgrOff[b]} <=> b = a
    BY SgrNumbers DEF BoolAttrs
  <2> QED BY <2>1
<1>4. SgrStep(s, n) = [s EXCEPT !.look[c] = IF n = SgrOn[c] THEN 1 ELSE 0]
  BY <1>1, <1>2, Zenon DEF SgrStep
<1> HIDE DEF c
<1> QED BY <1>3, <1>4 DEF SetLook

(* Of each attribute's parameters the terminal makes what they mean, and   *)
(* then waits for none.                                                    *)
LEMMA ReadAttr ==
  ASSUME NEW s \in Readers, NEW a \in Attrs, NEW value \in Int,
         a \in BoolAttrs => value \in 0..1
  PROVE  /\ AttrParams(a, value) \in Seq(Int) /\ AttrParams(a, value) # <<>>
         /\ Read(s, AttrParams(a, value)) \in Readers
         /\ Read(s, AttrParams(a, value)).look = [s.look EXCEPT ![a] = Look(a, value)]
<1> DEFINE v == Look(a, value)
<1>1. v \in Int
  BY DEF Look, ColourAttrs
<1>2. ASSUME NEW n \in Int, AttrParams(a, value) = <<n>>,
             SgrStep(s, n) = SetLook(s, a, v)
      PROVE  /\ AttrParams(a, value) \in Seq(Int) /\ AttrParams(a, value) # <<>>
             /\ Read(s, AttrParams(a, value)) = SetLook(s, a, v)
  <2>1. Read(s, <<n>>) = SetLook(s, a, v)
    BY <1>2, ReadFew
  <2>2. <<n>> \in Seq(Int) /\ <<n>> # <<>>
    OBVIOUS
  <2> QED BY <1>2, <2>1, <2>2
<1>3. CASE a \in BoolAttrs
  <2> DEFINE n == IF value = 1 THEN SgrOn[a] ELSE SgrOff[a]
  <2>1. AttrParams(a, value) = <<n>>
    BY <1>3 DEF AttrParams, BoolAttrs, ColourAttrs
  <2>2. n \in Int /\ (n = SgrOn[a] <=> value = 1)
    BY <1>3, SgrNumbers DEF BoolAttrs
  <2>3. v = IF n = SgrOn[a] THEN 1 ELSE 0
    BY <1>3, <2>2 DEF Look, BoolAttrs, ColourAttrs
  <2>4. n \in {SgrOn[a], SgrOff[a]}
    OBVIOUS
  <2> HIDE DEF n, v
  <2>5. SgrStep(s, n) = SetLook(s, a, v)
    BY <1>3, <2>3, <2>4, ReadBool
  <2> QED BY <1>1, <1>2, <2>1, <2>2, <2>5, SetLookReads DEF v
<1>4. CASE a = "altfont"
  <2>1. AttrParams(a, value) = <<10 + v>>
    BY <1>4, SgrNumbers DEF AttrParams, ColourAttrs, Look
  <2>2. v \in 0..9 /\ 10 + v \in Int
    <3>1. v = IF value \in 0..9 THEN value ELSE 0
      BY <1>4 DEF Look, ColourAttrs
    <3> HIDE DEF v
    <3> QED BY <3>1
  <2> HIDE DEF v
  <2>3. SgrStep(s, 10 + v) = SetLook(s, a, v)
    BY <1>4, <2>2, ReadFont
  <2> QED BY <1>1, <1>2, <2>1, <2>2, <2>3, SetLookReads DEF v
<1>5. CASE a \in ColourAttrs
  <2> DEFINE on == SgrOn[a]
  <2>1. AttrParams(a, value) = ColourParams(a, value) /\ on \in Int /\ SgrOff[a] \in Int
    BY <1>5, SgrNumbers DEF ColourAttrs, AttrParams
  <2>2. v = IF value < 0 THEN -1 ELSE value
    BY <1>5 DEF Look, ColourAttrs
  <2> HIDE DEF on, v
  <2>3. CASE value < 0
    <3>1. AttrParams(a, value) = <<SgrOff[a]>>
      BY <2>1, <2>3 DEF ColourParams
    <3>2. SgrStep(s, SgrOff[a]) = SetLook(s, a, v)
      BY <1>5, <2>2, <2>3, ReadColour
    <3> QED BY <1>1, <1>2, <2>1, <3>1, <3>2, SetLookReads DEF v
  <2>4. CASE value \in 0..7
    <3>1. AttrParams(a, value) = <<on + value>> /\ on + value \in Int
      BY <2>1, <2>4 DEF ColourParams, on
    <3>2. SgrStep(s, on + value) = SetLook(s, a, v)
      <4>1. v = value
        BY <2>2, <2>4
      <4>2. \A w \in 0..7 : SgrStep(s, on + w) = SetLook(s, a, w)
        BY <1>5, ReadColour DEF on
      <4> QED BY <2>4, <4>1, <4>2
    <3> QED BY <1>1, <1>2, <3>1, <3>2, SetLookReads DEF v
  <2>5. CASE value \in 8..15
    <3>1. /\ AttrParams(a, value) = <<on + 60 + value - 8>>
          /\ on + 60 + value - 8 \in Int
      BY <2>1, <2>5 DEF ColourParams, on
    <3>2. SgrStep(s, on + 60 + value - 8) = SetLook(s, a, v)
      <4>1. v = value
        BY <2>2, <2>5
      <4>2. \A w \in 8..15 : SgrStep(s, on + 60 + w - 8) = SetLook(s, a, w)
        BY <1>5, ReadColour DEF on
      <4> QED BY <2>5, <4>1, <4>2
    <3> QED BY <1>1, <1>2, <3>1, <3>2, SetLookReads DEF v
  <2>6. CASE value >= 16
    <3> DEFINE s2 == [s EXCEPT !.expect = "kind", !.colour = a]
               s3 == [s2 EXCEPT !.expect = "index"]
               s4 == [[s3 EXCEPT !.look[a] = value] EXCEPT !.expect = "none"]
    <3>1. AttrParams(a, value) = <<on + 8, 5, value>> /\ on + 8 \in Int
      BY <2>1, <2>6 DEF ColourParams, on
    <3>2. SgrStep(s, on + 8) = s2
      BY <1>5, ReadColour DEF on
    <3>3. SgrStep(s2, 5) = s3
      BY DEF SgrStep, Readers
    <3>4. SgrStep(s3, value) = s4
      BY DEF SgrStep, Readers
    <3>5. s4 \in Readers /\ s4.look = [s.look EXCEPT ![a] = value]
      BY <1>5 DEF Readers
    <3> HIDE DEF s2, s3, s4
    <3>6. Read(s, <<on + 8, 5, value>>) = SgrStep(SgrStep(SgrStep(s, on + 8), 5), value)
      BY <3>1, ReadThree
    <3>7. Read(s, AttrParams(a, value)) = s4
      BY <3>1, <3>2, <3>3, <3>4, <3>6
    <3>8. AttrParams(a, value) \in Seq(Int) /\ AttrParams(a, value) # <<>>
      BY <3>1
    <3> QED BY <2>2, <2>6, <3>5, <3>7, <3>8 DEF v
  <2> QED BY <2>3, <2>4, <2>5, <2>6
<1> QED BY <1>3, <1>4, <1>5 DEF Attrs

ChunkLook(look, delta, a) ==
  IF Has(delta, a) THEN [look EXCEPT ![a] = Look(a, delta[a])] ELSE look

LEMMA ReadChunk ==
  ASSUME NEW s \in Readers, NEW a \in Attrs, NEW delta \in Pens,
         a \in BoolAttrs /\ Has(delta, a) => delta[a] \in 0..1
  PROVE  /\ Chunk(delta, a) \in Seq(Int) /\ (Has(delta, a) => Chunk(delta, a) # <<>>)
         /\ Read(s, Chunk(delta, a)) \in Readers
         /\ Read(s, Chunk(delta, a)).look = ChunkLook(s.look, delta, a)
<1>1. CASE Has(delta, a)
  <2>1. delta[a] \in Int
    BY <1>1 DEF Pens, Has
  <2>2. Chunk(delta, a) = AttrParams(a, delta[a])
    BY <1>1 DEF Chunk
  <2>3. ChunkLook(s.look, delta, a) = [s.look EXCEPT ![a] = Look(a, delta[a])]
    BY <1>1 DEF ChunkLook
  <2> DEFINE ps == AttrParams(a, delta[a])
  <2>4. /\ ps \in Seq(Int) /\ ps # <<>> /\ Read(s, ps) \in Readers
        /\ Read(s, ps).look = [s.look EXCEPT ![a] = Look(a, delta[a])]
    <3>1. a \in BoolAttrs => delta[a] \in 0..1
      BY <1>1
    <3> DEFINE v == delta[a]
    <3> HIDE DEF v
    <3>2. v \in Int /\ (a \in BoolAttrs => v \in 0..1)
      BY <2>1, <3>1 DEF v
    <3>3. /\ AttrParams(a, v) \in Seq(Int) /\ AttrParams(a, v) # <<>>
          /\ Read(s, AttrParams(a, v)) \in Readers
          /\ Read(s, AttrParams(a, v)).look = [s.look EXCEPT ![a] = Look(a, v)]
      BY <3>2, ReadAttr
    <3> QED BY <3>3 DEF v
  <2> HIDE DEF ps
  <2>5. Chunk(delta, a) = ps
    BY <2>2 DEF ps
  <2> QED BY <2>3, <2>4, <2>5
<1>2. CASE ~Has(delta, a)
  <2>1. Chunk(delta, a) = <<>> /\ <<>> \in Seq(Int)
    BY <1>2 DEF Chunk
  <2> QED BY <1>2, <2>1, ReadFew DEF ChunkLook
<1> QED BY <1>1, <1>2

(* The whole difference: the attributes it has look as their values, and   *)
(* the others as before; there is nothing to write only when it is empty.  *)
LEMMA ReadParams ==
  ASSUME NEW s \in Readers, NEW delta \in Pens,
         \A a \in BoolAttrs : Has(delta, a) => delta[a] \in 0..1
  PROVE  /\ Params(delta) = <<>> => \A a \in Attrs : ~Has(delta, a)
         /\ Read(s, Params(delta)).look =
              [a \in Attrs |-> IF Has(delta, a) THEN Look(a, delta[a]) ELSE s.look[a]]
<1> DEFINE c(a) == Chunk(delta, a)
           p1 == c("fg")              s1 == Read(s, c("fg"))
           p2 == p1 \o c("bg")        s2 == Read(s1, c("bg"))
           p3 == p2 \o c("bold")      s3 == Read(s2, c("bold"))
           p4 == p3 \o c("under")     s4 == Read(s3, c("under"))
           p5 == p4 \o c("italic")    s5 == Read(s4, c("italic"))
           p6 == p5 \o c("reverse")   s6 == Read(s5, c("reverse"))
           p7 == p6 \o c("strike")    s7 == Read(s6, c("strike"))
           p8 == p7 \o c("altfont")   s8 == Read(s7, c("altfont"))
           p9 == p8 \o c("blink")     s9 == Read(s8, c("blink"))
<1> DEFINE Follows(p, t, q, u, a) ==
             /\ u \in Readers /\ u = Read(s, q) /\ q \in Seq(Int)
             /\ u.look = ChunkLook(t.look, delta, a)
             /\ q = <<>> => p = <<>> /\ ~Has(delta, a)
<1>0. ASSUME NEW p \in Seq(Int), NEW t \in Readers, t = Read(s, p), NEW a \in Attrs
      PROVE  Follows(p, t, p \o c(a), Read(t, c(a)), a)
  <2>1. /\ c(a) \in Seq(Int) /\ (Has(delta, a) => c(a) # <<>>)
        /\ Read(t, c(a)) \in Readers
        /\ Read(t, c(a)).look = ChunkLook(t.look, delta, a)
    BY ReadChunk
  <2> HIDE DEF c
  <2>2. p \o c(a) \in Seq(Int) /\ (p \o c(a) = <<>> => p = <<>> /\ c(a) = <<>>)
    BY <2>1
  <2>3. Read(s, p \o c(a)) = Read(t, c(a))
    BY <1>0, <2>1, ReadAppend
  <2> QED BY <2>1, <2>2, <2>3
<1>a. /\ "fg" \in Attrs /\ "bg" \in Attrs /\ "bold" \in Attrs /\ "under" \in Attrs
      /\ "italic" \in Attrs /\ "reverse" \in Attrs /\ "strike" \in Attrs
      /\ "altfont" \in Attrs /\ "blink" \in Attrs
  BY DEF Attrs, ColourAttrs, BoolAttrs
<1>1. /\ s1 \in Readers /\ p1 \in Seq(Int) /\ s1 = Read(s, p1)
      /\ s1.look = ChunkLook(s.look, delta, "fg")
      /\ p1 = <<>> => ~Has(delta, "fg")
  BY <1>a, ReadChunk
<1>2. Follows(p1, s1, p2, s2, "bg")
  <2> HIDE DEF Follows, c, p1, s1
  <2> QED BY <1>0, <1>1, <1>a
<1>3. Follows(p2, s2, p3, s3, "bold")
  <2> HIDE DEF c, p2, s2
  <2> QED BY <1>0, <1>2, <1>a
<1>4. Follows(p3, s3, p4, s4, "under")
  <2> HIDE DEF c, p3, s3
  <2> QED BY <1>0, <1>3, <1>a
<1>5. Follows(p4, s4, p5, s5, "italic")
  <2> HIDE DEF c, p4, s4
  <2> QED BY <1>0, <1>4, <1>a
<1>6. Follows(p5, s5, p6, s6, "reverse")
  <2> HIDE DEF c, p5, s5
  <2> QED BY <1>0, <1>5, <1>a
<1>7. Follows(p6, s6, p7, s7, "strike")
  <2> HIDE DEF c, p6, s6
  <2> QED BY <1>0, <1>6, <1>a
<1>8. Follows(p7, s7, p8, s8, "altfont")
  <2> HIDE DEF c, p7, s7
  <2> QED BY <1>0, <1>7, <1>a
<1>9. Follows(p8, s8, p9, s9, "blink")
  <2> HIDE DEF c, p8, s8
  <2> QED BY <1>0, <1>8, <1>a
<1>10. Params(delta) = p9
  BY DEF Params
<1> HIDE DEF c, p1, p2, p3, p4, p5, p6, p7, p8, p9, s1, s2, s3, s4, s5, s6, s7, s8, s9
<1>11. Params(delta) = <<>> => \A a \in Attrs : ~Has(delta, a)
  BY <1>1, <1>2, <1>3, <1>4, <1>5, <1>6, <1>7, <1>8, <1>9, <1>10
  DEF Attrs, ColourAttrs, BoolAttrs
<1>12. Read(s, Params(delta)) = s9 /\ s9.look \in [Attrs -> Int]
  BY <1>9, <1>10 DEF Readers
<1>13. ASSUME NEW a \in Attrs
       PROVE  s9.look[a] = IF Has(delta, a) THEN Look(a, delta[a]) ELSE s.look[a]
  <2>1. /\ DOMAIN s.look = Attrs /\ DOMAIN s1.look = Attrs /\ DOMAIN s2.look = Attrs
        /\ DOMAIN s3.look = Attrs /\ DOMAIN s4.look = Attrs /\ DOMAIN s5.look = Attrs
        /\ DOMAIN s6.look = Attrs /\ DOMAIN s7.look = Attrs /\ DOMAIN s8.look = Attrs
    BY <1>1, <1>2, <1>3, <1>4, <1>5, <1>6, <1>7, <1>8 DEF Readers
  <2>2. ASSUME NEW look, NEW b \in Attrs, DOMAIN look = Attrs
        PROVE  ChunkLook(look, delta, b)[a] =
                 IF a = b /\ Has(delta, a) THEN Look(a, delta[a]) ELSE look[a]
    BY <2>2 DEF ChunkLook
  <2> DEFINE S(t, u, b) ==
               u.look[a] = IF a = b /\ Has(delta, a) THEN Look(a, delta[a]) ELSE t.look[a]
  <2>3. /\ S(s, s1, "fg") /\ S(s1, s2, "bg") /\ S(s2, s3, "bold")
        /\ S(s3, s4, "under") /\ S(s4, s5, "italic") /\ S(s5, s6, "reverse")
        /\ S(s6, s7, "strike") /\ S(s7, s8, "altfont") /\ S(s8, s9, "blink")
    <3> DEFINE L(t, u, b) == u.look = ChunkLook(t.look, delta, b)
    <3>1. ASSUME NEW t, NEW u, NEW b \in Attrs, DOMAIN t.look = Attrs, L(t, u, b)
          PROVE  S(t, u, b)
      BY <2>2, <3>1
    <3>2. /\ L(s, s1, "fg") /\ L(s1, s2, "bg") /\ L(s2, s3, "bold")
          /\ L(s3, s4, "under") /\ L(s4, s5, "italic") /\ L(s5, s6, "reverse")
          /\ L(s6, s7, "strike") /\ L(s7, s8, "altfont") /\ L(s8, s9, "blink")
      BY <1>1, <1>2, <1>3, <1>4, <1>5, <1>6, <1>7, <1>8, <1>9
    <3> HIDE DEF L, S
    <3> QED BY <1>a, <2>1, <3>1, <3>2
  <2> QED BY <2>3 DEF Attrs, ColourAttrs, BoolAttrs
<1> QED BY <1>11, <1>12, <1>13

(* Whatever the application sets, in whichever order, tt->pen has for each *)
(* attribute the value asked for last or its replacement.                  *)
THEOREM PenIsCurrent == Spec => []PenCurrent
<1>1. PenInv => PenCurrent
  BY DEF PenInv
<1> QED BY PenInvInit, PenInvStep, <1>1, PTL DEF Spec

(* However many colours the application asks for, the terminal is only     *)
(* ever given colours that it has.                                         *)
THEOREM ColoursAreKnown == Spec => []ColoursKnown
<1>1. PenInv => ColoursKnown
  BY DEF PenInv, PenTypes
<1> QED BY PenInvInit, PenInvStep, <1>1, PTL DEF Spec
(* A terminal that terminfo drives shows what was asked for last, of the   *)
(* attributes its sgr and its colours set, whatever pens came before.      *)
THEOREM TerminfoIsTrue == Spec => []TerminfoShows
<1>1. Init => TerminfoShows
  BY DEF Init, TerminfoShows, EmptyPen, Has, Attrs, ColourAttrs, BoolAttrs
<1>2. PenInv /\ TerminfoShows /\ PenInv' /\ [Next]_vars => TerminfoShows'
  <2> SUFFICES ASSUME PenInv, TerminfoShows, PenInv', [Next]_vars, driver' = "terminfo",
                      NEW a \in {"fg", "bg", "bold", "under", "reverse", "blink"},
                      Has(asked, a)'
               PROVE  shown'[a] = Target(a, asked[a])'
    BY DEF TerminfoShows
  <2>1. ASSUME NEW p \in AppPens, NEW attrs \in SUBSET Attrs, Write(p, attrs)
        PROVE  shown'[a] = Target(a, asked[a])'
    <3>1. driver = "terminfo"
      BY <2>1 DEF Write
    <3> QED BY <2>1, <3>1, TerminfoWrites DEF PenInv
  <2>2. CASE UNCHANGED vars
    BY <2>2 DEF vars, TerminfoShows, Has, Target, Colours
  <2> QED BY <2>1, <2>2 DEF Next, Setpen, Chpen
<1> QED BY PenInvInit, PenInvStep, <1>1, <1>2, PTL DEF Spec

(* What xterm's terminal writes with is what tt->pen has, as far as it has *)
(* anything; the truth values are one bit.                                 *)
XTermInv ==
  driver = "xterm" =>
    /\ shown \in [Attrs -> Int]
    /\ \A a \in BoolAttrs : Has(pen, a) => pen[a] \in 0..1
    /\ \A a \in Attrs : Has(pen, a) => shown[a] = Look(a, pen[a])

LEMMA XTermWrites ==
  ASSUME PenInv, XTermInv, PenTypes', driver = "xterm",
         NEW p \in AppPens, NEW attrs \in SUBSET Attrs, Write(p, attrs)
  PROVE  XTermInv'
<1> DEFINE delta == Delta(p, attrs)
<1>1. /\ pen' = Updated(delta) /\ shown' = XTermChpen(delta, pen')
      /\ driver' = "xterm"
  BY DEF Write
<1>2. delta \in Pens
  BY TargetFits DEF Delta, Pens
<1>3. \A a \in BoolAttrs : Has(delta, a) => delta[a] \in 0..1
  <2>1. ASSUME NEW a \in BoolAttrs, Has(delta, a) PROVE delta[a] \in 0..1
    <3>1. a \in Attrs /\ a \notin ColourAttrs
      BY DEF Attrs, BoolAttrs, ColourAttrs
    <3>2. delta[a] = Get(p, a)
      BY <2>1, <3>1 DEF Delta, Has, Target
    <3> QED BY <3>2, TermPenAssumption
  <2> QED BY <2>1
<1>4. \A a \in Attrs : pen'[a] = IF Has(delta, a) THEN delta[a] ELSE pen[a]
  BY <1>1 DEF Updated
<1> HIDE DEF delta
<1>5. \A a \in BoolAttrs : Has(pen', a) => pen'[a] \in 0..1
  BY <1>3, <1>4 DEF XTermInv, Has, Attrs
<1>6. CASE Params(delta) = <<>>
  <2>1. shown' = shown
    BY <1>1, <1>6 DEF XTermChpen
  <2>2. \A a \in Attrs : ~Has(delta, a)
    <3>1. [look |-> shown, expect |-> "none", colour |-> "fg"] \in Readers
      BY DEF Readers, XTermInv, ColourAttrs
    <3> QED BY <1>2, <1>3, <1>6, <3>1, ReadParams
  <2> QED BY <1>1, <1>4, <1>5, <2>1, <2>2 DEF XTermInv, Has
<1>7. CASE Params(delta) # <<>> /\ ~IsNondefault(pen')
  <2>1. shown' = AllOff
    BY <1>1, <1>7 DEF XTermChpen
  <2>2. AllOff \in [Attrs -> Int]
    BY DEF AllOff, Default
  <2>3. ASSUME NEW a \in Attrs, Has(pen', a)
        PROVE  AllOff[a] = Look(a, pen'[a])
    <3>1. pen'[a] \in Int /\ pen'[a] <= Default(a)
      BY <1>7, <2>3 DEF IsNondefault, PenTypes, Pens, Has, Default
    <3>2. CASE a \in BoolAttrs
      BY <1>5, <2>3, <3>1, <3>2 DEF AllOff, Look, Default, BoolAttrs, ColourAttrs
    <3>3. CASE a \in ColourAttrs
      BY <3>1, <3>3 DEF AllOff, Look, Default, BoolAttrs, ColourAttrs
    <3>4. CASE a = "altfont"
      BY <3>1, <3>4 DEF AllOff, Look, Default, BoolAttrs, ColourAttrs
    <3> QED BY <3>2, <3>3, <3>4 DEF Attrs
  <2> QED BY <1>1, <1>5, <2>1, <2>2, <2>3 DEF XTermInv, Has
<1>8. CASE Params(delta) # <<>> /\ IsNondefault(pen')
  <2> DEFINE s == [look |-> shown, expect |-> "none", colour |-> "fg"]
  <2>1. s \in Readers /\ s.look = shown
    BY DEF Readers, XTermInv, ColourAttrs
  <2>2. shown' = Read(s, Params(delta)).look
    BY <1>1, <1>8 DEF XTermChpen, Obeyed
  <2> HIDE DEF s
  <2>3. shown' = [a \in Attrs |-> IF Has(delta, a) THEN Look(a, delta[a]) ELSE shown[a]]
    BY <1>2, <1>3, <2>1, <2>2, ReadParams
  <2>4. \A a \in Attrs : Has(delta, a) => Look(a, delta[a]) \in Int
    BY <1>2 DEF Look, Pens, Has, ColourAttrs
  <2> QED BY <1>1, <1>4, <1>5, <2>3, <2>4 DEF XTermInv, Has
<1> QED BY <1>6, <1>7, <1>8

(* An xterm shows what was asked for last, whichever differences and empty *)
(* SGRs the driver has written and whatever the terminal wrote with before *)
(* it was told anything.                                                   *)
THEOREM XTermIsTrue == Spec => []XTermShows
<1>1. Init => XTermInv
  <2> SUFFICES ASSUME Init PROVE XTermInv
    OBVIOUS
  <2>1. AllOff \in [Attrs -> Int]
    BY DEF AllOff, Default
  <2>2. shown \in [Attrs -> Int]
    BY <2>1 DEF Init
  <2>3. \A a \in Attrs : ~Has(pen, a)
    BY DEF Init, EmptyPen, Has
  <2> QED BY <2>2, <2>3 DEF XTermInv, Attrs
<1>2. PenInv /\ XTermInv /\ PenInv' /\ [Next]_vars => XTermInv'
  <2> SUFFICES ASSUME PenInv, XTermInv, PenInv', [Next]_vars, driver' = "xterm"
               PROVE  XTermInv'
    BY DEF XTermInv
  <2>1. ASSUME NEW p \in AppPens, NEW attrs \in SUBSET Attrs, Write(p, attrs)
        PROVE  XTermInv'
    <3>1. driver = "xterm"
      BY <2>1 DEF Write
    <3> QED BY <2>1, <3>1, XTermWrites DEF PenInv
  <2>2. CASE UNCHANGED vars
    BY <2>2 DEF vars, XTermInv, Has
  <2> QED BY <2>1, <2>2 DEF Next, Setpen, Chpen
<1>3. PenInv /\ XTermInv => XTermShows
  <2> SUFFICES ASSUME PenInv, XTermInv, driver = "xterm", NEW a \in Attrs, Has(asked, a)
               PROVE  shown[a] = Look(a, Target(a, asked[a]))
    BY DEF XTermShows
  <2>1. Has(pen, a) /\ pen[a] = Target(a, asked[a])
    BY DEF PenInv, PenTypes, PenCurrent
  <2> QED BY <2>1 DEF XTermInv
<1> QED BY PenInvInit, PenInvStep, <1>1, <1>2, <1>3, PTL DEF Spec
=============================================================================
