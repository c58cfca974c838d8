----------------------------- MODULE RectProofs -----------------------------
(***************************************************************************)
(* Proofs about the rectangle arithmetic and the rectangle set: for        *)
(* rectangles of any size and at any place, what rect.c computes is the    *)
(* set operation it stands for; for sets of any length, what rectset.c     *)
(* keeps at every step of every sequence of calls.                         *)
(***************************************************************************)
EXTENDS RectOps, RectSet, Induction, SequenceTheorems, TLAPS

LEMMA BoundedType ==
  ASSUME NEW t \in Int, NEW l \in Int, NEW m \in Int, NEW n \in Int
  PROVE  /\ InitBounded(t, l, m, n) \in RectType
         /\ \A i, j \in Int : InRect(i, j, InitBounded(t, l, m, n))
                                <=> t <= i /\ i < m /\ l <= j /\ j < n
BY DEF InitBounded, RectType, InRect, Bottom, Right

LEMMA RectInts ==
  ASSUME NEW r \in RectType
  PROVE  /\ r.top \in Int /\ r.left \in Int /\ r.lines \in Int /\ r.cols \in Int
         /\ Bottom(r) \in Int /\ Bottom(r) = r.top + r.lines
         /\ Right(r) \in Int /\ Right(r) = r.left + r.cols
BY DEF RectType, Bottom, Right

LEMMA OneRect ==
  ASSUME NEW r \in RectType
  PROVE  /\ <<r>> \in Seq(RectType) /\ Len(<<r>>) = 1
         /\ \A l, c \in Int : InSome(l, c, <<r>>) <=> InRect(l, c, r)
<1> DEFINE s == <<r>>
<1>1. s \in Seq(RectType) /\ Len(s) = 1 /\ DOMAIN s = {1} /\ s[1] = r
  OBVIOUS
<1> HIDE DEF s
<1>2. \A l, c \in Int : InSome(l, c, s) <=> InRect(l, c, r)
  BY <1>1 DEF InSome
<1>3. QED
  BY <1>1, <1>2 DEF s

LEMMA NoRect ==
  /\ << >> \in Seq(RectType) /\ Len(<< >>) = 0
  /\ \A l, c \in Int : ~InSome(l, c, << >>)
BY DEF InSome

LEMMA ConcatInSome ==
  ASSUME NEW s \in Seq(RectType), NEW t \in Seq(RectType)
  PROVE  /\ s \o t \in Seq(RectType)
         /\ Len(s \o t) = Len(s) + Len(t)
         /\ \A l, c \in Int : InSome(l, c, s \o t)
                               <=> InSome(l, c, s) \/ InSome(l, c, t)
<1>1. s \o t \in Seq(RectType) /\ Len(s \o t) = Len(s) + Len(t)
  OBVIOUS
<1>2. ASSUME NEW l \in Int, NEW c \in Int
      PROVE  InSome(l, c, s \o t) <=> InSome(l, c, s) \/ InSome(l, c, t)
  <2>1. ASSUME NEW i \in DOMAIN (s \o t), InRect(l, c, (s \o t)[i])
        PROVE  InSome(l, c, s) \/ InSome(l, c, t)
    <3>1. CASE i <= Len(s)
      BY <2>1, <3>1 DEF InSome
    <3>2. CASE i > Len(s)
      <4>1. i - Len(s) \in DOMAIN t /\ (s \o t)[i] = t[i - Len(s)]
        BY <3>2
      <4>2. QED
        BY <2>1, <4>1 DEF InSome
    <3>3. QED
      BY <3>1, <3>2
  <2>2. ASSUME NEW i \in DOMAIN s, InRect(l, c, s[i])
        PROVE  InSome(l, c, s \o t)
    <3>1. i \in DOMAIN (s \o t) /\ (s \o t)[i] = s[i]
      OBVIOUS
    <3>2. QED
      BY <2>2, <3>1 DEF InSome
  <2>3. ASSUME NEW i \in DOMAIN t, InRect(l, c, t[i])
        PROVE  InSome(l, c, s \o t)
    <3>1. i + Len(s) \in DOMAIN (s \o t) /\ (s \o t)[i + Len(s)] = t[i]
      OBVIOUS
    <3>2. QED
      BY <2>3, <3>1 DEF InSome
  <2>4. QED
    BY <2>1, <2>2, <2>3 DEF InSome
<1>3. QED
  BY <1>1, <1>2

(* tickit_rect_subtract returns at most four rectangles, and their cells   *)
(* are those of orig outside the hole.                                     *)
THEOREM SubtractCells ==
  ASSUME NEW o \in RectType, NEW h \in RectType, NonEmpty(o), NonEmpty(h)
  PROVE  /\ Subtract(o, h) \in Seq(RectType)
         /\ Len(Subtract(o, h)) <= 4
         /\ \A l, c \in Int : InSome(l, c, Subtract(o, h))
                                <=> InRect(l, c, o) /\ ~InRect(l, c, h)
<1>1. CASE RectContains(h, o)
  <2>1. Subtract(o, h) = << >>
    BY <1>1 DEF Subtract
  <2>2. \A l, c \in Int : InRect(l, c, o) => InRect(l, c, h)
    BY <1>1 DEF RectContains, InRect, Bottom, Right, RectType
  <2>3. QED
    BY <2>1, <2>2 DEF InSome
<1>2. CASE ~RectContains(h, o) /\ ~Intersects(h, o)
  <2>1. Subtract(o, h) = <<o>>
    BY <1>2 DEF Subtract
  <2>2. \A l, c \in Int : ~(InRect(l, c, o) /\ InRect(l, c, h))
    BY <1>2 DEF Intersects, InRect, Bottom, Right, RectType
  <2>3. QED
    BY <2>1, <2>2, OneRect
<1>3. CASE ~RectContains(h, o) /\ Intersects(h, o)
  <2> DEFINE midTop    == MaxInt(o.top, h.top)
             midBottom == MinInt(Bottom(o), Bottom(h))
             above == InitBounded(o.top, o.left, h.top, Right(o))
             left  == InitBounded(midTop, o.left, midBottom, h.left)
             right == InitBounded(midTop, Right(h), midBottom, Right(o))
             below == InitBounded(Bottom(h), o.left, Bottom(o), Right(o))
             sa == When(o.top < h.top, above)
             sl == When(o.left < h.left, left)
             sr == When(Right(o) > Right(h), right)
             sb == When(Bottom(o) > Bottom(h), below)
  <2>1. Subtract(o, h) = (sa \o sl) \o (sr \o sb)
    BY <1>3 DEF Subtract
  <2>2. /\ o.top \in Int /\ o.left \in Int /\ o.lines \in Int /\ o.cols \in Int
        /\ h.top \in Int /\ h.left \in Int /\ h.lines \in Int /\ h.cols \in Int
        /\ Bottom(o) \in Int /\ Right(o) \in Int
        /\ Bottom(h) \in Int /\ Right(h) \in Int
        /\ midTop \in Int /\ midBottom \in Int
    BY DEF RectType, Bottom, Right, MaxInt, MinInt
  <2>3. /\ above \in RectType /\ left \in RectType
        /\ right \in RectType /\ below \in RectType
    BY <2>2, BoundedType
  <2>4. /\ sa \in Seq(RectType) /\ sl \in Seq(RectType)
        /\ sr \in Seq(RectType) /\ sb \in Seq(RectType)
        /\ Len(sa) <= 1 /\ Len(sl) <= 1 /\ Len(sr) <= 1 /\ Len(sb) <= 1
    <3> HIDE DEF above, left, right, below
    <3> QED
      BY <2>2, <2>3, OneRect, NoRect DEF When
  <2>5. ASSUME NEW l \in Int, NEW c \in Int
        PROVE  InSome(l, c, Subtract(o, h))
                 <=> InRect(l, c, o) /\ ~InRect(l, c, h)
    <3>1. /\ InSome(l, c, sa) <=> o.top < h.top /\ InRect(l, c, above)
          /\ InSome(l, c, sl) <=> o.left < h.left /\ InRect(l, c, left)
          /\ InSome(l, c, sr) <=> Right(o) > Right(h) /\ InRect(l, c, right)
          /\ InSome(l, c, sb) <=> Bottom(o) > Bottom(h) /\ InRect(l, c, below)
      <4> HIDE DEF above, left, right, below
      <4> QED
        BY <2>2, <2>3, OneRect, NoRect DEF When
    <3>2. InSome(l, c, Subtract(o, h))
            <=> \/ InSome(l, c, sa) \/ InSome(l, c, sl)
                \/ InSome(l, c, sr) \/ InSome(l, c, sb)
      <4> DEFINE al == sa \o sl
                 rb == sr \o sb
      <4> HIDE DEF sa, sl, sr, sb
      <4>1. /\ al \in Seq(RectType)
            /\ InSome(l, c, al) <=> InSome(l, c, sa) \/ InSome(l, c, sl)
        BY <2>4, ConcatInSome
      <4>2. /\ rb \in Seq(RectType)
            /\ InSome(l, c, rb) <=> InSome(l, c, sr) \/ InSome(l, c, sb)
        BY <2>4, ConcatInSome
      <4>3. Subtract(o, h) = al \o rb
        BY <2>1
      <4> HIDE DEF al, rb
      <4>4. InSome(l, c, al \o rb) <=> InSome(l, c, al) \/ InSome(l, c, rb)
        BY <4>1, <4>2, ConcatInSome
      <4>5. QED
        BY <4>1, <4>2, <4>3, <4>4
    <3> DEFINE inAbove == o.top <= l /\ l < h.top /\ o.left <= c /\ c < Right(o)
               inLeft  == midTop <= l /\ l < midBottom /\ o.left <= c /\ c < h.left
               inRight == midTop <= l /\ l < midBottom /\ Right(h) <= c /\ c < Right(o)
               inBelow == Bottom(h) <= l /\ l < Bottom(o) /\ o.left <= c /\ c < Right(o)
    <3>3. /\ InRect(l, c, above) <=> inAbove
          /\ InRect(l, c, left) <=> inLeft
          /\ InRect(l, c, right) <=> inRight
          /\ InRect(l, c, below) <=> inBelow
      <4> HIDE DEF midTop, midBottom
      <4> QED
        BY <2>2, BoundedType
    <3>4. (\/ o.top < h.top /\ inAbove
           \/ o.left < h.left /\ inLeft
           \/ Right(o) > Right(h) /\ inRight
           \/ Bottom(o) > Bottom(h) /\ inBelow)
            <=> InRect(l, c, o) /\ ~InRect(l, c, h)
      BY <1>3, <2>2 DEF Intersects, InRect, MaxInt, MinInt, RectType, NonEmpty,
                        Bottom, Right
    <3>5. QED
      <4> HIDE DEF sa, sl, sr, sb, above, left, right, below,
                   inAbove, inLeft, inRight, inBelow
      <4> QED
        BY <3>1, <3>2, <3>3, <3>4
  <2>6. Subtract(o, h) \in Seq(RectType) /\ Len(Subtract(o, h)) <= 4
    <3> HIDE DEF sa, sl, sr, sb
    <3>1. /\ sa \o sl \in Seq(RectType) /\ sr \o sb \in Seq(RectType)
          /\ Len(sa \o sl) = Len(sa) + Len(sl)
          /\ Len(sr \o sb) = Len(sr) + Len(sb)
      BY <2>4, ConcatInSome
    <3>2. /\ Len(sa) \in Nat /\ Len(sl) \in Nat
          /\ Len(sr) \in Nat /\ Len(sb) \in Nat
      BY <2>4
    <3>3. QED
      BY <2>1, <2>4, <3>1, <3>2, ConcatInSome
  <2>7. QED
    BY <2>5, <2>6
<1>4. QED
  BY <1>1, <1>2, <1>3

-----------------------------------------------------------------------------
(* Two rectangles are loose when they touch, if at all, one above the      *)
(* other: they do not meet, nor stand side by side.  Every rectangle of s  *)
(* is loose from every one of t; those of s from each other, and none is   *)
(* empty.                                                                  *)
Loose(r, q) == Touches(r, q) => OneAbove(r, q)

AllLoose(s, t) == \A i \in DOMAIN s, j \in DOMAIN t : Loose(s[i], t[j])

Clean(s) ==
  /\ \A i, j \in DOMAIN s : i # j => Loose(s[i], s[j])
  /\ \A i \in DOMAIN s : NonEmpty(s[i])

LEMMA LooseFacts ==
  ASSUME NEW r \in RectType, NEW q \in RectType, Loose(r, q)
  PROVE  /\ Loose(q, r)
         /\ NonEmpty(r) /\ NonEmpty(q) => ~Intersects(r, q)
<1>1. Loose(q, r)
  BY DEF Loose, Touches, OneAbove
<1>2. ASSUME NonEmpty(r), NonEmpty(q), Intersects(r, q)
      PROVE  FALSE
  BY <1>2, RectInts DEF Loose, Touches, OneAbove, Intersects, NonEmpty
<1> QED BY <1>1, <1>2

LEMMA CleanApart ==
  ASSUME NEW s \in Seq(RectType), Clean(s)
  PROVE  /\ \A i, j \in DOMAIN s : i # j => ~Intersects(s[i], s[j])
         /\ \A i \in DOMAIN s : NonEmpty(s[i])
<1>1. \A i \in DOMAIN s : s[i] \in RectType /\ NonEmpty(s[i])
  BY DEF Clean
<1>2. \A i, j \in DOMAIN s : i # j => Loose(s[i], s[j])
  BY DEF Clean
<1> QED BY <1>1, <1>2, LooseFacts

LEMMA WhenFacts ==
  ASSUME NEW cond \in BOOLEAN, NEW r \in RectType, cond => NonEmpty(r)
  PROVE  /\ When(cond, r) \in Seq(RectType) /\ Clean(When(cond, r))
         /\ \A i \in DOMAIN When(cond, r) : cond /\ When(cond, r)[i] = r
<1> DEFINE one == <<r>>
<1>1. one \in Seq(RectType) /\ DOMAIN one = {1} /\ one[1] = r
  OBVIOUS
<1>2. << >> \in Seq(RectType) /\ DOMAIN << >> = {}
  OBVIOUS
<1>3. When(cond, r) = IF cond THEN one ELSE << >>
  BY DEF When
<1> HIDE DEF one
<1>4. CASE cond
  BY <1>1, <1>3, <1>4 DEF Clean
<1>5. CASE ~cond
  BY <1>2, <1>3, <1>5 DEF Clean
<1> QED BY <1>4, <1>5

LEMMA ConcatClean ==
  ASSUME NEW s \in Seq(RectType), NEW t \in Seq(RectType)
  PROVE  /\ Clean(s) /\ Clean(t) /\ AllLoose(s, t) => Clean(s \o t)
         /\ \A u : AllLoose(s, u) /\ AllLoose(t, u) => AllLoose(s \o t, u)
         /\ \A u : AllLoose(u, s) /\ AllLoose(u, t) => AllLoose(u, s \o t)
<1> DEFINE r == s \o t
           n == Len(s)
           m == Len(t)
<1>1. /\ n \in Nat /\ m \in Nat
      /\ DOMAIN r = 1..n + m /\ DOMAIN s = 1..n /\ DOMAIN t = 1..m
      /\ \A i \in 1..n : r[i] = s[i]
      /\ \A i \in 1..m : r[n + i] = t[i]
  OBVIOUS
<1> HIDE DEF r, n, m
<1>2. ASSUME NEW i \in DOMAIN r, i \notin DOMAIN s
      PROVE  i - n \in DOMAIN t /\ r[i] = t[i - n]
  <2>1. i - n \in 1..m /\ n + (i - n) = i
    BY <1>1, <1>2
  <2> QED BY <1>1, <2>1
<1>3. \A i \in DOMAIN s : i \in DOMAIN r /\ r[i] = s[i]
  BY <1>1
<1>4. ASSUME Clean(s), Clean(t), AllLoose(s, t)
      PROVE  Clean(r)
  <2>1. ASSUME NEW i \in DOMAIN r, NEW j \in DOMAIN r, i # j
        PROVE  Loose(r[i], r[j])
    <3>1. CASE i \in DOMAIN s /\ j \in DOMAIN s
      BY <1>3, <1>4, <2>1, <3>1 DEF Clean
    <3>2. CASE i \in DOMAIN s /\ j \notin DOMAIN s
      BY <1>2, <1>3, <1>4, <3>2 DEF AllLoose
    <3>3. CASE i \notin DOMAIN s /\ j \in DOMAIN s
      <4>1. Loose(r[j], r[i])
        BY <1>2, <1>3, <1>4, <3>3 DEF AllLoose
      <4> QED BY <4>1 DEF Loose, Touches, OneAbove
    <3>4. CASE i \notin DOMAIN s /\ j \notin DOMAIN s
      <4>1. i - n # j - n
        BY <1>1, <2>1
      <4> QED BY <1>2, <1>4, <3>4, <4>1 DEF Clean
    <3> QED BY <3>1, <3>2, <3>3, <3>4
  <2>2. \A i \in DOMAIN r : NonEmpty(r[i])
    BY <1>2, <1>3, <1>4 DEF Clean
  <2> QED BY <2>1, <2>2 DEF Clean
<1>5. \A u : AllLoose(s, u) /\ AllLoose(t, u) => AllLoose(r, u)
  BY <1>2, <1>3 DEF AllLoose
<1>6. \A u : AllLoose(u, s) /\ AllLoose(u, t) => AllLoose(u, r)
  BY <1>2, <1>3 DEF AllLoose
<1> QED BY <1>4, <1>5, <1>6 DEF r

(* The parts of orig that tickit_rect_subtract returns do not overlap, and *)
(* none of them is empty: no cell is repainted twice, none for nothing.    *)
THEOREM SubtractClean ==
  ASSUME NEW o \in RectType, NEW h \in RectType, NonEmpty(o), NonEmpty(h)
  PROVE  Clean(Subtract(o, h))
<1>1. CASE RectContains(h, o)
  BY <1>1 DEF Subtract, Clean
<1>2. CASE ~RectContains(h, o) /\ ~Intersects(h, o)
  <2>1. Subtract(o, h) = When(TRUE, o)
    BY <1>2 DEF Subtract, When
  <2> QED BY <2>1, WhenFacts
<1>3. CASE ~RectContains(h, o) /\ Intersects(h, o)
  <2> DEFINE midTop    == MaxInt(o.top, h.top)
             midBottom == MinInt(Bottom(o), Bottom(h))
             above == InitBounded(o.top, o.left, h.top, Right(o))
             left  == InitBounded(midTop, o.left, midBottom, h.left)
             right == InitBounded(midTop, Right(h), midBottom, Right(o))
             below == InitBounded(Bottom(h), o.left, Bottom(o), Right(o))
             sa == When(o.top < h.top, above)
             sl == When(o.left < h.left, left)
             sr == When(Right(o) > Right(h), right)
             sb == When(Bottom(o) > Bottom(h), below)
  <2>1. Subtract(o, h) = (sa \o sl) \o (sr \o sb)
    BY <1>3 DEF Subtract
  <2>2. /\ o.top \in Int /\ o.left \in Int /\ h.top \in Int /\ h.left \in Int
        /\ Bottom(o) \in Int /\ Right(o) \in Int
        /\ Bottom(h) \in Int /\ Right(h) \in Int
        /\ o.top < Bottom(o) /\ o.left < Right(o)
        /\ h.top < Bottom(h) /\ h.left < Right(h)
    BY DEF RectType, Bottom, Right, NonEmpty
  <2>3. /\ midTop \in Int /\ midBottom \in Int /\ midTop < midBottom
        /\ midTop >= h.top /\ midBottom <= Bottom(h)
    BY <1>3, <2>2 DEF Intersects, MaxInt, MinInt
  <2> HIDE DEF midTop, midBottom
  <2>4. /\ above \in RectType /\ left \in RectType
        /\ right \in RectType /\ below \in RectType
    BY <2>2, <2>3, BoundedType
  <2>5. /\ o.top < h.top => NonEmpty(above)
        /\ o.left < h.left => NonEmpty(left)
        /\ Right(o) > Right(h) => NonEmpty(right)
        /\ Bottom(o) > Bottom(h) => NonEmpty(below)
    BY <2>2, <2>3 DEF NonEmpty, InitBounded
  <2>6. /\ Loose(above, left) /\ Loose(above, right)
        /\ Loose(above, below) /\ Loose(left, right)
        /\ Loose(left, below) /\ Loose(right, below)
    BY <2>2, <2>3 DEF Loose, Touches, OneAbove, InitBounded, Bottom, Right
  <2> HIDE DEF above, left, right, below
  <2>7. /\ sa \in Seq(RectType) /\ Clean(sa) /\ \A i \in DOMAIN sa : sa[i] = above
        /\ sl \in Seq(RectType) /\ Clean(sl) /\ \A i \in DOMAIN sl : sl[i] = left
        /\ sr \in Seq(RectType) /\ Clean(sr) /\ \A i \in DOMAIN sr : sr[i] = right
        /\ sb \in Seq(RectType) /\ Clean(sb) /\ \A i \in DOMAIN sb : sb[i] = below
    <3>1. /\ (o.top < h.top) \in BOOLEAN /\ (o.left < h.left) \in BOOLEAN
          /\ (Right(o) > Right(h)) \in BOOLEAN /\ (Bottom(o) > Bottom(h)) \in BOOLEAN
      OBVIOUS
    <3> QED BY <2>4, <2>5, <3>1, WhenFacts
  <2> HIDE DEF sa, sl, sr, sb
  <2>8. /\ AllLoose(sa, sl) /\ AllLoose(sa, sr) /\ AllLoose(sa, sb)
        /\ AllLoose(sl, sr) /\ AllLoose(sl, sb) /\ AllLoose(sr, sb)
    BY <2>6, <2>7 DEF AllLoose
  <2> DEFINE al == sa \o sl
             rb == sr \o sb
  <2>9. al \in Seq(RectType) /\ rb \in Seq(RectType)
    BY <2>7
  <2>10. /\ Clean(al) /\ AllLoose(al, sr) /\ AllLoose(al, sb) /\ Clean(rb)
    BY <2>7, <2>8, ConcatClean
  <2> HIDE DEF al, rb
  <2>11. AllLoose(al, sr \o sb)
    BY <2>7, <2>10, ConcatClean
  <2>12. Clean(al \o rb)
    BY <2>9, <2>10, <2>11, ConcatClean DEF rb
  <2> QED BY <2>1, <2>12 DEF al, rb
<1> QED BY <1>1, <1>2, <1>3

-----------------------------------------------------------------------------
(* The last rectangle of ret, if there is one, is not empty and ends at    *)
(* row, where the next slice begins.                                       *)
EndsAt(ret, row) ==
  Len(ret) > 0 => Bottom(ret[Len(ret)]) = row /\ ret[Len(ret)].lines > 0

LEMMA PutBandCells ==
  ASSUME NEW ret \in Seq(RectType), NEW band \in RectType,
         band.lines >= 0, EndsAt(ret, band.top)
  PROVE  /\ PutBand(ret, band) \in Seq(RectType)
         /\ Len(PutBand(ret, band)) <= Len(ret) + 1
         /\ EndsAt(PutBand(ret, band), Bottom(band))
         /\ \A l, c \in Int : InSome(l, c, PutBand(ret, band))
                                <=> InSome(l, c, ret) \/ InRect(l, c, band)
<1> DEFINE n == Len(ret)
           wide == n > 0 /\ ret[n].left = band.left /\ ret[n].cols = band.cols
<1>1. /\ n \in Nat /\ DOMAIN ret = 1..n
      /\ band.top \in Int /\ band.lines \in Int
      /\ band.left \in Int /\ band.cols \in Int
      /\ Bottom(band) = band.top + band.lines
  BY DEF RectType, Bottom
<1>2. CASE band.lines = 0
  <2>1. PutBand(ret, band) = ret
    BY <1>2 DEF PutBand
  <2>2. Bottom(band) = band.top /\ \A l, c \in Int : ~InRect(l, c, band)
    BY <1>1, <1>2 DEF Bottom, InRect
  <2>3. QED
    BY <1>1, <2>1, <2>2
<1>3. CASE band.lines > 0 /\ wide
  <2> DEFINE old    == ret[n]
             last   == StretchTo(old, Bottom(band))
             longer == [ret EXCEPT ![n] = last]
  <2>1. PutBand(ret, band) = longer
    BY <1>3, <1>1 DEF PutBand
  <2>2. n \in DOMAIN ret /\ old \in RectType
    BY <1>1, <1>3
  <2>3. /\ old.left = band.left /\ old.cols = band.cols
        /\ Bottom(old) = band.top /\ old.lines > 0
    BY <1>1, <1>3 DEF EndsAt
  <2> HIDE DEF old
  <2>4. /\ old.top \in Int /\ old.left \in Int
        /\ old.lines \in Int /\ old.cols \in Int
        /\ Bottom(old) = old.top + old.lines
        /\ Right(old) = old.left + old.cols
    BY <2>2 DEF RectType, Bottom, Right
  <2>5. /\ last \in RectType
        /\ last.top = old.top /\ last.left = old.left /\ last.cols = old.cols
        /\ last.lines = Bottom(band) - old.top
    BY <1>1, <2>4 DEF RectType, StretchTo, InitSized
  <2> HIDE DEF last
  <2>6. Bottom(last) = Bottom(band) /\ last.lines > 0
    BY <1>1, <1>3, <2>3, <2>4, <2>5 DEF Bottom
  <2>7. ASSUME NEW l \in Int, NEW c \in Int
        PROVE  InRect(l, c, last) <=> InRect(l, c, old) \/ InRect(l, c, band)
    <3>1. Right(last) = Right(old) /\ Right(band) = Right(old)
      BY <2>3, <2>5 DEF Right
    <3>2. old.top < Bottom(old) /\ band.top < Bottom(band)
      BY <1>1, <1>3, <2>3, <2>4
    <3>3. /\ old.top \in Int /\ band.top \in Int /\ Bottom(band) \in Int
          /\ Bottom(old) \in Int
      BY <1>1, <2>4
    <3>4. QED
      BY <2>3, <2>5, <2>6, <3>1, <3>2, <3>3 DEF InRect
  <2>8. /\ longer \in Seq(RectType) /\ Len(longer) = n
        /\ \A i \in 1..n : longer[i] = IF i = n THEN last ELSE ret[i]
    BY <1>1, <2>2, <2>5, ExceptSeq
  <2> HIDE DEF longer
  <2>9. DOMAIN longer = 1..n
    BY <2>8, LenProperties
  <2>10. longer[n] = last /\ \A i \in 1..n : i # n => longer[i] = ret[i]
    BY <1>1, <2>2, <2>8
  <2>11. EndsAt(longer, Bottom(band))
    BY <2>6, <2>8, <2>10 DEF EndsAt
  <2>12. \A l, c \in Int : InSome(l, c, longer)
                            <=> InSome(l, c, ret) \/ InRect(l, c, band)
    BY <1>1, <2>2, <2>7, <2>9, <2>10 DEF InSome, old
  <2>13. Len(longer) <= Len(ret) + 1
    <3> HIDE DEF n
    <3>1. Len(longer) = Len(ret) /\ Len(ret) \in Nat
      BY <1>1, <2>8 DEF n
    <3>2. QED
      BY <3>1
  <2>14. QED
    BY <2>1, <2>8, <2>11, <2>12, <2>13
<1>4. CASE band.lines > 0 /\ ~wide
  <2> DEFINE more == Append(ret, band)
  <2>1. PutBand(ret, band) = more
    <3>1. ~(band.lines = 0)
      BY <1>4, <1>1
    <3>2. ~(Len(ret) > 0 /\ ret[Len(ret)].left = band.left
                         /\ ret[Len(ret)].cols = band.cols)
      BY <1>4
    <3>3. QED
      BY <3>1, <3>2 DEF PutBand
  <2>2. /\ more \in Seq(RectType) /\ Len(more) = n + 1
        /\ DOMAIN more = 1..(n + 1) /\ more[n + 1] = band
        /\ \A i \in 1..n : more[i] = ret[i]
    BY <1>1
  <2> HIDE DEF more
  <2>3. EndsAt(more, Bottom(band))
    BY <1>1, <1>4, <2>2 DEF EndsAt
  <2>4. \A i \in 1..(n + 1) : i \in 1..n \/ i = n + 1
    BY <1>1
  <2>5. \A l, c \in Int : InSome(l, c, more)
                            <=> InSome(l, c, ret) \/ InRect(l, c, band)
    BY <1>1, <2>2, <2>4 DEF InSome
  <2>6. QED
    BY <1>1, <2>1, <2>2, <2>3, <2>5
<1>5. QED
  BY <1>1, <1>2, <1>3, <1>4

InColumns(c, r) == r.left <= c /\ c < Right(r)
SpansRows(r, t, m) == t >= r.top /\ m <= Bottom(r)

InSlice(l, c, r, q, t, m) ==
  /\ t <= l /\ l < m
  /\ IF SpansRows(r, t, m) /\ SpansRows(q, t, m)
     THEN InColumns(c, r) \/ InColumns(c, q)
     ELSE IF SpansRows(r, t, m) THEN InColumns(c, r) ELSE InColumns(c, q)

(* A slice spans exactly its rows; on each of them it holds the cells of   *)
(* the rectangles that have those rows.                                    *)
LEMMA BandCells ==
  ASSUME NEW r \in RectType, NEW q \in RectType, NonEmpty(r), NonEmpty(q),
         ~Apart(r, q), NEW t \in Int, NEW m \in Int, t <= m
  PROVE  /\ Band(r, q, t, m) \in RectType
         /\ Band(r, q, t, m).top = t
         /\ Bottom(Band(r, q, t, m)) = m
         /\ Band(r, q, t, m).lines = m - t
         /\ \A l, c \in Int : InRect(l, c, Band(r, q, t, m))
                                <=> InSlice(l, c, r, q, t, m)
<1> DEFINE hasR == SpansRows(r, t, m)
           hasQ == SpansRows(q, t, m)
           left  == IF hasR /\ hasQ THEN MinInt(r.left, q.left)
                    ELSE IF hasR THEN r.left ELSE q.left
           right == IF hasR /\ hasQ THEN MaxInt(Right(r), Right(q))
                    ELSE IF hasR THEN Right(r) ELSE Right(q)
<1>1. /\ r.left \in Int /\ q.left \in Int
      /\ Right(r) \in Int /\ Right(q) \in Int
      /\ r.left < Right(r) /\ q.left < Right(q)
      /\ r.left <= Right(q) /\ q.left <= Right(r)
  BY DEF RectType, Right, NonEmpty, Apart
<1>2. Band(r, q, t, m) = InitBounded(t, left, m, right)
  BY DEF Band, SpansRows
<1>3. left \in Int /\ right \in Int
  BY <1>1 DEF MinInt, MaxInt
<1>4. \A c \in Int : (left <= c /\ c < right) <=>
         IF hasR /\ hasQ THEN InColumns(c, r) \/ InColumns(c, q)
         ELSE IF hasR THEN InColumns(c, r) ELSE InColumns(c, q)
  <2> HIDE DEF hasR, hasQ
  <2> QED
    BY <1>1 DEF MinInt, MaxInt, InColumns
<1> HIDE DEF left, right, hasR, hasQ
<1>5. /\ Band(r, q, t, m) \in RectType
      /\ \A l, c \in Int : InRect(l, c, Band(r, q, t, m))
                             <=> t <= l /\ l < m /\ left <= c /\ c < right
  <2> DEFINE band == InitBounded(t, left, m, right)
  <2>1. /\ band \in RectType
        /\ \A i, j \in Int : InRect(i, j, band)
                               <=> t <= i /\ i < m /\ left <= j /\ j < right
    BY <1>3, BoundedType
  <2> HIDE DEF band
  <2>2. Band(r, q, t, m) = band
    BY <1>2 DEF band
  <2>3. QED
    BY <2>1, <2>2
<1>6. /\ Band(r, q, t, m).top = t /\ Band(r, q, t, m).lines = m - t
      /\ Bottom(Band(r, q, t, m)) = m
  BY <1>2, <1>3 DEF InitBounded, Bottom
<1>7. \A l, c \in Int : InRect(l, c, Band(r, q, t, m))
                          <=> InSlice(l, c, r, q, t, m)
  BY <1>4, <1>5 DEF hasR, hasQ, InSlice
<1>8. Band(r, q, t, m) \in RectType
  BY <1>5
<1>9. QED
  BY <1>6, <1>7, <1>8

(* tickit_rect_add returns at most three rectangles, and their cells are   *)
(* those of the two operands.                                              *)
THEOREM AddCells ==
  ASSUME NEW r \in RectType, NEW q \in RectType, NonEmpty(r), NonEmpty(q)
  PROVE  /\ RectAdd(r, q) \in Seq(RectType)
         /\ Len(RectAdd(r, q)) <= 3
         /\ \A l, c \in Int : InSome(l, c, RectAdd(r, q))
                                <=> InRect(l, c, r) \/ InRect(l, c, q)
<1>1. CASE Apart(r, q)
  <2> DEFINE s == <<r, q>>
  <2>1. RectAdd(r, q) = s
    BY <1>1 DEF RectAdd
  <2>2. /\ s \in Seq(RectType) /\ Len(s) = 2 /\ DOMAIN s = {1, 2}
        /\ s[1] = r /\ s[2] = q
    OBVIOUS
  <2> HIDE DEF s
  <2>3. \A l, c \in Int : InSome(l, c, s) <=> InRect(l, c, r) \/ InRect(l, c, q)
    BY <2>2 DEF InSome
  <2>4. Len(s) <= 3
    BY <2>2
  <2>5. QED
    BY <2>1, <2>2, <2>3, <2>4
<1>2. CASE ~Apart(r, q)
  <2> DEFINE row0 == MinInt(r.top, q.top)
             tops == MaxInt(r.top, q.top)
             bots == MinInt(Bottom(r), Bottom(q))
             row1 == MinInt(tops, bots)
             row2 == MaxInt(tops, bots)
             row3 == MaxInt(Bottom(r), Bottom(q))
             band1 == Band(r, q, row0, row1)
             band2 == Band(r, q, row1, row2)
             band3 == Band(r, q, row2, row3)
             ret1 == PutBand(<< >>, band1)
             ret2 == PutBand(ret1, band2)
             ret3 == PutBand(ret2, band3)
  <2>1. RectAdd(r, q) = ret3
    BY <1>2 DEF RectAdd
  <2>2. /\ r.top \in Int /\ q.top \in Int
        /\ Bottom(r) \in Int /\ Bottom(q) \in Int
        /\ r.top < Bottom(r) /\ q.top < Bottom(q)
        /\ r.top <= Bottom(q) /\ q.top <= Bottom(r)
    BY <1>2 DEF RectType, Bottom, NonEmpty, Apart
  <2>3. /\ row0 \in Int /\ row1 \in Int /\ row2 \in Int /\ row3 \in Int
        /\ row0 <= row1 /\ row1 <= row2 /\ row2 <= row3
        /\ row1 = tops /\ row2 = bots
    BY <2>2 DEF MinInt, MaxInt
  <2> HIDE DEF row0, row1, row2, row3
  <2>4. /\ band1 \in RectType /\ band2 \in RectType /\ band3 \in RectType
        /\ band1.top = row0 /\ Bottom(band1) = row1 /\ band1.lines >= 0
        /\ band2.top = row1 /\ Bottom(band2) = row2 /\ band2.lines >= 0
        /\ band3.top = row2 /\ Bottom(band3) = row3 /\ band3.lines >= 0
    BY <1>2, <2>3, BandCells
  <2>5. ASSUME NEW l \in Int, NEW c \in Int
        PROVE  (InRect(l, c, band1) \/ InRect(l, c, band2) \/ InRect(l, c, band3))
                 <=> InRect(l, c, r) \/ InRect(l, c, q)
    <3>1. /\ InRect(l, c, band1) <=> InSlice(l, c, r, q, row0, row1)
          /\ InRect(l, c, band2) <=> InSlice(l, c, r, q, row1, row2)
          /\ InRect(l, c, band3) <=> InSlice(l, c, r, q, row2, row3)
      BY <1>2, <2>3, BandCells
    <3>2. (\/ InSlice(l, c, r, q, row0, row1)
           \/ InSlice(l, c, r, q, row1, row2)
           \/ InSlice(l, c, r, q, row2, row3))
            <=> \/ r.top <= l /\ l < Bottom(r) /\ InColumns(c, r)
                \/ q.top <= l /\ l < Bottom(q) /\ InColumns(c, q)
      BY <2>2, <2>3 DEF row0, row3, MinInt, MaxInt, InSlice, SpansRows
    <3>3. /\ InRect(l, c, r)
              <=> r.top <= l /\ l < Bottom(r) /\ InColumns(c, r)
          /\ InRect(l, c, q)
              <=> q.top <= l /\ l < Bottom(q) /\ InColumns(c, q)
      BY DEF InRect, InColumns
    <3>4. QED
      <4> HIDE DEF band1, band2, band3
      <4> QED
        BY <3>1, <3>2, <3>3
  <2> HIDE DEF band1, band2, band3
  <2>6. /\ ret1 \in Seq(RectType) /\ Len(ret1) <= 1 /\ EndsAt(ret1, row1)
        /\ \A l, c \in Int : InSome(l, c, ret1) <=> InRect(l, c, band1)
    <3> DEFINE none == << >>
    <3>1. /\ none \in Seq(RectType) /\ Len(none) = 0
          /\ \A l, c \in Int : ~InSome(l, c, none)
      BY NoRect
    <3>2. ret1 = PutBand(none, band1)
      OBVIOUS
    <3> HIDE DEF none, ret1
    <3>3. EndsAt(none, band1.top)
      BY <3>1 DEF EndsAt
    <3>4. /\ ret1 \in Seq(RectType) /\ Len(ret1) <= Len(none) + 1
          /\ EndsAt(ret1, Bottom(band1))
          /\ \A l, c \in Int : InSome(l, c, ret1)
                                 <=> InSome(l, c, none) \/ InRect(l, c, band1)
      BY <2>4, <3>1, <3>2, <3>3, PutBandCells
    <3>5. \A l, c \in Int : InSome(l, c, ret1) <=> InRect(l, c, band1)
      BY <3>1, <3>4
    <3>6. Len(ret1) <= 1 /\ EndsAt(ret1, row1)
      BY <2>4, <3>1, <3>4
    <3>7. QED
      BY <3>4, <3>5, <3>6
  <2> HIDE DEF ret1
  <2>7. /\ ret2 \in Seq(RectType) /\ Len(ret2) <= Len(ret1) + 1
        /\ EndsAt(ret2, row2)
        /\ \A l, c \in Int : InSome(l, c, ret2)
                               <=> InSome(l, c, ret1) \/ InRect(l, c, band2)
    BY <2>4, <2>6, PutBandCells
  <2> HIDE DEF ret2
  <2>8. /\ ret3 \in Seq(RectType) /\ Len(ret3) <= Len(ret2) + 1
        /\ \A l, c \in Int : InSome(l, c, ret3)
                               <=> InSome(l, c, ret2) \/ InRect(l, c, band3)
    BY <2>4, <2>7, PutBandCells
  <2> HIDE DEF ret3
  <2>9. Len(ret1) \in Nat /\ Len(ret2) \in Nat /\ Len(ret3) \in Nat
    BY <2>6, <2>7, <2>8
  <2>10. Len(ret3) <= 3
    BY <2>6, <2>7, <2>8, <2>9
  <2>11. QED
    BY <2>1, <2>5, <2>6, <2>7, <2>8, <2>10
<1>3. QED
  BY <1>1, <1>2

(* The rectangles of ret lie one below the other, down to row at most. *)
Stacked(ret, row) ==
  /\ \A i \in DOMAIN ret : NonEmpty(ret[i]) /\ Bottom(ret[i]) <= row
  /\ \A i, j \in DOMAIN ret : i < j => Bottom(ret[i]) <= ret[j].top

LEMMA PutBandStacked ==
  ASSUME NEW ret \in Seq(RectType), NEW band \in RectType,
         band.lines >= 0, band.cols > 0, Stacked(ret, band.top)
  PROVE  /\ PutBand(ret, band) \in Seq(RectType)
         /\ Stacked(PutBand(ret, band), Bottom(band))
<1> DEFINE n == Len(ret)
           wide == n > 0 /\ ret[n].left = band.left /\ ret[n].cols = band.cols
<1>1. /\ n \in Nat /\ DOMAIN ret = 1..n
      /\ band.top \in Int /\ band.lines \in Int
      /\ Bottom(band) = band.top + band.lines
  BY DEF RectType, Bottom
<1>2. \A i \in 1..n : /\ ret[i].top \in Int /\ ret[i].lines \in Int
                      /\ ret[i] \in RectType
                      /\ Bottom(ret[i]) = ret[i].top + ret[i].lines
  <2>1. \A i \in 1..n : ret[i] \in RectType
    OBVIOUS
  <2> HIDE DEF n
  <2> QED BY <2>1, RectInts
<1>3. CASE band.lines = 0
  BY <1>1, <1>3 DEF PutBand
<1>4. CASE band.lines > 0 /\ wide
  <2> DEFINE last   == StretchTo(ret[n], Bottom(band))
             longer == [ret EXCEPT ![n] = last]
  <2>1. PutBand(ret, band) = longer
    BY <1>1, <1>4 DEF PutBand
  <2>2. n \in DOMAIN ret
    BY <1>1, <1>4
  <2>3. /\ ret[n] \in RectType /\ Bottom(ret[n]) <= band.top /\ NonEmpty(ret[n])
        /\ ret[n].top \in Int /\ Bottom(ret[n]) = ret[n].top + ret[n].lines
        /\ ret[n].lines \in Int
    BY <1>1, <1>2, <2>2 DEF Stacked
  <2>4. /\ last \in RectType /\ last.top = ret[n].top /\ last.cols = ret[n].cols
        /\ last.lines = Bottom(band) - ret[n].top
    BY <1>1, <2>3 DEF RectType, StretchTo, InitSized
  <2> HIDE DEF last
  <2>5. Bottom(last) = Bottom(band) /\ NonEmpty(last)
    BY <1>1, <1>4, <2>3, <2>4 DEF Bottom, NonEmpty
  <2>6. /\ longer \in Seq(RectType) /\ Len(longer) = n
        /\ \A i \in 1..n : longer[i] = IF i = n THEN last ELSE ret[i]
    BY <1>1, <2>2, <2>4, ExceptSeq
  <2> HIDE DEF longer
  <2>7. DOMAIN longer = 1..n
    BY <2>6, LenProperties
  <2>8. ASSUME NEW i \in 1..n
        PROVE  NonEmpty(longer[i]) /\ Bottom(longer[i]) <= Bottom(band)
    <3>1. Bottom(ret[i]) <= band.top /\ NonEmpty(ret[i])
      BY <1>1, <2>8 DEF Stacked
    <3>2. Bottom(ret[i]) <= Bottom(band)
      BY <1>1, <1>2, <3>1
    <3>3. CASE i = n
      <4>1. longer[i] = last
        BY <2>6, <3>3
      <4> QED BY <1>1, <2>4, <2>5, <4>1
    <3>4. CASE i # n
      <4>1. longer[i] = ret[i]
        BY <2>6, <3>4
      <4> QED BY <3>1, <3>2, <4>1
    <3> QED BY <3>3, <3>4
  <2>9. ASSUME NEW i \in 1..n, NEW j \in 1..n, i < j
        PROVE  Bottom(longer[i]) <= longer[j].top
    <3>1. Bottom(ret[i]) <= ret[j].top
      BY <1>1, <2>9 DEF Stacked
    <3>2. longer[i] = ret[i]
      <4>1. i # n
        <5> HIDE DEF n
        <5>1. n \in Int /\ i \in Int /\ j \in Int /\ i < j /\ j <= n
          BY <1>1, <2>9
        <5> QED BY <5>1
      <4> QED BY <2>6, <4>1
    <3>3. longer[j].top = ret[j].top
      BY <2>4, <2>6
    <3> QED BY <3>1, <3>2, <3>3
  <2> QED BY <2>1, <2>6, <2>7, <2>8, <2>9 DEF Stacked
<1>5. CASE band.lines > 0 /\ ~wide
  <2> DEFINE more == Append(ret, band)
  <2>1. PutBand(ret, band) = more
    <3>1. ~(band.lines = 0)
      BY <1>1, <1>5
    <3>2. ~(Len(ret) > 0 /\ ret[Len(ret)].left = band.left
                         /\ ret[Len(ret)].cols = band.cols)
      BY <1>5
    <3> QED BY <3>1, <3>2 DEF PutBand
  <2>2. /\ more \in Seq(RectType) /\ DOMAIN more = 1..(n + 1)
        /\ more[n + 1] = band /\ \A i \in 1..n : more[i] = ret[i]
    BY <1>1
  <2> HIDE DEF more
  <2>3. ASSUME NEW i \in 1..n + 1
        PROVE  /\ NonEmpty(more[i]) /\ Bottom(more[i]) <= Bottom(band)
               /\ i # n + 1 => i \in 1..n /\ Bottom(more[i]) <= band.top
    <3>1. CASE i = n + 1
      BY <1>1, <1>5, <2>2, <3>1 DEF NonEmpty
    <3>2. CASE i # n + 1
      <4>1. i \in 1..n /\ more[i] = ret[i]
        BY <1>1, <2>2, <3>2
      <4>2. NonEmpty(ret[i]) /\ Bottom(ret[i]) <= band.top
        BY <1>1, <4>1 DEF Stacked
      <4> QED BY <1>1, <1>2, <4>1, <4>2
    <3> QED BY <3>1, <3>2
  <2>4. ASSUME NEW i \in 1..n + 1, NEW j \in 1..n + 1, i < j
        PROVE  Bottom(more[i]) <= more[j].top
    <3>1. i \in 1..n
      BY <1>1, <2>4
    <3>2. CASE j = n + 1
      BY <1>1, <2>2, <2>3, <3>1, <3>2
    <3>3. CASE j # n + 1
      <4>1. j \in 1..n /\ more[j] = ret[j] /\ more[i] = ret[i]
        BY <1>1, <2>2, <3>1, <3>3
      <4> QED BY <1>1, <2>4, <3>1, <4>1 DEF Stacked
    <3> QED BY <3>2, <3>3
  <2> QED BY <2>1, <2>2, <2>3, <2>4 DEF Stacked
<1> QED BY <1>1, <1>3, <1>4, <1>5

LEMMA StackedClean ==
  ASSUME NEW s \in Seq(RectType), NEW row \in Int, Stacked(s, row)
  PROVE  Clean(s)
<1>1. DOMAIN s \subseteq Int
  OBVIOUS
<1>2. ASSUME NEW i \in DOMAIN s, NEW j \in DOMAIN s, i < j
      PROVE  Loose(s[i], s[j]) /\ Loose(s[j], s[i])
  <2>1. Bottom(s[i]) <= s[j].top
    BY <1>2 DEF Stacked
  <2>2. s[i] \in RectType /\ s[j] \in RectType
    OBVIOUS
  <2>3. Bottom(s[i]) \in Int /\ s[j].top \in Int /\ Bottom(s[j]) \in Int
    BY <2>2, RectInts
  <2> QED BY <2>1, <2>3 DEF Loose, Touches, OneAbove
<1>3. \A i, j \in DOMAIN s : i # j => i < j \/ j < i
  BY <1>1
<1> QED BY <1>2, <1>3 DEF Clean, Stacked

LEMMA BandWide ==
  ASSUME NEW r \in RectType, NEW q \in RectType, NonEmpty(r), NonEmpty(q),
         NEW t, NEW m
  PROVE  Band(r, q, t, m).cols > 0
<1>1. /\ r.left \in Int /\ q.left \in Int /\ Right(r) \in Int /\ Right(q) \in Int
      /\ r.left < Right(r) /\ q.left < Right(q)
  BY DEF RectType, Right, NonEmpty
<1> DEFINE hasR == SpansRows(r, t, m)
           hasQ == SpansRows(q, t, m)
           left  == IF hasR /\ hasQ THEN MinInt(r.left, q.left)
                    ELSE IF hasR THEN r.left ELSE q.left
           right == IF hasR /\ hasQ THEN MaxInt(Right(r), Right(q))
                    ELSE IF hasR THEN Right(r) ELSE Right(q)
<1>2. Band(r, q, t, m).cols = right - left
  BY DEF Band, SpansRows, InitBounded
<1>3. left \in Int /\ right \in Int /\ left < right
  <2> HIDE DEF hasR, hasQ
  <2> QED BY <1>1 DEF MinInt, MaxInt
<1> HIDE DEF left, right
<1> QED BY <1>2, <1>3

(* The rectangles tickit_rect_add returns do not overlap, and none of them *)
(* is empty, whether or not its operands do.                               *)
THEOREM AddClean ==
  ASSUME NEW r \in RectType, NEW q \in RectType, NonEmpty(r), NonEmpty(q)
  PROVE  Clean(RectAdd(r, q))
<1>1. CASE Apart(r, q)
  <2> DEFINE s == <<r, q>>
  <2>1. RectAdd(r, q) = s
    BY <1>1 DEF RectAdd
  <2>2. DOMAIN s = {1, 2} /\ s[1] = r /\ s[2] = q
    OBVIOUS
  <2> HIDE DEF s
  <2>3. Loose(r, q) /\ Loose(q, r)
    BY <1>1 DEF Apart, Loose, Touches, Bottom, Right, RectType
  <2> QED BY <2>1, <2>2, <2>3 DEF Clean
<1>2. CASE ~Apart(r, q)
  <2> DEFINE row0 == MinInt(r.top, q.top)
             tops == MaxInt(r.top, q.top)
             bots == MinInt(Bottom(r), Bottom(q))
             row1 == MinInt(tops, bots)
             row2 == MaxInt(tops, bots)
             row3 == MaxInt(Bottom(r), Bottom(q))
             band1 == Band(r, q, row0, row1)
             band2 == Band(r, q, row1, row2)
             band3 == Band(r, q, row2, row3)
             ret1 == PutBand(<< >>, band1)
             ret2 == PutBand(ret1, band2)
             ret3 == PutBand(ret2, band3)
  <2>1. RectAdd(r, q) = ret3
    BY <1>2 DEF RectAdd
  <2>2. /\ r.top \in Int /\ q.top \in Int
        /\ Bottom(r) \in Int /\ Bottom(q) \in Int
        /\ r.top < Bottom(r) /\ q.top < Bottom(q)
        /\ r.top <= Bottom(q) /\ q.top <= Bottom(r)
    BY <1>2 DEF RectType, Bottom, NonEmpty, Apart
  <2>3. /\ row0 \in Int /\ row1 \in Int /\ row2 \in Int /\ row3 \in Int
        /\ row0 <= row1 /\ row1 <= row2 /\ row2 <= row3
    BY <2>2 DEF MinInt, MaxInt
  <2> HIDE DEF row0, row1, row2, row3
  <2>4. /\ band1 \in RectType /\ band2 \in RectType /\ band3 \in RectType
        /\ band1.top = row0 /\ Bottom(band1) = row1 /\ band1.lines >= 0
        /\ band2.top = row1 /\ Bottom(band2) = row2 /\ band2.lines >= 0
        /\ band3.top = row2 /\ Bottom(band3) = row3 /\ band3.lines >= 0
    BY <1>2, <2>3, BandCells
  <2>5. band1.cols > 0 /\ band2.cols > 0 /\ band3.cols > 0
    BY BandWide
  <2> HIDE DEF band1, band2, band3
  <2>6. ret1 \in Seq(RectType) /\ Stacked(ret1, row1)
    <3> DEFINE none == << >>
    <3>1. none \in Seq(RectType) /\ DOMAIN none = {}
      OBVIOUS
    <3>2. ret1 = PutBand(none, band1)
      OBVIOUS
    <3> HIDE DEF none, ret1
    <3>3. Stacked(none, band1.top)
      BY <3>1 DEF Stacked
    <3> QED BY <2>4, <2>5, <3>1, <3>2, <3>3, PutBandStacked
  <2> HIDE DEF ret1
  <2>7. ret2 \in Seq(RectType) /\ Stacked(ret2, row2)
    BY <2>4, <2>5, <2>6, PutBandStacked
  <2> HIDE DEF ret2
  <2>8. ret3 \in Seq(RectType) /\ Stacked(ret3, row3)
    BY <2>4, <2>5, <2>7, PutBandStacked
  <2> HIDE DEF ret3
  <2> QED BY <2>1, <2>3, <2>8, StackedClean
<1> QED BY <1>1, <1>2

(* What is asked of two rectangles, and their common part.                 *)
LEMMA IntersectionCells ==
  ASSUME NEW r \in RectType, NEW q \in RectType, NonEmpty(r), NonEmpty(q)
  PROVE  /\ HasIntersection(r, q) <=> Intersects(r, q)
         /\ \A l, c \in Int :
              InSome(l, c, When(HasIntersection(r, q), Intersection(r, q)))
                <=> InRect(l, c, r) /\ InRect(l, c, q)
<1> DEFINE top    == MaxInt(r.top, q.top)
           left   == MaxInt(r.left, q.left)
           bottom == MinInt(Bottom(r), Bottom(q))
           right  == MinInt(Right(r), Right(q))
           common == Intersection(r, q)
<1>1. /\ r.top \in Int /\ r.left \in Int /\ q.top \in Int /\ q.left \in Int
      /\ Bottom(r) \in Int /\ Right(r) \in Int
      /\ Bottom(q) \in Int /\ Right(q) \in Int
      /\ r.top < Bottom(r) /\ r.left < Right(r)
      /\ q.top < Bottom(q) /\ q.left < Right(q)
  BY DEF RectType, Bottom, Right, NonEmpty
<1>2. HasIntersection(r, q) <=> Intersects(r, q)
  BY <1>1 DEF HasIntersection, Intersects, MinInt, MaxInt
<1>3. top \in Int /\ left \in Int /\ bottom \in Int /\ right \in Int
  BY <1>1 DEF MinInt, MaxInt
<1>4. /\ common \in RectType
      /\ \A l, c \in Int : InRect(l, c, common)
           <=> top <= l /\ l < bottom /\ left <= c /\ c < right
  <2> HIDE DEF top, left, bottom, right, common
  <2>1. common = InitBounded(top, left, bottom, right)
    BY DEF common, top, left, bottom, right, Intersection
  <2> QED BY <1>3, <2>1, BoundedType
<1>5. ASSUME NEW l \in Int, NEW c \in Int
      PROVE  InRect(l, c, r) /\ InRect(l, c, q)
               <=> top <= l /\ l < bottom /\ left <= c /\ c < right
  BY <1>1 DEF InRect, MinInt, MaxInt
<1>6. ASSUME NEW l \in Int, NEW c \in Int, InRect(l, c, r), InRect(l, c, q)
      PROVE  Intersects(r, q)
  BY <1>1, <1>6 DEF InRect, Intersects
<1> HIDE DEF top, left, bottom, right, common
<1>7. CASE HasIntersection(r, q)
  <2>1. When(HasIntersection(r, q), Intersection(r, q)) = <<common>>
    BY <1>7 DEF When, common
  <2> QED BY <1>2, <1>4, <1>5, <2>1, OneRect
<1>8. CASE ~HasIntersection(r, q)
  <2>1. When(HasIntersection(r, q), Intersection(r, q)) = << >>
    BY <1>8 DEF When
  <2> QED BY <1>2, <1>6, <1>8, <2>1, NoRect
<1> QED BY <1>7, <1>8

(* A rectangle contains another exactly when it has its corners.           *)
LEMMA ContainsCells ==
  ASSUME NEW r \in RectType, NEW q \in RectType, NonEmpty(r), NonEmpty(q)
  PROVE  RectContains(r, q) <=>
           \A l \in r.top..Bottom(r) \cup q.top..Bottom(q),
              c \in r.left..Right(r) \cup q.left..Right(q) :
             InRect(l, c, q) => InRect(l, c, r)
<1>1. /\ r.top \in Int /\ r.left \in Int /\ q.top \in Int /\ q.left \in Int
      /\ Bottom(r) \in Int /\ Right(r) \in Int
      /\ Bottom(q) \in Int /\ Right(q) \in Int
      /\ q.top < Bottom(q) /\ q.left < Right(q)
  BY DEF RectType, Bottom, Right, NonEmpty
<1> DEFINE ls == r.top..Bottom(r) \cup q.top..Bottom(q)
           cs == r.left..Right(r) \cup q.left..Right(q)
<1>2. ASSUME RectContains(r, q), NEW l \in ls, NEW c \in cs, InRect(l, c, q)
      PROVE  InRect(l, c, r)
  <2>1. l \in Int /\ c \in Int
    BY <1>1
  <2> QED BY <1>1, <1>2, <2>1 DEF RectContains, InRect
<1>3. ASSUME \A l \in ls, c \in cs : InRect(l, c, q) => InRect(l, c, r)
      PROVE  RectContains(r, q)
  <2>1. /\ q.top \in ls /\ q.left \in cs
        /\ Bottom(q) - 1 \in ls /\ Right(q) - 1 \in cs
    BY <1>1
  <2>2. InRect(q.top, q.left, q) /\ InRect(Bottom(q) - 1, Right(q) - 1, q)
    BY <1>1 DEF InRect
  <2>3. InRect(q.top, q.left, r) /\ InRect(Bottom(q) - 1, Right(q) - 1, r)
    BY <1>3, <2>1, <2>2
  <2> QED BY <1>1, <2>3 DEF InRect, RectContains
<1> QED BY <1>2, <1>3

-----------------------------------------------------------------------------
(* The calls.                                                              *)

LEMMA BlocksType == \A r \in Blocks : r \in RectType /\ NonEmpty(r)
<1> SUFFICES ASSUME NEW r \in Blocks PROVE r \in RectType /\ NonEmpty(r)
  OBVIOUS
<1>1. PICK t \in Rows, l \in Columns, m \in Rows, n \in Columns :
        r = InitBounded(t, l, m + 1, n + 1)
  BY DEF Blocks
<1>2. t \in Int /\ l \in Int /\ m + 1 \in Int /\ n + 1 \in Int
  BY CellsAssumption
<1>3. r \in RectType
  BY <1>1, <1>2, BoundedType
<1> QED BY <1>3 DEF Blocks

(* Every result is well typed, whatever function was called.               *)
THEOREM CallsTyped == OpsSpec => []OpsTypeOK
<1>1. OpsInit => OpsTypeOK
  BY BlocksType, NoRect DEF OpsInit, OpsTypeOK
<1>2. OpsTypeOK /\ [OpsNext]_opsVars => OpsTypeOK'
  <2> SUFFICES ASSUME OpsTypeOK, [OpsNext]_opsVars
               PROVE  OpsTypeOK'
    OBVIOUS
  <2>1. CASE CallSubtract
    BY <2>1, SubtractCells DEF CallSubtract, OpsTypeOK
  <2>2. CASE CallAdd
    BY <2>2, AddCells DEF CallAdd, OpsTypeOK
  <2>3. CASE CallIntersect
    <3>1. Intersection(a, b) \in RectType
      BY DEF OpsTypeOK, Intersection, InitBounded, MaxInt, MinInt, Bottom, Right,
             RectType
    <3>2. pieces' = IF truth' THEN <<Intersection(a, b)>> ELSE << >>
      BY <2>3 DEF CallIntersect, When
    <3>3. pieces' \in Seq(RectType)
      BY <3>1, <3>2, OneRect, NoRect
    <3>4. truth' \in BOOLEAN
      BY <2>3 DEF CallIntersect, HasIntersection
    <3>5. QED
      BY <2>3, <3>3, <3>4 DEF CallIntersect, OpsTypeOK
  <2>4. CASE CallContains
    <3>1. truth' \in BOOLEAN
      BY <2>4 DEF CallContains, RectContains
    <3>2. QED
      BY <2>4, <3>1, NoRect DEF CallContains, OpsTypeOK
  <2>5. CASE UNCHANGED opsVars
    BY <2>5 DEF opsVars, OpsTypeOK
  <2>6. QED
    BY <2>1, <2>2, <2>3, <2>4, <2>5 DEF OpsNext
<1>3. QED
  BY <1>1, <1>2, PTL DEF OpsSpec

(* The two functions that split rectangles are exact, and fit their        *)
(* callers' arrays.                                                        *)
SplitsExact == SubtractExact /\ AddExact /\ PiecesFit

LEMMA SplitsInit == OpsInit => SplitsExact
BY DEF OpsInit, SplitsExact, SubtractExact, AddExact, PiecesFit

LEMMA SplitsStep == OpsTypeOK /\ SplitsExact /\ [OpsNext]_opsVars => SplitsExact'
<1> SUFFICES ASSUME OpsTypeOK, SplitsExact, [OpsNext]_opsVars
             PROVE  SplitsExact'
  OBVIOUS
<1>1. CASE CallSubtract
  <2>1. /\ op' = "subtract" /\ pieces' = Subtract(a, b)
        /\ a' = a /\ b' = b
    BY <1>1 DEF CallSubtract
  <2>2. /\ a \in RectType /\ b \in RectType /\ NonEmpty(a) /\ NonEmpty(b)
    BY DEF OpsTypeOK
  <2>3. SubtractExact'
    BY <2>1, <2>2, SubtractCells, CellsAssumption DEF SubtractExact
  <2>4. PiecesFit' /\ AddExact'
    BY <2>1, <2>2, SubtractCells DEF PiecesFit, AddExact
  <2>5. QED
    BY <2>3, <2>4 DEF SplitsExact
<1>2. CASE CallAdd
  <2>1. /\ op' = "add" /\ pieces' = RectAdd(a, b)
        /\ a' = a /\ b' = b
    BY <1>2 DEF CallAdd
  <2>2. /\ a \in RectType /\ b \in RectType /\ NonEmpty(a) /\ NonEmpty(b)
    BY DEF OpsTypeOK
  <2>3. AddExact'
    BY <2>1, <2>2, AddCells, CellsAssumption DEF AddExact
  <2>4. PiecesFit' /\ SubtractExact'
    BY <2>1, <2>2, AddCells DEF PiecesFit, SubtractExact
  <2>5. QED
    BY <2>3, <2>4 DEF SplitsExact
<1>3. CASE CallIntersect
  BY <1>3 DEF CallIntersect, SplitsExact, SubtractExact, AddExact, PiecesFit
<1>4. CASE CallContains
  BY <1>4 DEF CallContains, SplitsExact, SubtractExact, AddExact, PiecesFit
<1>5. CASE UNCHANGED opsVars
  BY <1>5 DEF opsVars, SplitsExact, SubtractExact, AddExact, PiecesFit
<1>6. QED
  BY <1>1, <1>2, <1>3, <1>4, <1>5 DEF OpsNext

(* tickit_rect_subtract is exact for rectangles of any size.               *)
THEOREM SubtractIsExact == OpsSpec => []SubtractExact
<1>1. SplitsExact => SubtractExact
  BY DEF SplitsExact
<1>2. QED
  BY <1>1, CallsTyped, SplitsInit, SplitsStep, PTL DEF OpsSpec

(* tickit_rect_add is exact for rectangles of any size.                    *)
THEOREM AddIsExact == OpsSpec => []AddExact
<1>1. SplitsExact => AddExact
  BY DEF SplitsExact
<1>2. QED
  BY <1>1, CallsTyped, SplitsInit, SplitsStep, PTL DEF OpsSpec

(* Their results fit the arrays of 3 and 4 rectangles of rectset.c.        *)
THEOREM SplitsFit == OpsSpec => []PiecesFit
<1>1. SplitsExact => PiecesFit
  BY DEF SplitsExact
<1>2. QED
  BY <1>1, CallsTyped, SplitsInit, SplitsStep, PTL DEF OpsSpec

LEMMA AnswersInit == OpsInit => PiecesDisjoint /\ OverlapExact
BY DEF OpsInit, PiecesDisjoint, OverlapExact

LEMMA AnswersStep ==
  OpsTypeOK /\ PiecesDisjoint /\ OverlapExact /\ [OpsNext]_opsVars
    => (PiecesDisjoint /\ OverlapExact)'
<1> SUFFICES ASSUME OpsTypeOK, PiecesDisjoint, OverlapExact, [OpsNext]_opsVars
             PROVE  PiecesDisjoint' /\ OverlapExact'
  OBVIOUS
<1>1. a \in RectType /\ b \in RectType /\ NonEmpty(a) /\ NonEmpty(b)
  BY DEF OpsTypeOK
<1>2. CASE CallSubtract
  <2>1. Clean(pieces') /\ pieces' \in Seq(RectType)
    BY <1>1, <1>2, SubtractClean, SubtractCells DEF CallSubtract
  <2>2. /\ \A i, j \in DOMAIN pieces' : i # j => ~Intersects(pieces'[i], pieces'[j])
        /\ \A i \in DOMAIN pieces' : NonEmpty(pieces'[i])
    BY <2>1, CleanApart
  <2> QED BY <1>2, <2>2 DEF CallSubtract, PiecesDisjoint, OverlapExact
<1>3. CASE CallAdd
  <2>1. Clean(pieces') /\ pieces' \in Seq(RectType)
    BY <1>1, <1>3, AddClean, AddCells DEF CallAdd
  <2>2. /\ \A i, j \in DOMAIN pieces' : i # j => ~Intersects(pieces'[i], pieces'[j])
        /\ \A i \in DOMAIN pieces' : NonEmpty(pieces'[i])
    BY <2>1, CleanApart
  <2> QED BY <1>3, <2>2 DEF CallAdd, PiecesDisjoint, OverlapExact
<1>4. CASE CallIntersect
  <2>1. /\ op' = "intersect" /\ UNCHANGED <<a, b>>
        /\ truth' = HasIntersection(a, b)
        /\ pieces' = When(HasIntersection(a, b), Intersection(a, b))
    BY <1>4 DEF CallIntersect
  <2>2. HasIntersection(a, b) = Intersects(a, b)
    <3>1. HasIntersection(a, b) <=> Intersects(a, b)
      BY <1>1, IntersectionCells
    <3>2. HasIntersection(a, b) \in BOOLEAN /\ Intersects(a, b) \in BOOLEAN
      BY DEF HasIntersection, Intersects
    <3> QED BY <3>1, <3>2
  <2>3. \A l \in Rows, c \in Columns :
          InSome(l, c, pieces') <=> InRect(l, c, a) /\ InRect(l, c, b)
    BY <1>1, <2>1, IntersectionCells, CellsAssumption
  <2> QED BY <2>1, <2>2, <2>3 DEF PiecesDisjoint, OverlapExact
<1>5. CASE CallContains
  <2>1. op' = "contains" /\ truth' = RectContains(a, b) /\ UNCHANGED <<a, b>>
    BY <1>5 DEF CallContains
  <2>2. RectContains(a, b) <=>
          \A l \in a.top..Bottom(a) \cup b.top..Bottom(b),
             c \in a.left..Right(a) \cup b.left..Right(b) :
            InRect(l, c, b) => InRect(l, c, a)
    BY <1>1, ContainsCells
  <2> QED BY <2>1, <2>2 DEF PiecesDisjoint, OverlapExact
<1>6. CASE UNCHANGED opsVars
  BY <1>6 DEF opsVars, PiecesDisjoint, OverlapExact
<1> QED BY <1>2, <1>3, <1>4, <1>5, <1>6 DEF OpsNext

(* What tickit_rect_subtract and tickit_rect_add return never overlaps and *)
(* is never empty, for rectangles of any size.                             *)
THEOREM SplitsDisjoint == OpsSpec => []PiecesDisjoint
BY CallsTyped, AnswersInit, AnswersStep, PTL DEF OpsSpec

(* tickit_rect_intersect, _intersects and _contains answer by the cells of *)
(* the rectangles, whatever their size and place.                          *)
THEOREM AnswersExact == OpsSpec => []OverlapExact
BY CallsTyped, AnswersInit, AnswersStep, PTL DEF OpsSpec

-----------------------------------------------------------------------------
(* Sets of rectangles.  Two rectangles of a set touch only one above the   *)
(* other, and then they have not the same columns: what could be one       *)
(* rectangle is one, and what stands beside another has been cut.          *)
Normal(r, q) == Loose(r, q) /\ (Touches(r, q) => ~SameCols(r, q))

Proper(s) ==
  /\ s \in Seq(RectType)
  /\ \A i \in DOMAIN s : NonEmpty(s[i])
  /\ \A i, j \in DOMAIN s : i < j => After(s[j], s[i]) /\ Normal(s[i], s[j])

LEMMA NormalFacts ==
  ASSUME NEW r \in RectType, NEW q \in RectType,
         NonEmpty(r), NonEmpty(q), Normal(r, q)
  PROVE  /\ Normal(q, r)
         /\ After(r, q) \/ After(q, r)
<1>1. Normal(q, r)
  BY LooseFacts DEF Normal, Touches, SameCols
<1>2. After(r, q) \/ After(q, r)
  BY RectInts DEF Normal, Loose, Touches, OneAbove, After, NonEmpty
<1> QED BY <1>1, <1>2

LEMMA AfterFacts ==
  ASSUME NEW r \in RectType, NEW q \in RectType
  PROVE  /\ ~After(r, r)
         /\ ~(After(r, q) /\ After(q, r))
         /\ \A p \in RectType :
              /\ After(r, q) /\ After(q, p) => After(r, p)
              /\ ~After(q, r) /\ After(q, p) => After(q, p)
              /\ ~After(q, r) /\ ~After(p, q) => ~After(p, r)
BY RectInts DEF After

(* What a rectangle is stretched to.                                       *)
LEMMA HullFacts ==
  ASSUME NEW r \in RectType, NEW g \in RectType, NonEmpty(r), NonEmpty(g),
         Touches(r, g), SameRows(r, g) \/ SameCols(r, g)
  PROVE  /\ Hull(r, g) \in RectType /\ NonEmpty(Hull(r, g))
         /\ RectContains(Hull(r, g), r) /\ RectContains(Hull(r, g), g)
         /\ \A l, c \in Int : InRect(l, c, Hull(r, g)) <=> InRect(l, c, r) \/ InRect(l, c, g)
<1> DEFINE h == Hull(r, g)
<1>1. /\ r.top \in Int /\ r.left \in Int /\ g.top \in Int /\ g.left \in Int
      /\ Bottom(r) \in Int /\ Right(r) \in Int
      /\ Bottom(g) \in Int /\ Right(g) \in Int
      /\ r.top < Bottom(r) /\ r.left < Right(r)
      /\ g.top < Bottom(g) /\ g.left < Right(g)
  BY DEF RectType, Bottom, Right, NonEmpty
<1>2. /\ h \in RectType
      /\ h.top = MinInt(r.top, g.top) /\ h.left = MinInt(r.left, g.left)
      /\ Bottom(h) = MaxInt(Bottom(r), Bottom(g))
      /\ Right(h) = MaxInt(Right(r), Right(g))
  BY <1>1 DEF Hull, InitBounded, MinInt, MaxInt, RectType, Bottom, Right
<1> HIDE DEF h
<1>3. NonEmpty(h)
  <2>1. h.top < Bottom(h) /\ h.left < Right(h)
    BY <1>1, <1>2 DEF MinInt, MaxInt
  <2> QED BY <1>2, <2>1, RectInts DEF NonEmpty
<1>4. RectContains(h, r) /\ RectContains(h, g)
  BY <1>1, <1>2 DEF RectContains, MinInt, MaxInt
<1>5. ASSUME NEW l \in Int, NEW c \in Int
      PROVE  InRect(l, c, h) <=> InRect(l, c, r) \/ InRect(l, c, g)
  BY <1>1, <1>2 DEF InRect, MinInt, MaxInt, Touches, SameRows, SameCols
<1> QED BY <1>2, <1>3, <1>4, <1>5 DEF h

LEMMA HullLoose ==
  ASSUME NEW r \in RectType, NEW g \in RectType, NEW t \in RectType,
         NonEmpty(r), NonEmpty(g), NonEmpty(t),
         Touches(r, g), SameCols(r, g), Loose(r, g), Loose(t, r), Loose(t, g)
  PROVE  Loose(t, Hull(r, g))
<1> DEFINE h == Hull(r, g)
<1>1. /\ r.top \in Int /\ r.left \in Int /\ g.top \in Int /\ g.left \in Int
      /\ Bottom(r) \in Int /\ Right(r) \in Int
      /\ Bottom(g) \in Int /\ Right(g) \in Int
      /\ t.top \in Int /\ t.left \in Int /\ Bottom(t) \in Int /\ Right(t) \in Int
      /\ r.top < Bottom(r) /\ r.left < Right(r)
      /\ g.top < Bottom(g) /\ g.left < Right(g)
      /\ t.top < Bottom(t)
  BY DEF RectType, Bottom, Right, NonEmpty
<1>2. /\ h.top = MinInt(r.top, g.top) /\ h.left = MinInt(r.left, g.left)
      /\ Bottom(h) = MaxInt(Bottom(r), Bottom(g))
      /\ Right(h) = MaxInt(Right(r), Right(g))
  BY <1>1 DEF Hull, InitBounded, MinInt, MaxInt, Bottom, Right
<1> HIDE DEF h
<1>3. /\ h.left = g.left /\ Right(h) = Right(g)
      /\ r.left = g.left /\ Right(r) = Right(g)
  BY <1>1, <1>2 DEF SameCols, MinInt, MaxInt
<1>4. CASE r.top = Bottom(g)
  <2>1. h.top = g.top /\ Bottom(h) = Bottom(r)
    BY <1>1, <1>2, <1>4 DEF MinInt, MaxInt
  <2> QED BY <1>1, <1>3, <1>4, <2>1 DEF Loose, Touches, OneAbove, h
<1>5. CASE Bottom(r) = g.top
  <2>1. h.top = r.top /\ Bottom(h) = Bottom(g)
    BY <1>1, <1>2, <1>5 DEF MinInt, MaxInt
  <2> QED BY <1>1, <1>3, <1>5, <2>1 DEF Loose, Touches, OneAbove, h
<1> QED BY <1>4, <1>5 DEF Loose, OneAbove

(* A part of a rectangle is loose from what the whole is loose from.       *)
LEMMA PartLoose ==
  ASSUME NEW r \in RectType, NEW p \in RectType, NEW t \in RectType,
         NonEmpty(p), NonEmpty(t), RectContains(r, p), Loose(t, r)
  PROVE  Loose(t, p)
<1>1. /\ r.top \in Int /\ r.left \in Int /\ p.top \in Int /\ p.left \in Int
      /\ Bottom(r) \in Int /\ Right(r) \in Int
      /\ Bottom(p) \in Int /\ Right(p) \in Int
      /\ t.top \in Int /\ t.left \in Int /\ Bottom(t) \in Int /\ Right(t) \in Int
      /\ p.top < Bottom(p) /\ t.top < Bottom(t)
  BY DEF RectType, Bottom, Right, NonEmpty
<1> QED BY <1>1 DEF RectContains, Loose, Touches, OneAbove

-----------------------------------------------------------------------------
(* The array: a rectangle taken out, a rectangle put in.                   *)

LEMMA RemovedAt ==
  ASSUME NEW s \in Seq(RectType), NEW k \in DOMAIN s
  PROVE  /\ RemoveAt(s, k) \in Seq(RectType)
         /\ DOMAIN RemoveAt(s, k) = 1..Len(s) - 1
         /\ Len(RemoveAt(s, k)) = Len(s) - 1
         /\ \A i \in 1..Len(s) - 1 :
              /\ i < k => RemoveAt(s, k)[i] = s[i]
              /\ i >= k => RemoveAt(s, k)[i] = s[i + 1]
<1> DEFINE len == Len(s)
           before == SubSeq(s, 1, k - 1)
           after  == SubSeq(s, k + 1, len)
           t      == before \o after
<1>1. len \in Nat /\ k \in 1..len /\ DOMAIN s = 1..len
  OBVIOUS
<1>3. /\ before \in Seq(RectType) /\ Len(before) = k - 1
      /\ \A i \in 1..k - 1 : before[i] = s[i]
  BY <1>1
<1>4. /\ after \in Seq(RectType) /\ Len(after) = len - k
      /\ \A i \in 1..len - k : after[i] = s[k + i]
  BY <1>1
<1> HIDE DEF before, after, len
<1>5. /\ t \in Seq(RectType)
      /\ Len(t) = (k - 1) + (len - k)
      /\ \A i \in 1..(k - 1) + (len - k) :
           t[i] = IF i <= k - 1 THEN before[i] ELSE after[i - (k - 1)]
  BY <1>3, <1>4, ConcatProperties
<1> HIDE DEF t
<1>6. DOMAIN t = 1..len - 1 /\ Len(t) = len - 1
  BY <1>1, <1>5
<1>7. ASSUME NEW i \in 1..len - 1
      PROVE  /\ i < k => t[i] = s[i]
             /\ i >= k => t[i] = s[i + 1]
  <2>1. i \in 1..(k - 1) + (len - k)
    BY <1>1
  <2>2. CASE i < k
    BY <1>1, <1>3, <1>5, <2>1, <2>2
  <2>3. CASE i >= k
    <3>1. i - (k - 1) \in 1..len - k /\ k + (i - (k - 1)) = i + 1 /\ ~(i <= k - 1)
      BY <1>1, <2>3
    <3>2. t[i] = after[i - (k - 1)] /\ after[i - (k - 1)] = s[i + 1]
      BY <1>4, <1>5, <2>1, <3>1
    <3>3. QED
      BY <1>1, <2>1, <2>3, <3>2
  <2>4. QED
    BY <1>1, <2>2, <2>3
<1>8. RemoveAt(s, k) = t
  BY DEF RemoveAt, t, before, after, len
<1>9. QED
  BY <1>5, <1>6, <1>7, <1>8 DEF len

LEMMA InsertedAt ==
  ASSUME NEW s \in Seq(RectType), NEW r \in RectType, NEW k \in 1..Len(s) + 1
  PROVE  /\ InsertAt(s, k, r) \in Seq(RectType)
         /\ DOMAIN InsertAt(s, k, r) = 1..Len(s) + 1
         /\ Len(InsertAt(s, k, r)) = Len(s) + 1
         /\ \A i \in 1..Len(s) + 1 :
              /\ i < k => InsertAt(s, k, r)[i] = s[i]
              /\ i = k => InsertAt(s, k, r)[i] = r
              /\ i > k => InsertAt(s, k, r)[i] = s[i - 1]
<1> DEFINE len == Len(s)
           before == SubSeq(s, 1, k - 1)
           one    == <<r>>
           after  == SubSeq(s, k, len)
           u      == before \o one
           t      == u \o after
<1>1. len \in Nat /\ k \in 1..len + 1 /\ DOMAIN s = 1..len
  OBVIOUS
<1>2. one \in Seq(RectType) /\ Len(one) = 1 /\ one[1] = r
  OBVIOUS
<1>3. /\ before \in Seq(RectType) /\ Len(before) = k - 1
      /\ \A i \in 1..k - 1 : before[i] = s[i]
  BY <1>1
<1>4. /\ after \in Seq(RectType) /\ Len(after) = len - (k - 1)
      /\ \A i \in 1..len - (k - 1) : after[i] = s[(k - 1) + i]
  BY <1>1
<1> HIDE DEF before, after, one, len
<1>5. /\ u \in Seq(RectType) /\ Len(u) = (k - 1) + 1
      /\ \A i \in 1..(k - 1) + 1 :
           u[i] = IF i <= k - 1 THEN before[i] ELSE one[i - (k - 1)]
  <2>1. /\ u \in Seq(RectType) /\ Len(u) = Len(before) + Len(one)
        /\ \A i \in 1..Len(before) + Len(one) :
             u[i] = IF i <= Len(before) THEN before[i] ELSE one[i - Len(before)]
    BY <1>2, <1>3, ConcatProperties
  <2> HIDE DEF u
  <2> QED BY <1>2, <1>3, <2>1
<1>6. /\ u \in Seq(RectType) /\ Len(u) = k
      /\ \A i \in 1..k : /\ i < k => u[i] = s[i]
                         /\ i = k => u[i] = r
  <2>1. (k - 1) + 1 = k /\ k - (k - 1) = 1 /\ k \in Int
    BY <1>1
  <2>2. ASSUME NEW i \in 1..k
        PROVE  /\ i < k => u[i] = s[i]
               /\ i = k => u[i] = r
    <3> HIDE DEF u
    <3>1. CASE i < k
      BY <1>3, <1>5, <2>1, <3>1
    <3>2. CASE i = k
      BY <1>2, <1>5, <2>1, <3>2
    <3> QED BY <2>1, <3>1, <3>2
  <2> QED BY <1>5, <2>1, <2>2
<1> HIDE DEF u
<1>7. /\ t \in Seq(RectType) /\ Len(t) = k + (len - (k - 1))
      /\ \A i \in 1..k + (len - (k - 1)) :
           t[i] = IF i <= k THEN u[i] ELSE after[i - k]
  <2>1. /\ t \in Seq(RectType) /\ Len(t) = Len(u) + Len(after)
        /\ \A i \in 1..Len(u) + Len(after) :
             t[i] = IF i <= Len(u) THEN u[i] ELSE after[i - Len(u)]
    BY <1>4, <1>6, ConcatProperties
  <2> HIDE DEF t
  <2> QED BY <1>4, <1>6, <2>1
<1> HIDE DEF t
<1>8. DOMAIN t = 1..len + 1 /\ Len(t) = len + 1
  BY <1>1, <1>7
<1>9. ASSUME NEW i \in 1..len + 1
      PROVE  /\ i < k => t[i] = s[i]
             /\ i = k => t[i] = r
             /\ i > k => t[i] = s[i - 1]
  <2>1. i \in 1..k + (len - (k - 1))
    BY <1>1
  <2>2. CASE i <= k
    BY <1>1, <1>6, <1>7, <2>1, <2>2
  <2>3. CASE i > k
    <3>1. i - k \in 1..len - (k - 1) /\ (k - 1) + (i - k) = i - 1 /\ ~(i <= k)
      BY <1>1, <2>3
    <3>2. t[i] = after[i - k] /\ after[i - k] = s[i - 1]
      BY <1>4, <1>7, <2>1, <3>1
    <3>3. QED
      BY <1>1, <2>1, <2>3, <3>2
  <2>4. QED
    BY <1>1, <2>2, <2>3
<1>10. InsertAt(s, k, r) = t
  BY DEF InsertAt, t, u, before, after, one, len
<1>11. QED
  BY <1>7, <1>8, <1>9, <1>10 DEF len

(* insert_rect puts r behind what is not after it. *)
LEMMA InsertPlace ==
  ASSUME NEW s \in Seq(RectType), NEW r \in RectType
  PROVE  \E k \in 1..Len(s) + 1 :
           /\ InsertRect(s, r) = InsertAt(s, k, r)
           /\ \A i \in 1..k - 1 : ~After(s[i], r)
           /\ k <= Len(s) => After(s[k], r)
<1> DEFINE later == {i \in DOMAIN s : After(s[i], r)}
<1>1. Len(s) \in Nat /\ DOMAIN s = 1..Len(s)
  OBVIOUS
<1>2. CASE later = {}
  <2>1. InsertRect(s, r) = InsertAt(s, Len(s) + 1, r)
    BY <1>2 DEF InsertRect
  <2>2. \A i \in 1..Len(s) : ~After(s[i], r)
    BY <1>1, <1>2
  <2>3. /\ Len(s) + 1 \in 1..Len(s) + 1 /\ 1..(Len(s) + 1) - 1 = 1..Len(s)
        /\ ~(Len(s) + 1 <= Len(s))
    BY <1>1
  <2> QED BY <2>1, <2>2, <2>3
<1>3. CASE later # {}
  <2>1. later \subseteq Nat
    BY <1>1
  <2>2. PICK k \in later : \A i \in later : k <= i
    <3> HIDE DEF later
    <3> QED BY <1>3, <2>1, LeastOf
  <2>3. Min(later) \in later /\ \A i \in later : Min(later) <= i
    <3> HIDE DEF later
    <3> QED BY <2>2 DEF Min
  <2>4. Min(later) = k
    <3> DEFINE m == Min(later)
    <3>1. m \in Nat /\ k \in Nat /\ m <= k /\ k <= m
      BY <2>1, <2>2, <2>3
    <3> HIDE DEF m
    <3>2. m = k
      BY <3>1
    <3> QED BY <3>2 DEF m
  <2>5. InsertRect(s, r) = InsertAt(s, k, r)
    BY <1>3, <2>4 DEF InsertRect
  <2>6. \A i \in 1..k - 1 : ~After(s[i], r)
    BY <1>1, <2>2
  <2> QED BY <1>1, <2>2, <2>5, <2>6
<1> QED BY <1>2, <1>3

LEMMA TakenOut ==
  ASSUME NEW s, Proper(s), NEW k \in DOMAIN s
  PROVE  /\ Proper(RemoveAt(s, k))
         /\ \A i \in DOMAIN RemoveAt(s, k) :
              \E j \in DOMAIN s : j # k /\ RemoveAt(s, k)[i] = s[j]
         /\ \A j \in DOMAIN s : j # k =>
              \E i \in DOMAIN RemoveAt(s, k) : RemoveAt(s, k)[i] = s[j]
<1> DEFINE t == RemoveAt(s, k)
           from(i) == IF i < k THEN i ELSE i + 1
<1>1. /\ s \in Seq(RectType) /\ Len(s) \in Nat /\ DOMAIN s = 1..Len(s)
      /\ \A i \in DOMAIN s : NonEmpty(s[i])
      /\ \A i, j \in DOMAIN s : i < j => After(s[j], s[i]) /\ Normal(s[i], s[j])
  BY DEF Proper
<1>2. /\ t \in Seq(RectType) /\ DOMAIN t = 1..Len(s) - 1
      /\ \A i \in 1..Len(s) - 1 :
           /\ i < k => t[i] = s[i]
           /\ i >= k => t[i] = s[i + 1]
  BY <1>1, RemovedAt
<1> HIDE DEF t
<1>3. \A i \in DOMAIN t : from(i) \in DOMAIN s /\ from(i) # k /\ t[i] = s[from(i)]
  BY <1>1, <1>2
<1>4. \A i, j \in DOMAIN t : i < j => from(i) < from(j)
  BY <1>1, <1>2
<1>5. ASSUME NEW j \in DOMAIN s, j # k
      PROVE  \E i \in DOMAIN t : t[i] = s[j]
  <2>1. CASE j < k
    BY <1>1, <1>2, <2>1
  <2>2. CASE j > k
    <3>1. j - 1 \in DOMAIN t /\ j - 1 >= k /\ (j - 1) + 1 = j
      BY <1>1, <1>2, <2>2
    <3> QED BY <1>2, <3>1
  <2> QED BY <1>1, <1>5, <2>1, <2>2
<1>6. Proper(t)
  <2> HIDE DEF from
  <2>1. \A i \in DOMAIN t : NonEmpty(t[i])
    BY <1>1, <1>3
  <2>2. \A i, j \in DOMAIN t : i < j => After(t[j], t[i]) /\ Normal(t[i], t[j])
    BY <1>1, <1>3, <1>4
  <2> QED BY <1>2, <2>1, <2>2 DEF Proper
<1> QED BY <1>3, <1>5, <1>6 DEF t

LEMMA PutIn ==
  ASSUME NEW s, Proper(s), NEW r \in RectType, NonEmpty(r),
         \A i \in DOMAIN s : Normal(s[i], r)
  PROVE  /\ Proper(InsertRect(s, r))
         /\ \A i \in DOMAIN InsertRect(s, r) :
              \/ InsertRect(s, r)[i] = r
              \/ \E j \in DOMAIN s : InsertRect(s, r)[i] = s[j]
         /\ \E i \in DOMAIN InsertRect(s, r) : InsertRect(s, r)[i] = r
         /\ \A j \in DOMAIN s :
              \E i \in DOMAIN InsertRect(s, r) : InsertRect(s, r)[i] = s[j]
<1> DEFINE t == InsertRect(s, r)
<1>1. /\ s \in Seq(RectType) /\ Len(s) \in Nat /\ DOMAIN s = 1..Len(s)
      /\ \A i \in DOMAIN s : NonEmpty(s[i]) /\ s[i] \in RectType
      /\ \A i, j \in DOMAIN s : i < j => After(s[j], s[i]) /\ Normal(s[i], s[j])
  BY DEF Proper
<1>2. PICK k \in 1..Len(s) + 1 :
        /\ InsertRect(s, r) = InsertAt(s, k, r)
        /\ \A i \in 1..k - 1 : ~After(s[i], r)
        /\ k <= Len(s) => After(s[k], r)
  BY <1>1, InsertPlace
<1>3. /\ t \in Seq(RectType) /\ DOMAIN t = 1..Len(s) + 1
      /\ \A i \in 1..Len(s) + 1 :
           /\ i < k => t[i] = s[i]
           /\ i = k => t[i] = r
           /\ i > k => t[i] = s[i - 1]
  <2>1. t = InsertAt(s, k, r)
    BY <1>2
  <2> HIDE DEF t
  <2> QED BY <1>1, <2>1, InsertedAt
<1> HIDE DEF t
<1>4. ASSUME NEW i \in DOMAIN t, i < k
      PROVE  i \in DOMAIN s /\ t[i] = s[i] /\ After(r, s[i])
  <2>1. i \in DOMAIN s /\ t[i] = s[i] /\ ~After(s[i], r)
    BY <1>1, <1>2, <1>3, <1>4
  <2> QED BY <1>1, <2>1, NormalFacts
<1>5. ASSUME NEW i \in DOMAIN t, i > k
      PROVE  i - 1 \in DOMAIN s /\ t[i] = s[i - 1] /\ After(s[i - 1], r)
  <2>1. /\ i - 1 \in DOMAIN s /\ t[i] = s[i - 1]
        /\ k \in DOMAIN s /\ (i - 1 = k \/ k < i - 1) /\ k <= Len(s)
    BY <1>1, <1>2, <1>3, <1>5
  <2>2. After(s[k], r)
    BY <1>2, <2>1
  <2>3. i - 1 = k \/ After(s[i - 1], s[k])
    BY <1>1, <2>1
  <2>4. s[k] \in RectType /\ s[i - 1] \in RectType
    BY <1>1, <2>1
  <2> QED BY <2>1, <2>2, <2>3, <2>4, AfterFacts
<1>6. \A i \in DOMAIN t : i < k \/ i = k \/ i > k
  BY <1>2, <1>3
<1>7. k \in DOMAIN t /\ t[k] = r
  BY <1>2, <1>3
<1>8. ASSUME NEW i \in DOMAIN t, NEW j \in DOMAIN t, i < j
      PROVE  After(t[j], t[i]) /\ Normal(t[i], t[j])
  <2>1. /\ i < k => i \in DOMAIN s /\ t[i] = s[i] /\ After(r, s[i])
        /\ i > k => i - 1 \in DOMAIN s /\ t[i] = s[i - 1] /\ After(s[i - 1], r)
    BY <1>4, <1>5
  <2>2. /\ j < k => j \in DOMAIN s /\ t[j] = s[j] /\ After(r, s[j])
        /\ j > k => j - 1 \in DOMAIN s /\ t[j] = s[j - 1] /\ After(s[j - 1], r)
    BY <1>4, <1>5
  <2>3. /\ i \in Int /\ j \in Int /\ k \in Int
    BY <1>2, <1>3
  <2>4. CASE i < k /\ j < k
    BY <1>1, <1>8, <2>1, <2>2, <2>4
  <2>5. CASE i < k /\ j = k
    BY <1>7, <2>1, <2>5
  <2>6. CASE i < k /\ j > k
    <3>1. i < j - 1
      BY <2>3, <2>6
    <3> QED BY <1>1, <2>1, <2>2, <2>6, <3>1
  <2>7. CASE i = k /\ j > k
    <3>1. t[i] = r /\ t[j] = s[j - 1] /\ j - 1 \in DOMAIN s /\ After(s[j - 1], r)
      BY <1>7, <2>2, <2>7
    <3>2. Normal(r, s[j - 1])
      BY <1>1, <3>1, NormalFacts
    <3> QED BY <3>1, <3>2
  <2>8. CASE i > k /\ j > k
    <3>1. i - 1 < j - 1
      BY <1>8, <2>3
    <3> QED BY <1>1, <2>1, <2>2, <2>8, <3>1
  <2> QED BY <1>8, <2>3, <2>4, <2>5, <2>6, <2>7, <2>8
<1>9. \A i \in DOMAIN t : t[i] = r \/ \E j \in DOMAIN s : t[i] = s[j]
  BY <1>4, <1>5, <1>6, <1>7
<1>10. Proper(t)
  <2>1. \A i \in DOMAIN t : NonEmpty(t[i])
    BY <1>1, <1>9
  <2> QED BY <1>3, <1>8, <2>1 DEF Proper
<1>11. ASSUME NEW j \in DOMAIN s
       PROVE  \E i \in DOMAIN t : t[i] = s[j]
  <2>1. CASE j < k
    BY <1>1, <1>3, <2>1
  <2>2. CASE j >= k
    <3>1. j + 1 \in DOMAIN t /\ j + 1 > k /\ (j + 1) - 1 = j
      BY <1>1, <1>2, <1>3, <2>2
    <3> QED BY <1>3, <3>1
  <2> QED BY <1>1, <1>2, <2>1, <2>2
<1> QED BY <1>7, <1>9, <1>10, <1>11 DEF t

(* Cells. *)
LEMMA CellsFacts ==
  ASSUME NEW r \in RectType
  PROVE  /\ \A l, c \in Int : <<l, c>> \in CellsIn(r) <=> InRect(l, c, r)
         /\ CellsIn(r) \subseteq Int \X Int
         /\ ~NonEmpty(r) => CellsIn(r) = {}
<1>1. /\ r.top \in Int /\ r.left \in Int /\ r.lines \in Int /\ r.cols \in Int
      /\ Bottom(r) \in Int /\ Bottom(r) = r.top + r.lines
      /\ Right(r) \in Int /\ Right(r) = r.left + r.cols
  BY RectInts
<1>2. \A l, c \in Int : <<l, c>> \in CellsIn(r) <=> InRect(l, c, r)
  BY <1>1 DEF CellsIn, InRect
<1>3. CellsIn(r) \subseteq Int \X Int
  BY <1>1 DEF CellsIn
<1>4. ASSUME ~NonEmpty(r) PROVE CellsIn(r) = {}
  <2>1. CASE r.lines <= 0
    BY <1>1, <2>1 DEF CellsIn
  <2>2. CASE r.cols <= 0
    BY <1>1, <2>2 DEF CellsIn
  <2> QED BY <1>1, <1>4, <2>1, <2>2 DEF NonEmpty
<1> QED BY <1>2, <1>3, <1>4

LEMMA CellsOfFacts ==
  ASSUME NEW s \in Seq(RectType)
  PROVE  /\ CellsOf(s) \subseteq Int \X Int
         /\ \A l, c \in Int : <<l, c>> \in CellsOf(s) <=> InSome(l, c, s)
         /\ \A i \in DOMAIN s : CellsIn(s[i]) \subseteq CellsOf(s)
         /\ \A S : (\A i \in DOMAIN s : CellsIn(s[i]) \subseteq S) => CellsOf(s) \subseteq S
<1>1. \A i \in DOMAIN s : s[i] \in RectType
  OBVIOUS
<1>2. \A x : x \in CellsOf(s) <=> \E i \in DOMAIN s : x \in CellsIn(s[i])
  BY DEF CellsOf
<1>3. CellsOf(s) \subseteq Int \X Int
  BY <1>1, <1>2, CellsFacts
<1>4. \A l, c \in Int : <<l, c>> \in CellsOf(s) <=> InSome(l, c, s)
  BY <1>1, <1>2, CellsFacts DEF InSome
<1> QED BY <1>2, <1>3, <1>4

LEMMA CellsTakenOut ==
  ASSUME NEW s, Proper(s), NEW k \in DOMAIN s
  PROVE  CellsOf(s) = CellsOf(RemoveAt(s, k)) \cup CellsIn(s[k])
<1> DEFINE t == RemoveAt(s, k)
<1>1. s \in Seq(RectType) /\ t \in Seq(RectType)
  BY TakenOut DEF Proper
<1>2. /\ \A i \in DOMAIN t : \E j \in DOMAIN s : t[i] = s[j]
      /\ \A j \in DOMAIN s : j # k => \E i \in DOMAIN t : t[i] = s[j]
  BY TakenOut
<1> HIDE DEF t
<1>3. \A i \in DOMAIN t : CellsIn(t[i]) \subseteq CellsOf(s)
  BY <1>1, <1>2, CellsOfFacts
<1>4. \A j \in DOMAIN s : CellsIn(s[j]) \subseteq CellsOf(t) \cup CellsIn(s[k])
  BY <1>1, <1>2, CellsOfFacts
<1>5. CellsOf(t) \subseteq CellsOf(s) /\ CellsOf(s) \subseteq CellsOf(t) \cup CellsIn(s[k])
  BY <1>1, <1>3, <1>4, CellsOfFacts
<1>6. CellsIn(s[k]) \subseteq CellsOf(s)
  BY <1>1, CellsOfFacts
<1> QED BY <1>5, <1>6 DEF t

LEMMA CellsPutIn ==
  ASSUME NEW s, Proper(s), NEW r \in RectType, NonEmpty(r),
         \A i \in DOMAIN s : Normal(s[i], r)
  PROVE  CellsOf(InsertRect(s, r)) = CellsOf(s) \cup CellsIn(r)
<1> DEFINE t == InsertRect(s, r)
<1>1. s \in Seq(RectType) /\ t \in Seq(RectType)
  BY PutIn DEF Proper
<1>2. /\ \A i \in DOMAIN t : t[i] = r \/ \E j \in DOMAIN s : t[i] = s[j]
      /\ \E i \in DOMAIN t : t[i] = r
      /\ \A j \in DOMAIN s : \E i \in DOMAIN t : t[i] = s[j]
  BY PutIn
<1> HIDE DEF t
<1>3. \A i \in DOMAIN t : CellsIn(t[i]) \subseteq CellsOf(s) \cup CellsIn(r)
  BY <1>1, <1>2, CellsOfFacts
<1>4. /\ \A j \in DOMAIN s : CellsIn(s[j]) \subseteq CellsOf(t)
      /\ CellsIn(r) \subseteq CellsOf(t)
  BY <1>1, <1>2, CellsOfFacts
<1>5. CellsOf(t) \subseteq CellsOf(s) \cup CellsIn(r) /\ CellsOf(s) \subseteq CellsOf(t)
  BY <1>1, <1>3, <1>4, CellsOfFacts
<1> QED BY <1>4, <1>5 DEF t
-----------------------------------------------------------------------------
(* The invariant.                                                          *)

(* A call of tickit_rectset_add is under way as long as its argument is in *)
(* adds; the block it has stretched contains the argument.                 *)
AddsShaped ==
  /\ adds # <<>> => fn \in {"add", "subtract"}
  /\ adds # <<>> => NonEmpty(grown) /\ RectContains(grown, adds[1])
  /\ adds = <<>> => grown = Nowhere
  /\ \A i \in DOMAIN adds : NonEmpty(adds[i])
  /\ fn # "none" => NonEmpty(arg)

(* The cells of the set, and those still to be added. *)
AllCells == CellsOf(rects) \cup CellsOf(adds) \cup CellsIn(grown)

NoMore == AllCells \subseteq asked

SetInv == TypeOK /\ Proper(rects) /\ AddsShaped /\ NoMore

(* What a subtraction has taken out so far is in the argument.             *)
TakenSoFar ==
  fn = "subtract" => held \ CellsIn(arg) \subseteq AllCells /\ AllCells \subseteq held

(* While the remains of the rectangle r are added, they are outside of the *)
(* argument, and loose from the set, from each other and from the block    *)
(* being added, which has their columns.  What still meets the argument    *)
(* was there with r.                                                       *)
Remains(r) ==
  /\ NonEmpty(r) /\ Intersects(r, arg)
  /\ SameCols(grown, adds[1]) /\ ~Intersects(grown, arg)
  /\ \A j \in DOMAIN adds : RectContains(r, adds[j]) /\ ~Intersects(adds[j], arg)
  /\ \A j, k \in DOMAIN adds : j # k => Loose(adds[j], adds[k])
  /\ \A j \in 2..Len(adds) : Loose(adds[j], grown)
  /\ \A i \in DOMAIN rects :
       /\ Loose(rects[i], grown)
       /\ \A j \in 2..Len(adds) : Loose(rects[i], adds[j])
       /\ Intersects(rects[i], arg) => Loose(rects[i], r)

(* The scan has passed what is in front of r, at the index at, or at one   *)
(* less when the block being added has swallowed a rectangle in front of   *)
(* r: it comes back to the same place.  Then nothing more is above the     *)
(* block to be swallowed.                                                  *)
Behind(r) == IF After(r, grown) THEN at - 1 ELSE at

ScanStands(r) ==
  /\ Behind(r) \in 1..Len(rects) + 1
  /\ \A i \in DOMAIN rects : i < Behind(r) <=> After(r, rects[i])
  /\ \A i \in DOMAIN rects : After(r, rects[i]) => ~Intersects(rects[i], arg)
  /\ After(r, grown) =>
       \A i \in DOMAIN rects :
         ~(SameCols(rects[i], grown) /\ Bottom(rects[i]) = grown.top)

Scanned ==
  fn = "subtract" =>
    /\ at >= 1
    /\ adds = <<>> =>
         \A i \in DOMAIN rects : i < at => ~Intersects(rects[i], arg)
    /\ adds # <<>> => \E r \in RectType : Remains(r) /\ ScanStands(r)

(* What is looked up now is covered exactly when the argument is.          *)
LookedUp ==
  /\ fn = "contains" =>
       /\ NonEmpty(part)
       /\ CellsIn(arg) \subseteq CellsOf(rects) <=> CellsIn(part) \subseteq CellsOf(rects)
  /\ fn = "answered" => (answer <=> CellsIn(arg) \subseteq CellsOf(rects))

TakeInv == TakenSoFar /\ Scanned
-----------------------------------------------------------------------------
(* The steps of tickit_rectset_add.                                        *)

LEMMA NowhereFacts == Nowhere \in RectType /\ ~NonEmpty(Nowhere) /\ CellsIn(Nowhere) = {}
<1>1. Nowhere \in RectType /\ ~NonEmpty(Nowhere)
  BY DEF Nowhere, InitSized, RectType, NonEmpty
<1> QED BY <1>1, CellsFacts

LEMMA ContainsRefl ==
  ASSUME NEW r \in RectType
  PROVE  RectContains(r, r)
BY RectInts DEF RectContains

LEMMA TailFacts ==
  ASSUME NEW s \in Seq(RectType), s # <<>>
  PROVE  /\ s[1] \in RectType /\ 1 \in DOMAIN s
         /\ Tail(s) \in Seq(RectType) /\ Len(Tail(s)) = Len(s) - 1
         /\ \A i \in DOMAIN Tail(s) : i + 1 \in 2..Len(s) /\ Tail(s)[i] = s[i + 1]
         /\ \A j \in 2..Len(s) : j \in DOMAIN s /\ s[j] \in RectType
         /\ CellsOf(s) = CellsOf(Tail(s)) \cup CellsIn(s[1])
<1> DEFINE t == Tail(s)
<1>1. /\ s[1] \in RectType /\ 1 \in DOMAIN s /\ Len(s) \in Nat
      /\ DOMAIN s = 1..Len(s)
      /\ t \in Seq(RectType) /\ Len(t) = Len(s) - 1
      /\ \A i \in DOMAIN t : i + 1 \in 2..Len(s) /\ t[i] = s[i + 1]
      /\ \A j \in 2..Len(s) : j \in DOMAIN s /\ s[j] \in RectType
  OBVIOUS
<1>2. DOMAIN t = 1..Len(s) - 1
  BY <1>1
<1> HIDE DEF t
<1>3. \A i \in DOMAIN t : CellsIn(t[i]) \subseteq CellsOf(s)
  BY <1>1, CellsOfFacts
<1>4. ASSUME NEW i \in DOMAIN s
      PROVE  CellsIn(s[i]) \subseteq CellsOf(t) \cup CellsIn(s[1])
  <2>1. CASE i = 1
    BY <2>1
  <2>2. CASE i # 1
    <3>1. i - 1 \in DOMAIN t /\ (i - 1) + 1 = i
      BY <1>1, <1>2, <2>2
    <3>2. t[i - 1] = s[i]
      BY <1>1, <3>1
    <3> QED BY <1>1, <3>1, <3>2, CellsOfFacts
  <2> QED BY <2>1, <2>2
<1>5. /\ CellsOf(t) \subseteq CellsOf(s)
      /\ CellsOf(s) \subseteq CellsOf(t) \cup CellsIn(s[1])
      /\ CellsIn(s[1]) \subseteq CellsOf(s)
  BY <1>1, <1>3, <1>4, CellsOfFacts
<1> QED BY <1>1, <1>5 DEF t

LEMMA ContainsTrans ==
  ASSUME NEW r \in RectType, NEW q \in RectType, NEW p \in RectType,
         RectContains(r, q), RectContains(q, p)
  PROVE  RectContains(r, p)
<1>1. /\ r.top \in Int /\ r.left \in Int /\ Bottom(r) \in Int /\ Right(r) \in Int
      /\ q.top \in Int /\ q.left \in Int /\ Bottom(q) \in Int /\ Right(q) \in Int
      /\ p.top \in Int /\ p.left \in Int /\ Bottom(p) \in Int /\ Right(p) \in Int
  BY RectInts
<1> QED BY <1>1 DEF RectContains

LEMMA ContainsSubset ==
  ASSUME NEW r \in RectType, NEW q \in RectType, RectContains(r, q)
  PROVE  CellsIn(q) \subseteq CellsIn(r)
<1>1. /\ r.top \in Int /\ r.left \in Int /\ q.top \in Int /\ q.left \in Int
      /\ Bottom(r) \in Int /\ Right(r) \in Int
      /\ Bottom(q) \in Int /\ Right(q) \in Int
  BY RectInts
<1> QED BY <1>1 DEF CellsIn, RectContains

(* The next call of tickit_rectset_add begins. *)
LEMMA ContinueFacts ==
  ASSUME NEW calls \in Seq(RectType), \A i \in DOMAIN calls : NonEmpty(calls[i]),
         Continue(calls)
  PROVE  /\ adds' = calls /\ grown' \in RectType
         /\ adds' # <<>> => /\ grown' = calls[1] /\ NonEmpty(grown')
                            /\ RectContains(grown', adds'[1])
         /\ adds' = <<>> => grown' = Nowhere
         /\ CellsOf(adds') \cup CellsIn(grown') = CellsOf(calls)
<1>1. CASE calls = <<>>
  BY <1>1, NowhereFacts DEF Continue, Block
<1>2. CASE calls # <<>>
  <2>1. 1 \in DOMAIN calls /\ calls[1] \in RectType
    BY <1>2
  <2>2. adds' = calls /\ grown' = calls[1]
    BY <1>2 DEF Continue, Block
  <2>3. CellsIn(calls[1]) \subseteq CellsOf(calls)
    BY <2>1, CellsOfFacts
  <2> QED BY <1>2, <2>1, <2>2, <2>3, ContainsRefl
<1> QED BY <1>1, <1>2

(* What a turn of tickit_rectset_add can be: the rectangle is already      *)
(* covered by rectangle i, stretched over it, cut anew together with it,   *)
(* or put in.                                                              *)
Decides(i) == DecidesAt(rects, adds[1], grown, i)

Found(i) == Decides(i) /\ \A j \in 1..i - 1 : ~Decides(j)

Covered(i) ==
  /\ Found(i) /\ RectContains(rects[i], adds[1])
  /\ Continue(Tail(adds))
  /\ SetOnly /\ UNCHANGED rects

Stretch(i) ==
  /\ Found(i) /\ ~RectContains(rects[i], adds[1])
  /\ SameRows(rects[i], grown) \/ SameCols(rects[i], grown)
  /\ rects' = RemoveAt(rects, i)
  /\ grown' = Hull(rects[i], grown)
  /\ SetOnly /\ UNCHANGED adds

Split(i) ==
  /\ Found(i) /\ ~RectContains(rects[i], adds[1])
  /\ ~SameRows(rects[i], grown) /\ ~SameCols(rects[i], grown)
  /\ rects' = RemoveAt(rects, i)
  /\ Continue(RectAdd(rects[i], adds[1]) \o Tail(adds))
  /\ SetOnly

Insert ==
  /\ \A i \in DOMAIN rects : ~Decides(i)
  /\ rects' = InsertRect(rects, grown)
  /\ Continue(Tail(adds))
  /\ SetOnly

LEMMA TurnCases ==
  ASSUME rects \in Seq(RectType), adds \in Seq(RectType), grown \in RectType, AddStep
  PROVE  Insert \/ \E i \in DOMAIN rects : Covered(i) \/ Stretch(i) \/ Split(i)
<1> DEFINE now   == [rects |-> rects, adds |-> adds, grown |-> grown]
           found == {i \in DOMAIN rects : Decides(i)}
<1>1. /\ adds # <<>> /\ SetOnly
      /\ rects' = Turn[now].rects /\ adds' = Turn[now].adds
      /\ grown' = Turn[now].grown
  BY DEF AddStep
<1>2. /\ now \in AddCall
      /\ now.rects = rects /\ now.adds = adds /\ now.grown = grown
  BY DEF AddCall
<1>3. found = {i \in DOMAIN now.rects :
                 DecidesAt(now.rects, now.adds[1], now.grown, i)}
  BY <1>2 DEF Decides
<1> HIDE DEF now
<1>4. CASE found = {}
  <2>1. Turn[now] = Adding(InsertRect(rects, grown), Tail(adds))
    BY <1>1, <1>2, <1>3, <1>4, Zenon DEF Turn
  <2> QED BY <1>1, <1>4, <2>1 DEF Insert, Continue, Adding
<1>5. CASE found # {}
  <2> DEFINE i == Min(found)
  <2>1. found \in SUBSET Nat
    OBVIOUS
  <2>2. i \in found /\ \A j \in found : i <= j
    BY <1>5, <2>1, LeastOf, Zenon DEF Min
  <2>3. i \in DOMAIN rects /\ Found(i)
    <3>1. \A j \in 1..i - 1 : j \in DOMAIN rects /\ ~(i <= j)
      BY <2>2
    <3> QED BY <2>2, <3>1 DEF Found
  <2>4. Turn[now] = Meet(now, i)
    BY <1>1, <1>2, <1>3, <1>5, Zenon DEF Turn
  <2> HIDE DEF i, found
  <2>n. Turn[now] =
          IF RectContains(rects[i], adds[1]) THEN Adding(rects, Tail(adds))
          ELSE IF SameRows(rects[i], grown) \/ SameCols(rects[i], grown)
          THEN [rects |-> RemoveAt(rects, i), adds |-> adds,
                grown |-> Hull(rects[i], grown)]
          ELSE Adding(RemoveAt(rects, i), RectAdd(rects[i], adds[1]) \o Tail(adds))
    <3>1. Meet(now, i) =
            IF RectContains(now.rects[i], now.adds[1]) THEN Adding(now.rects, Tail(now.adds))
            ELSE IF SameRows(now.rects[i], now.grown) \/ SameCols(now.rects[i], now.grown)
            THEN [rects |-> RemoveAt(now.rects, i), adds |-> now.adds,
                  grown |-> Hull(now.rects[i], now.grown)]
            ELSE Adding(RemoveAt(now.rects, i), RectAdd(now.rects[i], now.adds[1]) \o Tail(now.adds))
      BY Zenon DEF Meet
    <3> QED BY <1>2, <2>4, <3>1, Zenon
  <2>5. CASE RectContains(rects[i], adds[1])
    BY <1>1, <2>3, <2>n, <2>5 DEF Covered, Continue, Adding
  <2>6. CASE /\ ~RectContains(rects[i], adds[1])
             /\ SameRows(rects[i], grown) \/ SameCols(rects[i], grown)
    BY <1>1, <2>3, <2>n, <2>6 DEF Stretch
  <2>7. CASE /\ ~RectContains(rects[i], adds[1])
             /\ ~SameRows(rects[i], grown) /\ ~SameCols(rects[i], grown)
    <3> DEFINE calls == RectAdd(rects[i], adds[1]) \o Tail(adds)
    <3>1. Turn[now] = Adding(RemoveAt(rects, i), calls)
      BY <2>n, <2>7
    <3> HIDE DEF calls
    <3>2. rects' = RemoveAt(rects, i) /\ Continue(calls)
      BY <1>1, <3>1 DEF Continue, Adding
    <3> QED BY <1>1, <2>3, <2>7, <3>2 DEF Split, calls
  <2> QED BY <2>5, <2>6, <2>7
<1> QED BY <1>4, <1>5

(* Where nothing decides, the block fits into the set. *)
LEMMA NoneDecides ==
  ASSUME SetInv, adds # <<>>, \A i \in DOMAIN rects : ~Decides(i)
  PROVE  \A i \in DOMAIN rects : Normal(rects[i], grown)
<1> SUFFICES ASSUME NEW i \in DOMAIN rects PROVE Normal(rects[i], grown)
  OBVIOUS
<1>1. /\ rects \in Seq(RectType) /\ grown \in RectType
      /\ \A j \in DOMAIN rects : rects[j] \in RectType
      /\ \A j, k \in DOMAIN rects : j < k => After(rects[k], rects[j])
      /\ DOMAIN rects = 1..Len(rects) /\ Len(rects) \in Nat
  BY DEF SetInv, TypeOK, Proper
<1>2. ASSUME NEW j \in 1..i, ~(Bottom(grown) >= rects[j].top)
      PROVE  ~Touches(rects[i], grown)
  <2>1. j \in DOMAIN rects /\ (j = i \/ j < i)
    BY <1>1
  <2>2. rects[i].top >= rects[j].top
    <3>1. /\ rects[i] \in RectType /\ rects[j] \in RectType
          /\ j = i \/ After(rects[i], rects[j])
      BY <1>1, <2>1
    <3> QED BY <3>1, RectInts DEF After
  <2>3. /\ Bottom(grown) \in Int /\ rects[j].top \in Int /\ rects[i].top \in Int
    BY <1>1, <2>1, RectInts
  <2> QED BY <1>2, <2>2, <2>3 DEF Touches
<1>3. Touches(rects[i], grown) =>
        OneAbove(rects[i], grown) /\ ~SameCols(rects[i], grown)
  BY <1>2 DEF Decides, DecidesAt
<1> QED BY <1>3 DEF Normal, Loose

LEMMA CoveredSet ==
  ASSUME SetInv, adds # <<>>, NEW i \in DOMAIN rects, Covered(i)
  PROVE  SetInv'
<1>1. /\ rects' = rects /\ Continue(Tail(adds))
      /\ UNCHANGED <<fn, arg, at, part, answer, asked, held>>
  BY DEF Covered, SetOnly
<1>2. adds \in Seq(RectType) /\ \A j \in DOMAIN adds : NonEmpty(adds[j])
  BY DEF SetInv, TypeOK, AddsShaped
<1>3. /\ Tail(adds) \in Seq(RectType)
      /\ \A j \in DOMAIN Tail(adds) : NonEmpty(Tail(adds)[j])
      /\ CellsOf(Tail(adds)) \subseteq CellsOf(adds)
  BY <1>2, TailFacts
<1>4. /\ adds' = Tail(adds) /\ grown' \in RectType
      /\ adds' # <<>> => NonEmpty(grown') /\ RectContains(grown', adds'[1])
      /\ adds' = <<>> => grown' = Nowhere
      /\ CellsOf(adds') \cup CellsIn(grown') = CellsOf(Tail(adds))
  BY <1>1, <1>3, ContinueFacts
<1>5. TypeOK' /\ Proper(rects)'
  BY <1>1, <1>3, <1>4 DEF SetInv, TypeOK
<1>6. AddsShaped'
  BY <1>1, <1>3, <1>4 DEF SetInv, AddsShaped
<1>7. NoMore'
  BY <1>1, <1>3, <1>4 DEF SetInv, NoMore, AllCells
<1> QED BY <1>5, <1>6, <1>7 DEF SetInv

LEMMA InsertSet ==
  ASSUME SetInv, adds # <<>>, Insert
  PROVE  /\ SetInv'
         /\ rects' = InsertRect(rects, grown) /\ Continue(Tail(adds))
         /\ AllCells' = AllCells
<1>1. /\ rects' = InsertRect(rects, grown) /\ Continue(Tail(adds))
      /\ \A i \in DOMAIN rects : ~Decides(i)
      /\ UNCHANGED <<fn, arg, at, part, answer, asked, held>>
  BY DEF Insert, SetOnly
<1>2. /\ adds \in Seq(RectType) /\ \A j \in DOMAIN adds : NonEmpty(adds[j])
      /\ grown \in RectType /\ NonEmpty(grown) /\ RectContains(grown, adds[1])
      /\ Proper(rects)
  BY DEF SetInv, TypeOK, AddsShaped
<1>3. /\ Tail(adds) \in Seq(RectType) /\ adds[1] \in RectType
      /\ \A j \in DOMAIN Tail(adds) : NonEmpty(Tail(adds)[j])
      /\ CellsOf(adds) = CellsOf(Tail(adds)) \cup CellsIn(adds[1])
  BY <1>2, TailFacts
<1>4. /\ adds' = Tail(adds) /\ grown' \in RectType
      /\ adds' # <<>> => NonEmpty(grown') /\ RectContains(grown', adds'[1])
      /\ adds' = <<>> => grown' = Nowhere
      /\ CellsOf(adds') \cup CellsIn(grown') = CellsOf(Tail(adds))
  BY <1>1, <1>3, ContinueFacts
<1>5. Proper(rects') /\ CellsOf(rects') = CellsOf(rects) \cup CellsIn(grown)
  BY <1>1, <1>2, NoneDecides, PutIn, CellsPutIn
<1>6. TypeOK'
  BY <1>1, <1>3, <1>4, <1>5 DEF SetInv, TypeOK, Proper
<1>7. AddsShaped'
  BY <1>1, <1>3, <1>4 DEF SetInv, AddsShaped
<1>8. AllCells' = AllCells
  <2>1. CellsIn(adds[1]) \subseteq CellsIn(grown)
    BY <1>2, <1>3, ContainsSubset
  <2> QED BY <1>3, <1>4, <1>5, <2>1 DEF AllCells
<1>9. NoMore'
  BY <1>1, <1>8 DEF SetInv, NoMore
<1> QED BY <1>1, <1>5, <1>6, <1>7, <1>8, <1>9 DEF SetInv

LEMMA StretchSet ==
  ASSUME SetInv, adds # <<>>, NEW i \in DOMAIN rects, Stretch(i)
  PROVE  SetInv' /\ AllCells' = AllCells
<1> DEFINE r == rects[i]
<1>1. /\ rects' = RemoveAt(rects, i) /\ grown' = Hull(r, grown)
      /\ SameRows(r, grown) \/ SameCols(r, grown)
      /\ Touches(r, grown)
      /\ adds' = adds
      /\ UNCHANGED <<fn, arg, at, part, answer, asked, held>>
  BY DEF Stretch, SetOnly, Found, Decides, DecidesAt
<1>2. /\ adds \in Seq(RectType) /\ 1 \in DOMAIN adds
      /\ grown \in RectType /\ NonEmpty(grown) /\ RectContains(grown, adds[1])
      /\ Proper(rects) /\ r \in RectType /\ NonEmpty(r)
  BY DEF SetInv, TypeOK, AddsShaped, Proper
<1> HIDE DEF r
<1>3. /\ grown' \in RectType /\ NonEmpty(grown') /\ RectContains(grown', grown)
      /\ \A l, c \in Int : InRect(l, c, grown') <=> InRect(l, c, r) \/ InRect(l, c, grown)
  BY <1>1, <1>2, HullFacts
<1>4. CellsIn(grown') = CellsIn(r) \cup CellsIn(grown)
  <2>1. \A l, c \in Int : <<l, c>> \in CellsIn(grown')
          <=> <<l, c>> \in CellsIn(r) \/ <<l, c>> \in CellsIn(grown)
    BY <1>2, <1>3, CellsFacts
  <2>2. /\ CellsIn(grown') \subseteq Int \X Int /\ CellsIn(r) \subseteq Int \X Int
        /\ CellsIn(grown) \subseteq Int \X Int
    BY <1>2, <1>3, CellsFacts
  <2> QED BY <2>1, <2>2
<1>5. Proper(rects') /\ CellsOf(rects) = CellsOf(rects') \cup CellsIn(r)
  BY <1>1, <1>2, TakenOut, CellsTakenOut DEF r
<1>6. RectContains(grown', adds[1])
  <2>1. adds[1] \in RectType
    BY <1>2
  <2> QED BY <1>2, <1>3, <2>1, ContainsTrans
<1>7. TypeOK'
  BY <1>1, <1>3, <1>5 DEF SetInv, TypeOK, Proper
<1>8. AddsShaped'
  BY <1>1, <1>3, <1>6 DEF SetInv, AddsShaped
<1>9. AllCells' = AllCells
  BY <1>1, <1>4, <1>5 DEF AllCells
<1>10. NoMore'
  BY <1>1, <1>9 DEF SetInv, NoMore
<1> QED BY <1>5, <1>7, <1>8, <1>9, <1>10 DEF SetInv

LEMMA SplitSet ==
  ASSUME SetInv, adds # <<>>, NEW i \in DOMAIN rects, Split(i)
  PROVE  SetInv'
<1> DEFINE r == rects[i]
           new == RectAdd(r, adds[1])
           calls == new \o Tail(adds)
<1>1. /\ rects' = RemoveAt(rects, i) /\ Continue(calls)
      /\ UNCHANGED <<fn, arg, at, part, answer, asked, held>>
  BY DEF Split, SetOnly
<1>2. /\ adds \in Seq(RectType) /\ \A j \in DOMAIN adds : NonEmpty(adds[j])
      /\ Proper(rects) /\ r \in RectType /\ NonEmpty(r)
  BY DEF SetInv, TypeOK, AddsShaped, Proper
<1>3. /\ Tail(adds) \in Seq(RectType) /\ adds[1] \in RectType /\ NonEmpty(adds[1])
      /\ \A j \in DOMAIN Tail(adds) : NonEmpty(Tail(adds)[j])
      /\ CellsOf(adds) = CellsOf(Tail(adds)) \cup CellsIn(adds[1])
  BY <1>2, TailFacts
<1> HIDE DEF r
<1>4. /\ new \in Seq(RectType) /\ \A j \in DOMAIN new : NonEmpty(new[j])
      /\ \A l, c \in Int : InSome(l, c, new) <=> InRect(l, c, r) \/ InRect(l, c, adds[1])
  BY <1>2, <1>3, AddCells, AddClean DEF Clean
<1>5. CellsOf(new) \subseteq CellsIn(r) \cup CellsIn(adds[1])
  <2> HIDE DEF new
  <2>1. \A l, c \in Int : <<l, c>> \in CellsOf(new)
          <=> <<l, c>> \in CellsIn(r) \/ <<l, c>> \in CellsIn(adds[1])
    BY <1>2, <1>3, <1>4, CellsFacts, CellsOfFacts
  <2>2. CellsOf(new) \subseteq Int \X Int
    BY <1>4, CellsOfFacts
  <2> QED BY <2>1, <2>2
<1>6. /\ calls \in Seq(RectType) /\ \A j \in DOMAIN calls : NonEmpty(calls[j])
      /\ CellsOf(calls) \subseteq CellsOf(new) \cup CellsOf(Tail(adds))
  <2> DEFINE rest == Tail(adds)
             n == Len(new)
  <2> HIDE DEF new, rest
  <2>1. /\ calls \in Seq(RectType) /\ n \in Nat /\ DOMAIN calls = 1..n + Len(rest)
        /\ DOMAIN new = 1..n /\ DOMAIN rest = 1..Len(rest) /\ Len(rest) \in Nat
        /\ \A j \in 1..n : calls[j] = new[j]
        /\ \A j \in 1..Len(rest) : calls[n + j] = rest[j]
    BY <1>3, <1>4 DEF rest
  <2> HIDE DEF calls, n
  <2>2. ASSUME NEW j \in DOMAIN calls
        PROVE  \/ j \in DOMAIN new /\ calls[j] = new[j]
               \/ j - n \in DOMAIN rest /\ calls[j] = rest[j - n]
    <3>1. CASE j <= n
      BY <2>1, <3>1
    <3>2. CASE j > n
      <4>1. j - n \in 1..Len(rest) /\ n + (j - n) = j
        BY <2>1, <3>2
      <4> QED BY <2>1, <4>1
    <3> QED BY <2>1, <3>1, <3>2
  <2>3. \A j \in DOMAIN calls : NonEmpty(calls[j])
    BY <1>3, <1>4, <2>2 DEF rest
  <2>4. rest \in Seq(RectType)
    BY <1>3 DEF rest
  <2>5. \A j \in DOMAIN calls : CellsIn(calls[j]) \subseteq CellsOf(new) \cup CellsOf(rest)
    BY <1>4, <2>2, <2>4, CellsOfFacts
  <2> QED BY <2>1, <2>3, <2>5, CellsOfFacts DEF rest
<1> HIDE DEF calls, new
<1>7. /\ adds' = calls /\ grown' \in RectType
      /\ adds' # <<>> => NonEmpty(grown') /\ RectContains(grown', adds'[1])
      /\ adds' = <<>> => grown' = Nowhere
      /\ CellsOf(adds') \cup CellsIn(grown') = CellsOf(calls)
  BY <1>1, <1>6, ContinueFacts
<1>8. Proper(rects') /\ CellsOf(rects) = CellsOf(rects') \cup CellsIn(r)
  BY <1>1, <1>2, TakenOut, CellsTakenOut DEF r
<1>9. TypeOK'
  BY <1>1, <1>6, <1>7, <1>8 DEF SetInv, TypeOK, Proper
<1>10. AddsShaped'
  BY <1>1, <1>6, <1>7 DEF SetInv, AddsShaped
<1>11. NoMore'
  <2>1. AllCells' \subseteq AllCells
    BY <1>3, <1>5, <1>6, <1>7, <1>8 DEF AllCells
  <2> QED BY <1>1, <2>1 DEF SetInv, NoMore
<1> QED BY <1>8, <1>9, <1>10, <1>11 DEF SetInv
-----------------------------------------------------------------------------
(* Adding what remains of a rectangle.                                     *)

LEMMA RectEdges ==
  ASSUME NEW r \in RectType, NonEmpty(r)
  PROVE  /\ r.top \in Int /\ r.left \in Int /\ Bottom(r) \in Int /\ Right(r) \in Int
         /\ r.top < Bottom(r) /\ r.left < Right(r)
BY RectInts DEF NonEmpty

(* In a subtraction no rectangle covers a remain or stands beside it.      *)
LEMMA RemainsDecide ==
  ASSUME SetInv, adds # <<>>, NEW r \in RectType, Remains(r),
         NEW i \in DOMAIN rects, Decides(i)
  PROVE  /\ ~RectContains(rects[i], adds[1])
         /\ Touches(rects[i], grown) /\ OneAbove(rects[i], grown)
         /\ SameCols(rects[i], grown)
<1> DEFINE x == rects[i]
           p == adds[1]
<1>1. /\ x \in RectType /\ NonEmpty(x) /\ p \in RectType /\ NonEmpty(p)
      /\ grown \in RectType /\ NonEmpty(grown) /\ RectContains(grown, p)
  BY TailFacts DEF SetInv, TypeOK, AddsShaped, Proper
<1>2. Touches(x, grown) /\ OneAbove(x, grown)
  BY DEF Decides, DecidesAt, Remains, Loose
<1>3. RectContains(x, p) \/ SameRows(x, grown) \/ SameCols(x, grown)
  BY <1>2 DEF Decides, DecidesAt
<1> HIDE DEF x, p
<1>4. /\ x.top \in Int /\ p.top \in Int /\ grown.top \in Int
      /\ Bottom(x) \in Int /\ Bottom(p) \in Int /\ Bottom(grown) \in Int
      /\ x.top < Bottom(x) /\ p.top < Bottom(p) /\ grown.top < Bottom(grown)
  BY <1>1, RectEdges
<1>5. ~RectContains(x, p)
  BY <1>1, <1>2, <1>4 DEF OneAbove, RectContains
<1>6. ~SameRows(x, grown)
  BY <1>2, <1>4 DEF OneAbove, SameRows
<1> QED BY <1>2, <1>3, <1>5, <1>6 DEF x, p

(* What a remain is joined with does not meet the argument: it was there   *)
(* with r, and stands behind or in front of it in the columns of a remain. *)
LEMMA SwallowOutside ==
  ASSUME NEW r \in RectType, NEW h \in RectType, NEW p \in RectType,
         NEW g \in RectType, NEW x \in RectType,
         NonEmpty(r), NonEmpty(h), NonEmpty(p), NonEmpty(g), NonEmpty(x),
         Intersects(r, h), RectContains(r, p), ~Intersects(p, h),
         RectContains(g, p), SameCols(g, p), ~Intersects(g, h),
         SameCols(x, g), OneAbove(x, g),
         Intersects(x, h) => Loose(x, r)
  PROVE  ~Intersects(x, h)
<1> SUFFICES ASSUME Intersects(x, h) PROVE FALSE
  OBVIOUS
<1>1. /\ r.top \in Int /\ r.left \in Int /\ Bottom(r) \in Int /\ Right(r) \in Int
      /\ h.top \in Int /\ h.left \in Int /\ Bottom(h) \in Int /\ Right(h) \in Int
      /\ p.top \in Int /\ p.left \in Int /\ Bottom(p) \in Int /\ Right(p) \in Int
      /\ g.top \in Int /\ g.left \in Int /\ Bottom(g) \in Int /\ Right(g) \in Int
      /\ x.top \in Int /\ x.left \in Int /\ Bottom(x) \in Int /\ Right(x) \in Int
      /\ r.top < Bottom(r) /\ r.left < Right(r)
      /\ h.top < Bottom(h) /\ h.left < Right(h)
      /\ p.top < Bottom(p) /\ p.left < Right(p)
      /\ g.top < Bottom(g) /\ g.left < Right(g)
      /\ x.top < Bottom(x) /\ x.left < Right(x)
  BY RectInts DEF NonEmpty
<1>2. ~Intersects(x, r)
  BY LooseFacts
<1>3. /\ x.left = p.left /\ Right(x) = Right(p)
      /\ g.left = p.left /\ Right(g) = Right(p)
  BY DEF SameCols
<1>4. p.left < Right(h) /\ h.left < Right(p)
  BY <1>1, <1>3 DEF Intersects
<1>5. /\ Bottom(p) <= h.top \/ Bottom(h) <= p.top
      /\ Bottom(g) <= h.top \/ Bottom(h) <= g.top
  BY <1>1, <1>3, <1>4 DEF Intersects
<1>6. x.top >= Bottom(r) \/ Bottom(x) <= r.top
  BY <1>1, <1>2, <1>3 DEF Intersects, RectContains
<1>7. x.top = Bottom(g) \/ Bottom(x) = g.top
  BY <1>1 DEF OneAbove
<1>8. /\ r.top <= p.top /\ Bottom(p) <= Bottom(r)
      /\ g.top <= p.top /\ Bottom(p) <= Bottom(g)
      /\ r.top < Bottom(h) /\ h.top < Bottom(r)
      /\ x.top < Bottom(h) /\ h.top < Bottom(x)
  BY <1>1 DEF RectContains, Intersects
<1> QED BY <1>1, <1>5, <1>6, <1>7, <1>8

LEMMA HullOutside ==
  ASSUME NEW x \in RectType, NEW g \in RectType, NEW h \in RectType,
         NonEmpty(x), NonEmpty(g), NonEmpty(h), OneAbove(x, g), SameCols(x, g),
         ~Intersects(x, h), ~Intersects(g, h)
  PROVE  ~Intersects(Hull(x, g), h)
<1>1. /\ h.top \in Int /\ h.left \in Int /\ Bottom(h) \in Int /\ Right(h) \in Int
      /\ g.top \in Int /\ g.left \in Int /\ Bottom(g) \in Int /\ Right(g) \in Int
      /\ x.top \in Int /\ x.left \in Int /\ Bottom(x) \in Int /\ Right(x) \in Int
      /\ h.top < Bottom(h) /\ g.top < Bottom(g) /\ x.top < Bottom(x)
  BY RectEdges
<1>2. /\ Hull(x, g).top = MinInt(x.top, g.top) /\ Hull(x, g).left = MinInt(x.left, g.left)
      /\ Bottom(Hull(x, g)) = MaxInt(Bottom(x), Bottom(g))
      /\ Right(Hull(x, g)) = MaxInt(Right(x), Right(g))
  BY <1>1 DEF Hull, InitBounded, MinInt, MaxInt, Bottom, Right
<1>3. Hull(x, g).left = g.left /\ Right(Hull(x, g)) = Right(g) /\ x.left = g.left /\ Right(x) = Right(g)
  BY <1>1, <1>2 DEF SameCols, MinInt, MaxInt
<1>4. CASE x.top = Bottom(g)
  <2>1. Hull(x, g).top = g.top /\ Bottom(Hull(x, g)) = Bottom(x)
    BY <1>1, <1>2, <1>4 DEF MinInt, MaxInt
  <2> QED BY <1>1, <1>3, <1>4, <2>1 DEF Intersects
<1>5. CASE Bottom(x) = g.top
  <2>1. Hull(x, g).top = x.top /\ Bottom(Hull(x, g)) = Bottom(g)
    BY <1>1, <1>2, <1>5 DEF MinInt, MaxInt
  <2> QED BY <1>1, <1>3, <1>5, <2>1 DEF Intersects
<1> QED BY <1>4, <1>5 DEF OneAbove

(* What the rectangle is stretched to has the place of the upper one.      *)
LEMMA HullPlace ==
  ASSUME NEW x \in RectType, NEW g \in RectType, NonEmpty(x), NonEmpty(g),
         SameCols(x, g), OneAbove(x, g)
  PROVE  /\ SameCols(Hull(x, g), g)
         /\ Bottom(x) = g.top => Hull(x, g).top = x.top /\ Hull(x, g).left = x.left
         /\ x.top = Bottom(g) => Hull(x, g).top = g.top /\ Hull(x, g).left = g.left
         /\ x.top = Bottom(g) \/ Bottom(x) = g.top
<1>1. /\ g.top \in Int /\ g.left \in Int /\ Bottom(g) \in Int /\ Right(g) \in Int
      /\ x.top \in Int /\ x.left \in Int /\ Bottom(x) \in Int /\ Right(x) \in Int
      /\ x.top < Bottom(x) /\ g.top < Bottom(g)
  BY RectInts DEF NonEmpty
<1>2. /\ Hull(x, g).top = MinInt(x.top, g.top) /\ Hull(x, g).left = MinInt(x.left, g.left)
      /\ Right(Hull(x, g)) = MaxInt(Right(x), Right(g))
  BY <1>1 DEF Hull, InitBounded, MinInt, MaxInt, Right
<1> QED BY <1>1, <1>2 DEF SameCols, OneAbove, MinInt, MaxInt

LEMMA StretchRemains ==
  ASSUME SetInv, adds # <<>>, NEW r \in RectType, Remains(r),
         NEW i \in DOMAIN rects, Stretch(i)
  PROVE  Remains(r)'
<1> DEFINE x == rects[i]
<1>1. /\ rects' = RemoveAt(rects, i) /\ grown' = Hull(x, grown)
      /\ Decides(i)
      /\ adds' = adds /\ arg' = arg
  BY DEF Stretch, SetOnly, Found
<1>2. /\ adds \in Seq(RectType) /\ \A j \in DOMAIN adds : NonEmpty(adds[j]) /\ adds[j] \in RectType
      /\ grown \in RectType /\ NonEmpty(grown) /\ RectContains(grown, adds[1])
      /\ Proper(rects) /\ x \in RectType /\ NonEmpty(x)
      /\ arg \in RectType /\ NonEmpty(arg)
      /\ 1 \in DOMAIN adds /\ \A j \in 2..Len(adds) : j \in DOMAIN adds
  BY DEF SetInv, TypeOK, AddsShaped, Proper
<1>3. Touches(x, grown) /\ OneAbove(x, grown) /\ SameCols(x, grown)
  BY <1>1, RemainsDecide
<1>4. ~Intersects(x, arg)
  BY <1>2, <1>3, SwallowOutside DEF Remains
<1>5. ~Intersects(grown', arg)
  BY <1>1, <1>2, <1>3, <1>4, HullOutside DEF Remains
<1>6. SameCols(grown', adds[1])
  <2>1. SameCols(Hull(x, grown), grown)
    BY <1>2, <1>3, HullPlace
  <2> QED BY <1>1, <2>1 DEF Remains, SameCols
<1>7. ASSUME NEW t \in RectType, NonEmpty(t), Loose(t, x), Loose(t, grown)
      PROVE  Loose(t, grown')
  <2>1. Loose(x, grown)
    BY DEF Remains
  <2> QED BY <1>1, <1>2, <1>3, <1>7, <2>1, HullLoose
<1>8. ASSUME NEW m \in DOMAIN rects'
      PROVE  \E j \in DOMAIN rects :
               rects'[m] = rects[j] /\ Loose(rects[j], x) /\ rects[j] \in RectType
               /\ NonEmpty(rects[j])
  <2>1. PICK j \in DOMAIN rects : j # i /\ rects'[m] = rects[j]
    BY <1>1, <1>2, <1>8, TakenOut
  <2>2. /\ rects[j] \in RectType /\ NonEmpty(rects[j])
        /\ Normal(rects[j], x) \/ Normal(x, rects[j])
    BY <1>2, <2>1 DEF Proper
  <2>3. Loose(rects[j], x)
    BY <1>2, <2>2, LooseFacts DEF Normal
  <2> QED BY <2>1, <2>2, <2>3
<1>9. ASSUME NEW m \in DOMAIN rects'
      PROVE  /\ Loose(rects'[m], grown')
             /\ \A j \in 2..Len(adds) : Loose(rects'[m], adds[j])
             /\ Intersects(rects'[m], arg) => Loose(rects'[m], r)
  BY <1>7, <1>8 DEF Remains
<1>10. ASSUME NEW j \in 2..Len(adds)
       PROVE  Loose(adds[j], grown')
  <2>1. adds[j] \in RectType /\ NonEmpty(adds[j]) /\ Loose(x, adds[j]) /\ Loose(adds[j], grown)
    BY <1>2 DEF Remains
  <2>2. Loose(adds[j], x)
    BY <1>2, <2>1, LooseFacts
  <2> QED BY <1>7, <2>1, <2>2
<1> HIDE DEF x
<1> QED BY <1>1, <1>5, <1>6, <1>9, <1>10 DEF Remains

LEMMA StretchScan ==
  ASSUME SetInv, adds # <<>>, NEW r \in RectType, Remains(r), ScanStands(r),
         NEW i \in DOMAIN rects, Stretch(i)
  PROVE  ScanStands(r)'
<1> DEFINE x == rects[i]
           n == Behind(r)
           from(m) == IF m < i THEN m ELSE m + 1
<1>1. /\ rects' = RemoveAt(rects, i) /\ grown' = Hull(x, grown)
      /\ Decides(i)
      /\ adds' = adds /\ arg' = arg /\ at' = at
  BY DEF Stretch, SetOnly, Found
<1>2. /\ grown \in RectType /\ NonEmpty(grown) /\ RectContains(grown, adds[1])
      /\ 1 \in DOMAIN adds /\ adds[1] \in RectType /\ NonEmpty(adds[1])
      /\ Proper(rects) /\ x \in RectType /\ NonEmpty(x)
      /\ rects \in Seq(RectType) /\ Len(rects) \in Nat /\ DOMAIN rects = 1..Len(rects)
      /\ at \in Nat
  BY TailFacts DEF SetInv, TypeOK, AddsShaped, Proper
<1>3. Touches(x, grown) /\ OneAbove(x, grown) /\ SameCols(x, grown)
  BY <1>1, RemainsDecide
<1>4. /\ grown' \in RectType /\ SameCols(grown', grown)
      /\ Bottom(x) = grown.top => grown'.top = x.top /\ grown'.left = x.left
      /\ x.top = Bottom(grown) => grown'.top = grown.top /\ grown'.left = grown.left
      /\ x.top = Bottom(grown) \/ Bottom(x) = grown.top
  BY <1>1, <1>2, <1>3, HullPlace, HullFacts
<1>5. /\ n \in 1..Len(rects) + 1
      /\ \A m \in DOMAIN rects : m < n <=> After(r, rects[m])
      /\ \A m \in DOMAIN rects : After(r, rects[m]) => ~Intersects(rects[m], arg)
      /\ After(r, grown) =>
           \A m \in DOMAIN rects :
             ~(SameCols(rects[m], grown) /\ Bottom(rects[m]) = grown.top)
      /\ n = IF After(r, grown) THEN at - 1 ELSE at
  BY DEF ScanStands, Behind
<1>6. /\ DOMAIN rects' = 1..Len(rects) - 1 /\ Len(rects') = Len(rects) - 1
      /\ \A m \in DOMAIN rects' : /\ from(m) \in DOMAIN rects /\ from(m) # i
                                  /\ rects'[m] = rects[from(m)]
  <2>1. /\ RemoveAt(rects, i) \in Seq(RectType)
        /\ DOMAIN RemoveAt(rects, i) = 1..Len(rects) - 1
        /\ \A m \in 1..Len(rects) - 1 :
             /\ m < i => RemoveAt(rects, i)[m] = rects[m]
             /\ m >= i => RemoveAt(rects, i)[m] = rects[m + 1]
    BY <1>2, RemovedAt
  <2>2. Len(RemoveAt(rects, i)) = Len(rects) - 1
    BY <1>2, RemovedAt
  <2> QED BY <1>1, <1>2, <2>1, <2>2
<1>7. /\ r.top \in Int /\ r.left \in Int
      /\ grown.top \in Int /\ grown.left \in Int /\ Bottom(grown) \in Int
      /\ x.top \in Int /\ x.left \in Int /\ Bottom(x) \in Int
      /\ grown'.top \in Int /\ grown'.left \in Int
      /\ x.top < Bottom(x) /\ grown.top < Bottom(grown)
      /\ x.left = grown.left
      /\ adds[1].top \in Int /\ Bottom(adds[1]) \in Int
      /\ adds[1].top < Bottom(adds[1])
  BY <1>2, <1>3, <1>4, RectInts, RectEdges DEF SameCols
<1>8. r.top < Bottom(grown)
  <2>1. r.top <= adds[1].top /\ Bottom(adds[1]) <= Bottom(grown)
    BY <1>2 DEF Remains, RectContains
  <2> QED BY <1>7, <2>1
<1> HIDE DEF x, n
(* What is in front of r and swallowed is above the block. *)
<1>9. CASE After(r, x)
  <2>1. Bottom(x) = grown.top
    BY <1>4, <1>7, <1>8, <1>9 DEF After
  <2>2. ~After(r, grown) /\ n = at
    BY <1>3, <1>5, <2>1 DEF x
  <2>3. After(r, grown')
    BY <1>4, <1>7, <1>9, <2>1 DEF After
  <2>4. Behind(r)' = at - 1
    BY <1>1, <2>3 DEF Behind
  <2>5. i < at
    BY <1>5, <1>9, <2>2 DEF x
  <2>6. at - 1 \in 1..Len(rects') + 1
    BY <1>2, <1>5, <1>6, <2>2, <2>5
  <2>7. \A m \in DOMAIN rects' : m < at - 1 <=> After(r, rects'[m])
    <3> SUFFICES ASSUME NEW m \in DOMAIN rects'
                 PROVE  m < at - 1 <=> After(r, rects'[m])
      OBVIOUS
    <3>1. m < at - 1 <=> from(m) < at
      BY <1>2, <1>6, <2>5
    <3> HIDE DEF from
    <3> QED BY <1>5, <1>6, <2>2, <3>1
  <2>8. \A m \in DOMAIN rects' :
          ~(SameCols(rects'[m], grown') /\ Bottom(rects'[m]) = grown'.top)
    <3> SUFFICES ASSUME NEW m \in DOMAIN rects', SameCols(rects'[m], grown'),
                        Bottom(rects'[m]) = grown'.top
                 PROVE  FALSE
      OBVIOUS
    <3>1. PICK t \in RectType :
            /\ t = rects'[m] /\ NonEmpty(t)
            /\ Normal(t, x) \/ Normal(x, t)
      <4> HIDE DEF from
      <4> QED BY <1>2, <1>6 DEF Proper, x
    <3>2. Normal(t, x)
      BY <1>2, <3>1, NormalFacts
    <3>3. SameCols(t, x) /\ Bottom(t) = x.top
      BY <1>3, <1>4, <2>1, <3>1 DEF SameCols
    <3>4. Touches(t, x)
      BY <1>2, <3>1, <3>3, RectEdges DEF Touches, SameCols
    <3> QED BY <3>2, <3>3, <3>4 DEF Normal
  <2>9. \A m \in DOMAIN rects' : After(r, rects'[m]) => ~Intersects(rects'[m], arg)
    <3> HIDE DEF from
    <3> QED BY <1>5, <1>6
  <2> QED BY <1>1, <2>4, <2>6, <2>7, <2>8, <2>9 DEF ScanStands
<1>10. CASE ~After(r, x)
  <2>1. After(r, grown') <=> After(r, grown)
    <3>1. CASE x.top = Bottom(grown)
      BY <1>4, <3>1 DEF After
    <3>2. CASE Bottom(x) = grown.top
      BY <1>4, <1>7, <1>10, <3>2 DEF After
    <3> QED BY <1>4, <3>1, <3>2
  <2>2. Behind(r)' = n
    BY <1>1, <1>5, <2>1 DEF Behind
  <2>3. n <= i
    BY <1>2, <1>5, <1>10 DEF x
  <2>4. n \in 1..Len(rects') + 1
    BY <1>2, <1>5, <1>6, <2>3
  <2>5. \A m \in DOMAIN rects' : m < n <=> After(r, rects'[m])
    <3> SUFFICES ASSUME NEW m \in DOMAIN rects'
                 PROVE  m < n <=> After(r, rects'[m])
      OBVIOUS
    <3>1. m < n <=> from(m) < n
      BY <1>2, <1>5, <1>6, <2>3
    <3> HIDE DEF from
    <3> QED BY <1>5, <1>6, <3>1
  <2>6. ASSUME After(r, grown')
        PROVE  \A m \in DOMAIN rects' :
                 ~(SameCols(rects'[m], grown') /\ Bottom(rects'[m]) = grown'.top)
    <3>1. Bottom(x) # grown.top
      BY <1>3, <1>5, <2>1, <2>6 DEF x
    <3>2. grown'.top = grown.top
      BY <1>4, <3>1
    <3> HIDE DEF from
    <3> QED BY <1>4, <1>5, <1>6, <2>1, <2>6, <3>2 DEF SameCols
  <2>7. \A m \in DOMAIN rects' : After(r, rects'[m]) => ~Intersects(rects'[m], arg)
    <3> HIDE DEF from
    <3> QED BY <1>5, <1>6
  <2> QED BY <1>1, <2>2, <2>4, <2>5, <2>6, <2>7 DEF ScanStands
<1> QED BY <1>9, <1>10
(* The block goes to the set, and the scan stands where it stood before.   *)
LEMMA InsertScan ==
  ASSUME SetInv, adds # <<>>, NEW r \in RectType, Remains(r), ScanStands(r), Insert
  PROVE  /\ at \in 1..Len(rects') + 1
         /\ \A m \in DOMAIN rects' : m < at <=> After(r, rects'[m])
         /\ \A m \in DOMAIN rects' : After(r, rects'[m]) => ~Intersects(rects'[m], arg)
<1> DEFINE n == Behind(r)
           t == InsertRect(rects, grown)
<1>1. rects' = t /\ \A i \in DOMAIN rects : ~Decides(i)
  BY DEF Insert
<1>2. /\ rects \in Seq(RectType) /\ Len(rects) \in Nat /\ DOMAIN rects = 1..Len(rects)
      /\ grown \in RectType /\ at \in Nat
      /\ \A i \in DOMAIN rects : rects[i] \in RectType
  BY DEF SetInv, TypeOK
<1>3. /\ n \in 1..Len(rects) + 1
      /\ \A m \in DOMAIN rects : m < n <=> After(r, rects[m])
      /\ \A m \in DOMAIN rects : After(r, rects[m]) => ~Intersects(rects[m], arg)
      /\ n = IF After(r, grown) THEN at - 1 ELSE at
  BY DEF ScanStands, Behind
<1>4. PICK k \in 1..Len(rects) + 1 :
        /\ InsertRect(rects, grown) = InsertAt(rects, k, grown)
        /\ \A i \in 1..k - 1 : ~After(rects[i], grown)
        /\ k <= Len(rects) => After(rects[k], grown)
  BY <1>2, InsertPlace
<1>5. /\ DOMAIN t = 1..Len(rects) + 1 /\ Len(t) = Len(rects) + 1
      /\ \A i \in 1..Len(rects) + 1 :
           /\ i < k => t[i] = rects[i]
           /\ i = k => t[i] = grown
           /\ i > k => t[i] = rects[i - 1]
  <2>1. t = InsertAt(rects, k, grown)
    BY <1>4
  <2> HIDE DEF t
  <2> QED BY <1>2, <2>1, InsertedAt
<1>6. ~Intersects(grown, arg)
  BY DEF Remains
<1> HIDE DEF n, t
<1>7. \A m \in DOMAIN t :
        /\ m < k => m \in DOMAIN rects /\ t[m] = rects[m]
        /\ m = k => t[m] = grown
        /\ m > k => m - 1 \in DOMAIN rects /\ t[m] = rects[m - 1]
        /\ m < k \/ m = k \/ m > k
  BY <1>2, <1>4, <1>5
<1>8. \A m \in DOMAIN t : After(r, t[m]) => ~Intersects(t[m], arg)
  BY <1>3, <1>6, <1>7
<1>9. CASE After(r, grown)
  <2>1. n = at - 1
    BY <1>3, <1>9
  <2>2. k <= n
    <3> SUFFICES ASSUME k > n PROVE FALSE
      BY <1>2, <1>3, <1>4
    <3>1. n \in 1..k - 1 /\ n \in DOMAIN rects
      BY <1>2, <1>3, <1>4
    <3>2. ~After(rects[n], grown) /\ ~After(r, rects[n])
      BY <1>2, <1>3, <1>4, <3>1
    <3>3. rects[n] \in RectType
      BY <1>2, <3>1
    <3> QED BY <1>2, <1>9, <3>2, <3>3, AfterFacts
  <2>3. ASSUME NEW m \in DOMAIN t
        PROVE  m < at <=> After(r, t[m])
    <3>1. CASE m < k
      <4>1. m < n /\ m < at
        BY <1>2, <1>3, <1>5, <2>1, <2>2, <3>1
      <4> QED BY <1>3, <1>7, <3>1, <4>1
    <3>2. CASE m = k
      <4>1. m < at
        BY <1>2, <1>3, <1>5, <2>1, <2>2, <3>2
      <4> QED BY <1>7, <1>9, <3>2, <4>1
    <3>3. CASE m > k
      <4>1. m - 1 < n <=> m < at
        BY <1>2, <1>3, <1>5, <2>1
      <4> QED BY <1>3, <1>7, <3>3, <4>1
    <3> QED BY <1>7, <3>1, <3>2, <3>3
  <2>4. at \in 1..Len(t) + 1
    BY <1>2, <1>3, <1>5, <2>1
  <2> QED BY <1>1, <1>8, <2>3, <2>4
<1>10. CASE ~After(r, grown)
  <2>1. n = at
    BY <1>3, <1>10
  <2>2. k >= n
    <3> SUFFICES ASSUME k < n PROVE FALSE
      BY <1>2, <1>3, <1>4
    <3>1. k <= Len(rects) /\ k \in DOMAIN rects
      BY <1>2, <1>3, <1>4
    <3>2. After(rects[k], grown) /\ After(r, rects[k])
      BY <1>3, <1>4, <3>1
    <3>3. rects[k] \in RectType
      BY <1>2, <3>1
    <3> QED BY <1>2, <1>10, <3>2, <3>3, AfterFacts
  <2>3. ASSUME NEW m \in DOMAIN t
        PROVE  m < at <=> After(r, t[m])
    <3>1. CASE m < k
      BY <1>3, <1>7, <2>1, <3>1
    <3>2. CASE m = k
      <4>1. ~(m < at)
        BY <1>2, <1>3, <1>4, <1>5, <2>1, <2>2, <3>2
      <4> QED BY <1>7, <1>10, <3>2, <4>1
    <3>3. CASE m > k
      <4>1. m - 1 < n <=> m < at
        BY <1>2, <1>3, <1>4, <1>5, <2>1, <2>2, <3>3
      <4> QED BY <1>3, <1>7, <3>3, <4>1
    <3> QED BY <1>7, <3>1, <3>2, <3>3
  <2>4. at \in 1..Len(t) + 1
    BY <1>2, <1>3, <1>5, <2>1
  <2> QED BY <1>1, <1>8, <2>3, <2>4
<1> QED BY <1>9, <1>10

LEMMA NotAfterPart ==
  ASSUME NEW r \in RectType, NEW p \in RectType, RectContains(r, p)
  PROVE  ~After(r, p)
BY RectInts DEF RectContains, After

(* After a block has been put in, the next remain is added, if there is one. *)
LEMMA InsertTake ==
  ASSUME SetInv, adds # <<>>, fn = "subtract", TakeInv, Insert
  PROVE  TakeInv'
<1>1. PICK r \in RectType : Remains(r) /\ ScanStands(r)
  BY DEF TakeInv, Scanned
<1>2. /\ rects' = InsertRect(rects, grown) /\ Continue(Tail(adds))
      /\ AllCells' = AllCells
      /\ UNCHANGED <<fn, arg, at, part, answer, asked, held>>
  BY InsertSet DEF Insert, SetOnly
<1>3. /\ adds \in Seq(RectType) /\ \A j \in DOMAIN adds : NonEmpty(adds[j]) /\ adds[j] \in RectType
      /\ grown \in RectType /\ NonEmpty(grown) /\ RectContains(grown, adds[1])
      /\ Proper(rects) /\ \A i \in DOMAIN rects : Normal(rects[i], grown)
      /\ \A i \in DOMAIN rects : rects[i] \in RectType
  BY NoneDecides DEF SetInv, TypeOK, AddsShaped, Proper, Insert
<1>4. /\ Tail(adds) \in Seq(RectType) /\ Len(Tail(adds)) = Len(adds) - 1
      /\ \A j \in DOMAIN Tail(adds) : j + 1 \in 2..Len(adds) /\ Tail(adds)[j] = adds[j + 1]
      /\ \A j \in DOMAIN Tail(adds) : NonEmpty(Tail(adds)[j])
      /\ \A j \in 2..Len(adds) : j \in DOMAIN adds
      /\ Len(adds) \in Nat
  BY <1>3, TailFacts
<1>5. /\ adds' = Tail(adds)
      /\ adds' # <<>> => grown' = Tail(adds)[1]
  BY <1>2, <1>4, ContinueFacts
<1>6. /\ at \in 1..Len(rects') + 1
      /\ \A m \in DOMAIN rects' : m < at <=> After(r, rects'[m])
      /\ \A m \in DOMAIN rects' : After(r, rects'[m]) => ~Intersects(rects'[m], arg)
  BY <1>1, InsertScan
<1>7. TakenSoFar'
  BY <1>2 DEF TakeInv, TakenSoFar
<1>8. CASE adds' = <<>>
  <2>1. \A m \in DOMAIN rects' : m < at => ~Intersects(rects'[m], arg)
    BY <1>6
  <2> QED BY <1>2, <1>6, <1>7, <1>8, <2>1 DEF TakeInv, Scanned
<1>9. CASE adds' # <<>>
  <2> DEFINE next == Tail(adds)
  <2>1. /\ 1 \in DOMAIN next /\ next[1] \in RectType /\ NonEmpty(next[1])
        /\ 2 \in DOMAIN adds /\ 2 \in 2..Len(adds) /\ next[1] = adds[2]
        /\ grown' = next[1]
    BY <1>4, <1>5, <1>9
  <2>2. \A j \in DOMAIN next : j + 1 \in DOMAIN adds /\ next[j] = adds[j + 1]
    BY <1>4
  <2>3. \A j \in 2..Len(next) : j \in DOMAIN next /\ j + 1 \in 2..Len(adds) /\ j + 1 # 2
    BY <1>4
  <2>4. /\ SameCols(grown', next[1])
        /\ ~Intersects(grown', arg)
    BY <1>1, <2>1 DEF Remains, SameCols
  <2>5. \A j \in DOMAIN next : RectContains(r, next[j]) /\ ~Intersects(next[j], arg)
    BY <1>1, <2>2 DEF Remains
  <2>6. \A j, k \in DOMAIN next : j # k => Loose(next[j], next[k])
    <3> SUFFICES ASSUME NEW j \in DOMAIN next, NEW k \in DOMAIN next, j # k
                 PROVE  Loose(next[j], next[k])
      OBVIOUS
    <3>1. j + 1 # k + 1
      BY <1>4
    <3> QED BY <1>1, <2>2, <3>1 DEF Remains
  <2>7. \A j \in 2..Len(next) : Loose(next[j], grown')
    BY <1>1, <2>1, <2>2, <2>3 DEF Remains
  <2>8. ASSUME NEW m \in DOMAIN rects'
        PROVE  /\ \A j \in DOMAIN next : Loose(rects'[m], next[j])
               /\ Intersects(rects'[m], arg) => Loose(rects'[m], r)
    <3>1. rects'[m] = grown \/ \E i \in DOMAIN rects : rects'[m] = rects[i]
      BY <1>2, <1>3, PutIn
    <3>2. ASSUME NEW j \in DOMAIN next PROVE Loose(grown, next[j])
      <4>1. Loose(adds[j + 1], grown) /\ adds[j + 1] \in RectType /\ next[j] = adds[j + 1]
        BY <1>1, <1>3, <1>4, <2>2 DEF Remains
      <4> QED BY <1>3, <4>1, LooseFacts
    <3>3. ASSUME NEW j \in DOMAIN next, NEW i \in DOMAIN rects PROVE Loose(rects[i], next[j])
      BY <1>1, <1>4, <2>2 DEF Remains
    <3> HIDE DEF next
    <3> QED BY <1>1, <3>1, <3>2, <3>3 DEF Remains
  <2>9. Remains(r)'
    <3>1. adds' = next /\ arg' = arg
      BY <1>2, <1>5
    <3>2. \A m \in DOMAIN rects' :
            /\ Loose(rects'[m], grown')
            /\ \A j \in 2..Len(next) : Loose(rects'[m], next[j])
            /\ Intersects(rects'[m], arg) => Loose(rects'[m], r)
      BY <2>1, <2>3, <2>8
    <3>3. NonEmpty(r) /\ Intersects(r, arg)
      BY <1>1 DEF Remains
    <3> HIDE DEF next
    <3> QED BY <2>4, <2>5, <2>6, <2>7, <3>1, <3>2, <3>3 DEF Remains
  <2>10. ScanStands(r)'
    <3>1. ~After(r, grown')
      BY <2>1, <2>5, NotAfterPart
    <3>2. Behind(r)' = at
      BY <1>2, <3>1 DEF Behind
    <3> QED BY <1>2, <1>6, <3>1, <3>2 DEF ScanStands
  <2>11. at' >= 1
    BY <1>2, <1>6
  <2> QED BY <1>2, <1>7, <1>9, <2>9, <2>10, <2>11 DEF TakeInv, Scanned
<1> QED BY <1>8, <1>9

LEMMA StretchTake ==
  ASSUME SetInv, adds # <<>>, fn = "subtract", TakeInv,
         NEW i \in DOMAIN rects, Stretch(i)
  PROVE  TakeInv'
<1>1. PICK r \in RectType : Remains(r) /\ ScanStands(r)
  BY DEF TakeInv, Scanned
<1>2. /\ adds' = adds /\ AllCells' = AllCells
      /\ UNCHANGED <<fn, arg, at, part, answer, asked, held>>
  BY StretchSet DEF Stretch, SetOnly
<1>3. Remains(r)' /\ ScanStands(r)'
  BY <1>1, StretchRemains, StretchScan
<1>4. TakenSoFar'
  BY <1>2 DEF TakeInv, TakenSoFar
<1> QED BY <1>2, <1>3, <1>4 DEF TakeInv, Scanned

LEMMA NoSplitInTake ==
  ASSUME SetInv, adds # <<>>, fn = "subtract", TakeInv,
         NEW i \in DOMAIN rects, Covered(i) \/ Split(i)
  PROVE  FALSE
<1>1. PICK r \in RectType : Remains(r) /\ ScanStands(r)
  BY DEF TakeInv, Scanned
<1>2. Decides(i)
  BY DEF Covered, Split, Found
<1> QED BY <1>1, <1>2, RemainsDecide DEF Covered, Split
-----------------------------------------------------------------------------
(* The steps of tickit_rectset_subtract.                                   *)

(* What remains of a rectangle is part of it, and outside of the hole.     *)
LEMMA SubtractParts ==
  ASSUME NEW o \in RectType, NEW h \in RectType, NonEmpty(o), NonEmpty(h)
  PROVE  /\ Subtract(o, h) \in Seq(RectType) /\ Clean(Subtract(o, h))
         /\ CellsOf(Subtract(o, h)) = CellsIn(o) \ CellsIn(h)
         /\ \A i \in DOMAIN Subtract(o, h) :
              RectContains(o, Subtract(o, h)[i]) /\ ~Intersects(Subtract(o, h)[i], h)
<1> DEFINE s == Subtract(o, h)
<1>1. /\ s \in Seq(RectType) /\ Clean(s)
      /\ \A l, c \in Int : InSome(l, c, s) <=> InRect(l, c, o) /\ ~InRect(l, c, h)
  BY SubtractCells, SubtractClean
<1> HIDE DEF s
<1>2. CellsOf(s) = CellsIn(o) \ CellsIn(h)
  <2>1. \A l, c \in Int : <<l, c>> \in CellsOf(s)
          <=> <<l, c>> \in CellsIn(o) /\ ~(<<l, c>> \in CellsIn(h))
    BY <1>1, CellsFacts, CellsOfFacts
  <2>2. CellsOf(s) \subseteq Int \X Int /\ CellsIn(o) \subseteq Int \X Int
    BY <1>1, CellsFacts, CellsOfFacts
  <2> QED BY <2>1, <2>2
<1>3. ASSUME NEW i \in DOMAIN s
      PROVE  RectContains(o, s[i]) /\ ~Intersects(s[i], h)
  <2> DEFINE p == s[i]
  <2>1. p \in RectType /\ NonEmpty(p)
    BY <1>1 DEF Clean
  <2>2. \A l, c \in Int : InRect(l, c, p) => InRect(l, c, o) /\ ~InRect(l, c, h)
    BY <1>1 DEF InSome
  <2> HIDE DEF p
  <2>3. /\ p.top \in Int /\ p.left \in Int /\ Bottom(p) \in Int /\ Right(p) \in Int
        /\ p.top < Bottom(p) /\ p.left < Right(p)
        /\ h.top \in Int /\ h.left \in Int /\ Bottom(h) \in Int /\ Right(h) \in Int
        /\ h.top < Bottom(h) /\ h.left < Right(h)
        /\ o.top \in Int /\ o.left \in Int /\ Bottom(o) \in Int /\ Right(o) \in Int
    BY <2>1, RectEdges
  <2>4. RectContains(o, p)
    <3>1. InRect(p.top, p.left, p) /\ InRect(Bottom(p) - 1, Right(p) - 1, p)
      BY <2>3 DEF InRect
    <3>2. InRect(p.top, p.left, o) /\ InRect(Bottom(p) - 1, Right(p) - 1, o)
      BY <2>2, <2>3, <3>1
    <3> QED BY <2>3, <3>2 DEF InRect, RectContains
  <2>5. ASSUME Intersects(p, h) PROVE FALSE
    <3> DEFINE l == MaxInt(p.top, h.top)
               c == MaxInt(p.left, h.left)
    <3>1. l \in Int /\ c \in Int
      BY <2>3 DEF MaxInt
    <3>2. InRect(l, c, p) /\ InRect(l, c, h)
      BY <2>3, <2>5 DEF MaxInt, InRect, Intersects
    <3> QED BY <2>2, <3>1, <3>2
  <2> QED BY <2>4, <2>5 DEF p
<1> QED BY <1>1, <1>2, <1>3 DEF s

LEMMA CutStep ==
  ASSUME SetInv, TakeInv, Cut
  PROVE  SetInv' /\ TakeInv'
<1>1. /\ fn = "subtract" /\ adds = <<>> /\ at <= Len(rects)
      /\ Intersects(rects[at], arg)
      /\ rects' = RemoveAt(rects, at) /\ Continue(Subtract(rects[at], arg))
      /\ UNCHANGED <<fn, arg, at, part, answer, asked, held>>
  BY DEF Cut, Scanning, SetOnly
<1>2. /\ Proper(rects) /\ rects \in Seq(RectType) /\ Len(rects) \in Nat
      /\ DOMAIN rects = 1..Len(rects)
      /\ arg \in RectType /\ NonEmpty(arg) /\ grown = Nowhere /\ at \in Nat /\ at >= 1
      /\ \A i \in DOMAIN rects : rects[i] \in RectType /\ NonEmpty(rects[i])
      /\ \A i \in DOMAIN rects : i < at => ~Intersects(rects[i], arg)
      /\ \A i, j \in DOMAIN rects : i < j => After(rects[j], rects[i]) /\ Normal(rects[i], rects[j])
  BY <1>1 DEF SetInv, TypeOK, AddsShaped, TakeInv, Scanned, Proper
<1>0. PICK r \in RectType : r = rects[at]
  BY <1>1, <1>2
<1> DEFINE calls == Subtract(r, arg)
<1>3. at \in DOMAIN rects /\ r \in RectType /\ NonEmpty(r) /\ Intersects(r, arg)
  BY <1>0, <1>1, <1>2
<1>4. /\ calls \in Seq(RectType) /\ Clean(calls)
      /\ CellsOf(calls) = CellsIn(r) \ CellsIn(arg)
      /\ \A j \in DOMAIN calls : RectContains(r, calls[j]) /\ ~Intersects(calls[j], arg)
      /\ \A j \in DOMAIN calls : NonEmpty(calls[j]) /\ calls[j] \in RectType
  BY <1>2, <1>3, SubtractParts DEF Clean
<1>r. Continue(calls)
  BY <1>0, <1>1
<1> HIDE DEF calls
<1>5. /\ adds' = calls /\ grown' \in RectType
      /\ adds' # <<>> => /\ grown' = calls[1] /\ NonEmpty(grown')
                         /\ RectContains(grown', adds'[1])
      /\ adds' = <<>> => grown' = Nowhere
      /\ CellsOf(adds') \cup CellsIn(grown') = CellsOf(calls)
  BY <1>4, <1>r, ContinueFacts
<1>6. /\ Proper(rects') /\ CellsOf(rects) = CellsOf(rects') \cup CellsIn(r)
      /\ rects' \in Seq(RectType) /\ DOMAIN rects' = 1..Len(rects) - 1
      /\ Len(rects') = Len(rects) - 1
      /\ \A m \in DOMAIN rects' : /\ m < at => rects'[m] = rects[m]
                                  /\ m >= at => rects'[m] = rects[m + 1]
  <2>1. Proper(RemoveAt(rects, at))
    BY <1>2, <1>3, TakenOut
  <2>2. CellsOf(rects) = CellsOf(RemoveAt(rects, at)) \cup CellsIn(rects[at])
    BY <1>2, <1>3, CellsTakenOut
  <2>3. /\ RemoveAt(rects, at) \in Seq(RectType)
        /\ DOMAIN RemoveAt(rects, at) = 1..Len(rects) - 1
        /\ Len(RemoveAt(rects, at)) = Len(rects) - 1
        /\ \A m \in 1..Len(rects) - 1 :
             /\ m < at => RemoveAt(rects, at)[m] = rects[m]
             /\ m >= at => RemoveAt(rects, at)[m] = rects[m + 1]
    BY <1>2, <1>3, RemovedAt
  <2> QED BY <1>0, <1>1, <2>1, <2>2, <2>3
<1>7. AllCells' = CellsOf(rects') \cup CellsOf(calls) /\ AllCells = CellsOf(rects)
  <2>1. CellsOf(<<>>) = {}
    BY DEF CellsOf
  <2> QED BY <1>1, <1>2, <1>5, <2>1, NowhereFacts DEF AllCells
<1>8. SetInv'
  <2>1. TypeOK'
    BY <1>1, <1>4, <1>5, <1>6 DEF SetInv, TypeOK
  <2>2. AddsShaped'
    BY <1>1, <1>4, <1>5 DEF SetInv, AddsShaped
  <2>3. NoMore'
    BY <1>1, <1>4, <1>6, <1>7 DEF SetInv, NoMore
  <2> QED BY <1>6, <2>1, <2>2, <2>3 DEF SetInv
<1>9. TakenSoFar'
  BY <1>1, <1>4, <1>6, <1>7 DEF TakeInv, TakenSoFar
<1>10. CASE adds' = <<>>
  <2>1. \A m \in DOMAIN rects' : m < at => ~Intersects(rects'[m], arg)
    BY <1>2, <1>6
  <2> QED BY <1>1, <1>2, <1>8, <1>9, <1>10, <2>1 DEF TakeInv, Scanned
<1>11. CASE adds' # <<>>
  <2>1. 1 \in DOMAIN calls /\ grown' = calls[1] /\ \A j \in 2..Len(calls) : j \in DOMAIN calls /\ j # 1
    BY <1>4, <1>5, <1>11
  <2>2. ASSUME NEW m \in DOMAIN rects'
        PROVE  /\ m < at <=> After(r, rects'[m])
               /\ m < at => ~Intersects(rects'[m], arg)
               /\ Loose(rects'[m], r) /\ rects'[m] \in RectType /\ NonEmpty(rects'[m])
    <3>1. CASE m < at
      <4>1. m \in DOMAIN rects /\ rects'[m] = rects[m]
        BY <1>2, <1>6, <3>1
      <4>2. After(r, rects[m]) /\ Normal(rects[m], r)
        BY <1>0, <1>2, <1>3, <3>1, <4>1
      <4> QED BY <1>2, <3>1, <4>1, <4>2 DEF Normal
    <3>2. CASE m >= at
      <4>1. m + 1 \in DOMAIN rects /\ rects'[m] = rects[m + 1] /\ at < m + 1
        BY <1>2, <1>6, <3>2
      <4>2. After(rects[m + 1], r) /\ Normal(r, rects[m + 1])
        BY <1>0, <1>2, <1>3, <4>1
      <4>3. ~After(r, rects[m + 1]) /\ Loose(rects[m + 1], r)
        BY <1>2, <1>3, <4>1, <4>2, AfterFacts, LooseFacts DEF Normal
      <4>4. ~(m < at)
        BY <1>2, <1>6, <3>2
      <4> QED BY <1>2, <4>1, <4>3, <4>4
    <3> QED BY <1>2, <1>6, <3>1, <3>2
  <2>3. \A m \in DOMAIN rects', j \in DOMAIN calls : Loose(rects'[m], calls[j])
    BY <1>3, <1>4, <2>2, PartLoose
  <2>4. Remains(r)'
    <3>1. /\ adds' = calls /\ arg' = arg /\ NonEmpty(r) /\ Intersects(r, arg)
      BY <1>1, <1>3, <1>5
    <3>2. SameCols(grown', calls[1]) /\ ~Intersects(grown', arg)
      BY <1>4, <2>1 DEF SameCols
    <3>3. \A j, k \in DOMAIN calls : j # k => Loose(calls[j], calls[k])
      BY <1>4 DEF Clean
    <3>4. \A j \in 2..Len(calls) : Loose(calls[j], grown')
      BY <2>1, <3>3
    <3>5. \A m \in DOMAIN rects' :
            /\ Loose(rects'[m], grown')
            /\ \A j \in 2..Len(calls) : Loose(rects'[m], calls[j])
            /\ Intersects(rects'[m], arg) => Loose(rects'[m], r)
      BY <2>1, <2>2, <2>3
    <3> QED BY <1>4, <3>1, <3>2, <3>3, <3>4, <3>5 DEF Remains
  <2>5. ScanStands(r)'
    <3>1. ~After(r, grown')
      BY <1>3, <1>4, <2>1, NotAfterPart
    <3>2. Behind(r)' = at
      BY <1>1, <3>1 DEF Behind
    <3>3. at \in 1..Len(rects') + 1
      BY <1>1, <1>2, <1>6
    <3>4. \A m \in DOMAIN rects' : After(r, rects'[m]) => ~Intersects(rects'[m], arg)
      BY <2>2
    <3> QED BY <1>1, <2>2, <3>1, <3>2, <3>3, <3>4 DEF ScanStands
  <2> QED BY <1>1, <1>2, <1>3, <1>8, <1>9, <1>11, <2>4, <2>5 DEF TakeInv, Scanned
<1> QED BY <1>10, <1>11

LEMMA SkipStep ==
  ASSUME SetInv, TakeInv, Skip
  PROVE  SetInv' /\ TakeInv'
<1>1. /\ fn = "subtract" /\ adds = <<>> /\ at <= Len(rects)
      /\ ~Intersects(rects[at], arg) /\ at' = at + 1
      /\ UNCHANGED <<rects, fn, arg, adds, grown, part, answer, asked, held>>
  BY DEF Skip, Scanning
<1>2. SetInv'
  BY <1>1 DEF SetInv, TypeOK, AddsShaped, NoMore, AllCells
<1>3. at \in Nat /\ at >= 1 /\ \A i \in DOMAIN rects : i \in Nat
  BY <1>1 DEF SetInv, TypeOK, TakeInv, Scanned
<1>4. \A i \in DOMAIN rects : i < at + 1 => ~Intersects(rects[i], arg)
  <2>1. \A i \in DOMAIN rects : i < at + 1 => i < at \/ i = at
    BY <1>3
  <2> QED BY <1>1, <2>1 DEF TakeInv, Scanned
<1>5. TakenSoFar'
  BY <1>1 DEF TakeInv, TakenSoFar, AllCells
<1> QED BY <1>1, <1>2, <1>3, <1>4, <1>5 DEF TakeInv, Scanned

-----------------------------------------------------------------------------
(* The steps of tickit_rectset_contains.                                   *)

(* Rectangles intersect where they have a cell in common. *)
LEMMA CommonCell ==
  ASSUME NEW r \in RectType, NEW q \in RectType, NonEmpty(r), NonEmpty(q)
  PROVE  Intersects(r, q) <=> \E l, c \in Int : InRect(l, c, r) /\ InRect(l, c, q)
<1>1. /\ r.top \in Int /\ r.left \in Int /\ Bottom(r) \in Int /\ Right(r) \in Int
      /\ q.top \in Int /\ q.left \in Int /\ Bottom(q) \in Int /\ Right(q) \in Int
      /\ r.top < Bottom(r) /\ r.left < Right(r)
      /\ q.top < Bottom(q) /\ q.left < Right(q)
  BY RectEdges
<1>2. ASSUME Intersects(r, q)
      PROVE  \E l, c \in Int : InRect(l, c, r) /\ InRect(l, c, q)
  <2> DEFINE l == MaxInt(r.top, q.top)
             c == MaxInt(r.left, q.left)
  <2>1. l \in Int /\ c \in Int
    BY <1>1 DEF MaxInt
  <2>2. InRect(l, c, r) /\ InRect(l, c, q)
    BY <1>1, <1>2 DEF MaxInt, InRect, Intersects
  <2> QED BY <2>1, <2>2
<1>3. ASSUME NEW l \in Int, NEW c \in Int, InRect(l, c, r), InRect(l, c, q)
      PROVE  Intersects(r, q)
  BY <1>1, <1>3 DEF InRect, Intersects
<1> QED BY <1>2, <1>3

(* Two loose rectangles have no row in common and columns that touch. *)
LEMMA LooseRow ==
  ASSUME NEW r \in RectType, NEW q \in RectType, Loose(r, q),
         NEW l \in Int,
         r.top <= l, l < Bottom(r), q.top <= l, l < Bottom(q)
  PROVE  ~(q.left <= Right(r) /\ r.left <= Right(q))
<1>1. /\ r.top \in Int /\ r.left \in Int /\ Bottom(r) \in Int /\ Right(r) \in Int
      /\ q.top \in Int /\ q.left \in Int /\ Bottom(q) \in Int /\ Right(q) \in Int
  BY RectInts
<1> QED BY <1>1 DEF Loose, Touches, OneAbove

(* In a proper set nothing stands beside a rectangle: where p is covered,  *)
(* the row of a rectangle that meets it is covered by that one alone.      *)
LEMMA SpansRow ==
  ASSUME NEW s, Proper(s), NEW p \in RectType, CellsIn(p) \subseteq CellsOf(s),
         NEW i \in DOMAIN s, NEW l \in Int, NEW c \in Int,
         InRect(l, c, s[i]), InRect(l, c, p)
  PROVE  s[i].left <= p.left /\ Right(p) <= Right(s[i])
<1> DEFINE q == s[i]
<1>1. /\ s \in Seq(RectType) /\ q \in RectType
      /\ \A k \in DOMAIN s : s[k] \in RectType /\ NonEmpty(s[k])
      /\ \A k \in DOMAIN s : k # i => Loose(s[k], q)
  <2>1. /\ s \in Seq(RectType) /\ DOMAIN s = 1..Len(s) /\ Len(s) \in Nat
        /\ \A k \in DOMAIN s : s[k] \in RectType /\ NonEmpty(s[k])
        /\ \A j, k \in DOMAIN s : j < k => Normal(s[j], s[k])
    BY DEF Proper
  <2>2. ASSUME NEW k \in DOMAIN s, k # i PROVE Loose(s[k], q)
    <3>1. CASE k < i
      BY <2>1, <3>1 DEF Normal
    <3>2. CASE i < k
      BY <2>1, <3>2, LooseFacts DEF Normal
    <3> QED BY <2>1, <2>2, <3>1, <3>2
  <2> QED BY <2>1, <2>2
<1>2. /\ q.top \in Int /\ q.left \in Int /\ Bottom(q) \in Int /\ Right(q) \in Int
      /\ p.top \in Int /\ p.left \in Int /\ Bottom(p) \in Int /\ Right(p) \in Int
  BY <1>1, RectInts
<1>3. /\ q.top <= l /\ l < Bottom(q) /\ q.left <= c /\ c < Right(q)
      /\ p.top <= l /\ l < Bottom(p) /\ p.left <= c /\ c < Right(p)
  BY DEF InRect
<1>4. ASSUME NEW d \in Int, p.left <= d, d < Right(p),
             d <= Right(q), q.left <= d + 1
      PROVE  d < Right(q) /\ q.left <= d
  <2>1. <<l, d>> \in CellsIn(p)
    BY <1>3, <1>4, CellsFacts DEF InRect
  <2>2. PICK k \in DOMAIN s : InRect(l, d, s[k])
    BY <1>1, <1>4, <2>1, CellsOfFacts DEF InSome
  <2>3. CASE k = i
    BY <2>2, <2>3 DEF InRect
  <2>4. CASE k # i
    <3> DEFINE u == s[k]
    <3>1. u \in RectType /\ Loose(u, q)
      BY <1>1, <2>4
    <3>2. /\ u.top \in Int /\ u.left \in Int /\ Bottom(u) \in Int /\ Right(u) \in Int
          /\ u.top <= l /\ l < Bottom(u) /\ u.left <= d /\ d < Right(u)
      BY <2>2, <3>1, RectInts DEF InRect
    <3> HIDE DEF u, q
    <3>3. ~(q.left <= Right(u) /\ u.left <= Right(q))
      BY <1>1, <1>3, <3>1, <3>2, LooseRow
    <3>4. q.left <= Right(u) /\ u.left <= Right(q)
      BY <1>2, <1>4, <3>2
    <3> QED BY <3>3, <3>4
  <2> QED BY <2>3, <2>4
<1> HIDE DEF q
<1>5. Right(p) <= Right(q)
  <2>1. CASE Right(q) < Right(p)
    <3>1. p.left <= Right(q) /\ q.left <= Right(q) + 1
      BY <1>2, <1>3
    <3>2. Right(q) < Right(q)
      BY <1>2, <1>4, <2>1, <3>1
    <3> QED BY <1>2, <3>2
  <2> QED BY <1>2, <2>1
<1>6. q.left <= p.left
  <2>1. CASE p.left < q.left
    <3>1. /\ q.left - 1 \in Int /\ p.left <= q.left - 1 /\ q.left - 1 < Right(p)
          /\ q.left - 1 <= Right(q) /\ q.left <= (q.left - 1) + 1
      BY <1>2, <1>3, <2>1
    <3>2. q.left <= q.left - 1
      BY <1>4, <3>1
    <3> QED BY <1>2, <3>2
  <2> QED BY <1>2, <2>1
<1> QED BY <1>5, <1>6 DEF q

(* Where p is covered, the first rectangle that meets it has its first     *)
(* row, and all its columns.                                               *)
LEMMA FirstSpans ==
  ASSUME NEW s, Proper(s), NEW p \in RectType, NonEmpty(p),
         NEW i \in DOMAIN s, Intersects(s[i], p),
         \A j \in 1..i - 1 : ~Intersects(s[j], p),
         CellsIn(p) \subseteq CellsOf(s)
  PROVE  /\ p.top >= s[i].top
         /\ p.left >= s[i].left /\ Right(p) <= Right(s[i])
<1>1. /\ s \in Seq(RectType) /\ DOMAIN s = 1..Len(s) /\ Len(s) \in Nat
      /\ \A k \in DOMAIN s : s[k] \in RectType /\ NonEmpty(s[k])
      /\ \A j, k \in DOMAIN s : j < k => After(s[k], s[j])
  BY DEF Proper
<1>2. /\ p.top \in Int /\ p.left \in Int /\ Bottom(p) \in Int /\ Right(p) \in Int
      /\ p.top < Bottom(p) /\ p.left < Right(p)
  BY RectEdges
<1>3. PICK l \in Int, c \in Int : InRect(l, c, s[i]) /\ InRect(l, c, p)
  BY <1>1, CommonCell
<1>4. p.left >= s[i].left /\ Right(p) <= Right(s[i])
  <2>1. s[i].left <= p.left /\ Right(p) <= Right(s[i])
    BY <1>3, SpansRow
  <2> QED BY <1>1, <1>2, <2>1, RectInts
<1>5. p.top >= s[i].top
  <2>1. InRect(p.top, p.left, p)
    BY <1>2 DEF InRect
  <2>2. <<p.top, p.left>> \in CellsOf(s)
    BY <1>2, <2>1, CellsFacts
  <2>3. PICK k \in DOMAIN s : InRect(p.top, p.left, s[k])
    BY <1>1, <1>2, <2>2, CellsOfFacts DEF InSome
  <2>4. Intersects(s[k], p)
    BY <1>1, <1>2, <2>1, <2>3, CommonCell
  <2>5. ~(k \in 1..i - 1)
    BY <2>4
  <2>6. k = i \/ After(s[k], s[i])
    BY <1>1, <2>5
  <2>7. s[k].top >= s[i].top
    <3>1. s[k] \in RectType /\ s[i] \in RectType
      BY <1>1
    <3> QED BY <2>6, <3>1, RectInts DEF After
  <2>8. s[k].top <= p.top
    BY <2>3 DEF InRect
  <2>9. s[k].top \in Int /\ s[i].top \in Int
    BY <1>1, RectInts
  <2> QED BY <1>2, <2>7, <2>8, <2>9
<1> QED BY <1>4, <1>5

(* The rows a rectangle has of p, and those below it. *)
LEMMA RowsBelow ==
  ASSUME NEW p \in RectType, NEW cut \in Int, p.top <= cut, cut < Bottom(p), NonEmpty(p)
  PROVE  /\ StretchTo(p, cut) \in RectType
         /\ StretchTo(p, cut).top = p.top /\ StretchTo(p, cut).left = p.left
         /\ Bottom(StretchTo(p, cut)) = cut /\ Right(StretchTo(p, cut)) = Right(p)
         /\ InitBounded(cut, p.left, Bottom(p), Right(p)) \in RectType
         /\ NonEmpty(InitBounded(cut, p.left, Bottom(p), Right(p)))
         /\ CellsIn(p) = CellsIn(StretchTo(p, cut))
                         \cup CellsIn(InitBounded(cut, p.left, Bottom(p), Right(p)))
<1> DEFINE u == StretchTo(p, cut)
           v == InitBounded(cut, p.left, Bottom(p), Right(p))
<1>1. /\ p.top \in Int /\ p.left \in Int /\ p.lines \in Int /\ p.cols \in Int
      /\ Bottom(p) \in Int /\ Right(p) \in Int /\ p.left < Right(p)
      /\ Bottom(p) = p.top + p.lines /\ Right(p) = p.left + p.cols
  BY RectInts, RectEdges
<1>2. /\ u \in RectType /\ u.top = p.top /\ u.left = p.left
      /\ Bottom(u) = cut /\ Right(u) = Right(p)
  BY <1>1 DEF StretchTo, InitSized, RectType, Bottom, Right
<1>3. /\ v \in RectType /\ v.top = cut /\ v.left = p.left
      /\ Bottom(v) = Bottom(p) /\ Right(v) = Right(p)
      /\ v.lines = Bottom(p) - cut /\ v.cols = Right(p) - p.left
  BY <1>1 DEF InitBounded, RectType, Bottom, Right
<1> HIDE DEF u, v
<1>4. NonEmpty(v)
  BY <1>1, <1>3 DEF NonEmpty
<1>5. CellsIn(p) = CellsIn(u) \cup CellsIn(v)
  BY <1>1, <1>2, <1>3 DEF CellsIn
<1> QED BY <1>2, <1>3, <1>4, <1>5 DEF u, v

(* What tickit_rectset_contains answers is true of the part looked up.     *)
LEMMA LookUpStep ==
  ASSUME SetInv, LookedUp, LookUp
  PROVE  SetInv' /\ LookedUp'
<1>1. /\ fn = "contains" /\ NonEmpty(part)
      /\ CellsIn(arg) \subseteq CellsOf(rects) <=> CellsIn(part) \subseteq CellsOf(rects)
      /\ part \in RectType /\ arg \in RectType /\ Proper(rects)
      /\ rects \in Seq(RectType)
      /\ \A k \in DOMAIN rects : rects[k] \in RectType /\ NonEmpty(rects[k])
  BY DEF LookUp, LookedUp, SetInv, TypeOK, Proper
<1>2. ASSUME NEW yes \in BOOLEAN, Answer(yes),
             yes <=> CellsIn(part) \subseteq CellsOf(rects)
      PROVE  SetInv' /\ LookedUp'
  <2>1. /\ fn' = "answered" /\ answer' = yes
        /\ UNCHANGED <<rects, arg, adds, grown, at, part, asked, held>>
    BY <1>2 DEF Answer
  <2>2. SetInv'
    BY <1>1, <2>1 DEF SetInv, TypeOK, AddsShaped, NoMore, AllCells
  <2> QED BY <1>1, <1>2, <2>1, <2>2 DEF LookedUp
<1>3. CASE MeetsNone
  <2>1. Answer(FALSE) /\ \A k \in DOMAIN rects : ~Intersects(rects[k], part)
    BY <1>3 DEF MeetsNone
  <2>2. ASSUME CellsIn(part) \subseteq CellsOf(rects) PROVE FALSE
    <3>1. part.top \in Int /\ part.left \in Int /\ InRect(part.top, part.left, part)
      BY <1>1, RectEdges DEF InRect
    <3>2. <<part.top, part.left>> \in CellsOf(rects)
      BY <1>1, <2>2, <3>1, CellsFacts
    <3>3. PICK k \in DOMAIN rects : InRect(part.top, part.left, rects[k])
      BY <1>1, <3>1, <3>2, CellsOfFacts DEF InSome
    <3> QED BY <1>1, <2>1, <3>1, <3>3, CommonCell
  <2> QED BY <1>2, <2>1, <2>2
<1>4. ASSUME NEW i \in DOMAIN rects, MeetsLate(i) \/ MeetsLast(i) \/ LooksBelow(i)
      PROVE  SetInv' /\ LookedUp'
  <2> DEFINE covered == CellsIn(part) \subseteq CellsOf(rects)
  <2>0. PICK r \in RectType : r = rects[i]
    BY <1>1
  <2>1. /\ r \in RectType /\ NonEmpty(r) /\ Intersects(r, part)
        /\ \A j \in 1..i - 1 : ~Intersects(rects[j], part)
    BY <1>1, <1>4, <2>0 DEF MeetsLate, MeetsLast, LooksBelow, Meets
  <2>2. covered => /\ part.top >= r.top
                   /\ part.left >= r.left /\ Right(part) <= Right(r)
    BY <1>1, <2>0, <2>1, FirstSpans
  <2>3. CellsIn(r) \subseteq CellsOf(rects)
    BY <1>1, <2>0, CellsOfFacts
  <2>4. /\ part.top \in Int /\ Bottom(part) \in Int /\ r.top \in Int /\ Bottom(r) \in Int
        /\ part.top < Bottom(part)
    BY <1>1, <2>1, RectEdges
  <2> HIDE DEF covered
  <2>5. CASE MeetsLate(i)
    <3>1. ~covered
      BY <2>0, <2>2, <2>5 DEF MeetsLate, Begins
    <3> QED BY <1>2, <2>5, <3>1 DEF MeetsLate, covered
  <2>6. CASE MeetsLast(i)
    <3>1. Bottom(part) <= Bottom(r) /\ Answer(RectContains(r, part))
      BY <2>0, <2>4, <2>6 DEF MeetsLast, Reaches
    <3>2. covered => RectContains(r, part)
      BY <2>2, <3>1 DEF RectContains
    <3>3. RectContains(r, part) => covered
      BY <1>1, <2>1, <2>3, ContainsSubset DEF covered
    <3>4. RectContains(r, part) \in BOOLEAN
      BY DEF RectContains
    <3> QED BY <1>2, <3>1, <3>2, <3>3, <3>4 DEF covered
  <2>7. CASE LooksBelow(i)
    <3> DEFINE upper == StretchTo(part, Bottom(r))
               lower == InitBounded(Bottom(r), part.left, Bottom(part), Right(part))
    <3>1. /\ part.top >= r.top /\ part.left >= r.left /\ Bottom(r) < Bottom(part)
          /\ IF RectContains(r, upper)
             THEN /\ part' = lower
                  /\ UNCHANGED <<rects, fn, arg, adds, grown, at, answer, asked, held>>
             ELSE Answer(FALSE)
      BY <2>0, <2>7 DEF LooksBelow, Begins, Reaches
    <3>2. part.top <= Bottom(r)
      BY <2>1, <2>4 DEF Intersects
    <3>3. /\ upper \in RectType /\ upper.top = part.top /\ upper.left = part.left
          /\ Bottom(upper) = Bottom(r) /\ Right(upper) = Right(part)
          /\ lower \in RectType /\ NonEmpty(lower)
          /\ CellsIn(part) = CellsIn(upper) \cup CellsIn(lower)
      BY <1>1, <2>4, <3>1, <3>2, RowsBelow
    <3> HIDE DEF upper, lower
    <3>4. CASE RectContains(r, upper)
      <4>1. /\ part' = lower
            /\ UNCHANGED <<rects, fn, arg, adds, grown, at, answer, asked, held>>
        BY <3>1, <3>4
      <4>2. CellsIn(upper) \subseteq CellsOf(rects)
        BY <2>1, <2>3, <3>3, <3>4, ContainsSubset
      <4>3. covered <=> CellsIn(lower) \subseteq CellsOf(rects)
        BY <3>3, <4>2 DEF covered
      <4>4. SetInv'
        BY <1>1, <3>3, <4>1 DEF SetInv, TypeOK, AddsShaped, NoMore, AllCells
      <4> QED BY <1>1, <3>3, <4>1, <4>3, <4>4 DEF LookedUp, covered
    <3>5. CASE ~RectContains(r, upper)
      <4>1. ~(Right(part) <= Right(r))
        BY <2>4, <3>1, <3>3, <3>5 DEF RectContains
      <4> QED BY <1>2, <2>2, <3>1, <3>5, <4>1 DEF covered
    <3> QED BY <3>4, <3>5
  <2> QED BY <1>4, <2>5, <2>6, <2>7
<1> QED BY <1>3, <1>4 DEF LookUp

-----------------------------------------------------------------------------
(* The other steps.                                                        *)

Inv == SetInv /\ TakeInv /\ LookedUp

LEMMA GridFacts ==
  /\ \A r \in GridRects : r \in RectType /\ NonEmpty(r)
  /\ \A r \in GridRects : CellsIn(r) \subseteq (0..Lines - 1) \X (0..Cols - 1)
<1> SUFFICES ASSUME NEW r \in GridRects
             PROVE  /\ r \in RectType /\ NonEmpty(r)
                    /\ CellsIn(r) \subseteq (0..Lines - 1) \X (0..Cols - 1)
  OBVIOUS
<1>1. PICK t \in 0..Lines, l \in 0..Cols, m \in 0..Lines, n \in 0..Cols :
        r = InitBounded(t, l, m, n)
  BY DEF GridRects
<1>2. NonEmpty(r)
  BY DEF GridRects
<1>3. /\ r \in RectType /\ r.top = t /\ r.left = l /\ Bottom(r) = m /\ Right(r) = n
  BY <1>1, BoundsAssumption DEF InitBounded, RectType, Bottom, Right
<1>4. CellsIn(r) \subseteq (0..Lines - 1) \X (0..Cols - 1)
  BY <1>3, BoundsAssumption DEF CellsIn
<1> QED BY <1>2, <1>3, <1>4

LEMMA IdleFacts ==
  ASSUME SetInv, adds = <<>>
  PROVE  grown = Nowhere /\ AllCells = CellsOf(rects)
<1>1. grown = Nowhere
  BY DEF SetInv, AddsShaped
<1>2. CellsOf(<<>>) = {}
  BY DEF CellsOf
<1> QED BY <1>1, <1>2, NowhereFacts DEF AllCells

LEMMA BeginSteps ==
  ASSUME SetInv, NEW r \in GridRects, BeginAdd(r) \/ BeginSubtract(r) \/ BeginContains(r)
  PROVE  Inv'
<1>1. /\ r \in RectType /\ NonEmpty(r) /\ CellsIn(r) \subseteq Int \X Int
      /\ fn = "none" /\ arg' = r /\ held' = CellsOf(rects) /\ rects' = rects
  BY GridFacts, CellsFacts DEF BeginAdd, BeginSubtract, BeginContains, Begin
<1>2. /\ adds = <<>> /\ grown = Nowhere /\ AllCells = CellsOf(rects)
      /\ rects \in Seq(RectType) /\ CellsOf(rects) \subseteq asked
      /\ CellsOf(rects) \subseteq Int \X Int
  BY <1>1, IdleFacts, CellsOfFacts DEF SetInv, TypeOK, AddsShaped, NoMore
<1>3. CASE BeginAdd(r)
  <2> DEFINE calls == <<r>>
  <2>1. /\ fn' = "add" /\ Continue(calls) /\ asked' = asked \cup CellsIn(r)
        /\ UNCHANGED <<at, part, answer>>
    BY <1>3 DEF BeginAdd, Begin
  <2>2. /\ calls \in Seq(RectType) /\ \A i \in DOMAIN calls : NonEmpty(calls[i])
        /\ calls # <<>> /\ CellsOf(calls) = CellsIn(r)
    BY <1>1 DEF CellsOf
  <2> HIDE DEF calls
  <2>3. /\ adds' = calls /\ grown' \in RectType
        /\ NonEmpty(grown') /\ RectContains(grown', adds'[1])
        /\ CellsOf(adds') \cup CellsIn(grown') = CellsOf(calls)
    BY <2>1, <2>2, ContinueFacts
  <2>4. TypeOK' /\ Proper(rects)'
    BY <1>1, <1>2, <2>1, <2>2, <2>3 DEF SetInv, TypeOK
  <2>5. AddsShaped' /\ NoMore'
    BY <1>1, <1>2, <2>1, <2>2, <2>3 DEF AddsShaped, NoMore, AllCells
  <2> QED BY <2>1, <2>4, <2>5
          DEF Inv, SetInv, TakeInv, TakenSoFar, Scanned, LookedUp
<1>4. CASE BeginSubtract(r)
  <2>1. /\ fn' = "subtract" /\ at' = 1
        /\ UNCHANGED <<adds, grown, part, answer, asked>>
    BY <1>4 DEF BeginSubtract, Begin
  <2>2. SetInv' /\ AllCells' = AllCells
    BY <1>1, <1>2, <2>1 DEF SetInv, TypeOK, AddsShaped, NoMore, AllCells
  <2>3. TakenSoFar'
    BY <1>1, <1>2, <2>2 DEF TakenSoFar
  <2>4. Scanned'
    <3>1. \A i \in DOMAIN rects' : ~(i < at')
      BY <1>1, <1>2, <2>1
    <3> QED BY <1>2, <2>1, <3>1 DEF Scanned
  <2> QED BY <2>1, <2>2, <2>3, <2>4 DEF Inv, TakeInv, LookedUp
<1>5. CASE BeginContains(r)
  <2>1. /\ fn' = "contains" /\ part' = r
        /\ UNCHANGED <<adds, grown, at, answer, asked>>
    BY <1>5 DEF BeginContains, Begin
  <2>2. SetInv'
    BY <1>1, <1>2, <2>1 DEF SetInv, TypeOK, AddsShaped, NoMore, AllCells
  <2> QED BY <1>1, <2>1, <2>2 DEF Inv, TakeInv, TakenSoFar, Scanned, LookedUp
<1> QED BY <1>3, <1>4, <1>5

(* At the end of the scan nothing of the set is left in the argument. *)
LEMMA OutsideArg ==
  ASSUME SetInv, TakeInv, fn = "subtract", adds = <<>>, at > Len(rects)
  PROVE  CellsOf(rects) \cap CellsIn(arg) = {}
<1>1. /\ rects \in Seq(RectType) /\ arg \in RectType /\ NonEmpty(arg) /\ at \in Nat
      /\ \A i \in DOMAIN rects : rects[i] \in RectType /\ NonEmpty(rects[i])
      /\ \A i \in DOMAIN rects : i < at => ~Intersects(rects[i], arg)
  BY DEF SetInv, TypeOK, AddsShaped, Proper, TakeInv, Scanned
<1>2. \A i \in DOMAIN rects : ~Intersects(rects[i], arg)
  BY <1>1
<1>3. CellsOf(rects) \subseteq Int \X Int /\ CellsIn(arg) \subseteq Int \X Int
  BY <1>1, CellsFacts, CellsOfFacts
<1>4. ASSUME NEW l \in Int, NEW c \in Int,
             <<l, c>> \in CellsOf(rects), <<l, c>> \in CellsIn(arg)
      PROVE  FALSE
  <2>1. PICK i \in DOMAIN rects : InRect(l, c, rects[i])
    BY <1>1, <1>4, CellsOfFacts DEF InSome
  <2>2. InRect(l, c, arg)
    BY <1>1, <1>4, CellsFacts
  <2> QED BY <1>1, <1>2, <2>1, <2>2, CommonCell
<1> QED BY <1>3, <1>4

LEMMA EndSteps ==
  ASSUME SetInv, TakeInv, AddEnds \/ SubtractEnds \/ ContainsEnds
  PROVE  Inv'
<1>1. /\ fn' = "none" /\ arg' = Nowhere /\ part' = Nowhere
      /\ at' = 0 /\ answer' = FALSE /\ held' = {}
      /\ UNCHANGED <<rects, adds, grown>> /\ adds = <<>>
      /\ asked' = asked \/ SubtractEnds
  BY DEF AddEnds, SubtractEnds, ContainsEnds, Return, Scanning, SetInv, AddsShaped
<1>2. /\ grown = Nowhere /\ AllCells = CellsOf(rects) /\ AllCells' = AllCells
  BY <1>1, IdleFacts DEF AllCells
<1>3. asked' \subseteq asked /\ AllCells \subseteq asked'
  <2>1. CASE asked' = asked
    BY <2>1 DEF SetInv, NoMore
  <2>2. CASE SubtractEnds
    <3>1. /\ fn = "subtract" /\ at > Len(rects) /\ asked' = asked \ CellsIn(arg)
      BY <2>2 DEF SubtractEnds, Scanning
    <3>4. CellsOf(rects) \cap CellsIn(arg) = {}
      BY <1>1, <3>1, OutsideArg
    <3> QED BY <1>2, <3>1, <3>4 DEF SetInv, NoMore
  <2> QED BY <1>1, <2>1, <2>2
<1>4. SetInv'
  BY <1>1, <1>2, <1>3, NowhereFacts DEF SetInv, TypeOK, AddsShaped, NoMore
<1> QED BY <1>1, <1>4 DEF Inv, TakeInv, TakenSoFar, Scanned, LookedUp

LEMMA ClearStep ==
  ASSUME SetInv, Clear
  PROVE  Inv'
<1>1. /\ fn = "none" /\ rects' = <<>> /\ asked' = {}
      /\ UNCHANGED <<fn, arg, adds, grown, at, part, answer, held>>
  BY DEF Clear
<1>2. adds = <<>> /\ grown = Nowhere
  BY <1>1, IdleFacts DEF SetInv, AddsShaped
<1>3. Proper(<<>>) /\ CellsOf(<<>>) = {}
  BY DEF Proper, CellsOf
<1>4. AllCells' = {}
  BY <1>1, <1>2, <1>3, NowhereFacts DEF AllCells
<1>5. TypeOK'
  BY <1>1 DEF SetInv, TypeOK
<1>6. SetInv'
  BY <1>1, <1>2, <1>3, <1>4, <1>5 DEF SetInv, AddsShaped, NoMore
<1> QED BY <1>1, <1>6 DEF Inv, TakeInv, TakenSoFar, Scanned, LookedUp

(* A set moved as a whole stays proper, and its cells move along. *)
LEMMA Moved ==
  ASSUME NEW r \in RectType, NEW d \in Int, NEW e \in Int
  PROVE  LET m == Translate(r, d, e) IN
         /\ m \in RectType /\ (NonEmpty(m) <=> NonEmpty(r))
         /\ m.top = r.top + d /\ m.left = r.left + e
         /\ Bottom(m) = Bottom(r) + d /\ Right(m) = Right(r) + e
<1> DEFINE m == Translate(r, d, e)
<1>1. r.top \in Int /\ r.left \in Int /\ r.lines \in Int /\ r.cols \in Int
  BY RectInts
<1>2. /\ m \in RectType /\ m.top = r.top + d /\ m.left = r.left + e
      /\ m.lines = r.lines /\ m.cols = r.cols
  <2>1. PICK down \in RectType : down = [r EXCEPT !.top = r.top + d]
    <3>1. [r EXCEPT !.top = r.top + d] \in RectType
      BY <1>1 DEF RectType
    <3> QED BY <3>1
  <2>2. /\ down.top = r.top + d /\ down.left = r.left
        /\ down.lines = r.lines /\ down.cols = r.cols
    BY <1>1, <2>1 DEF RectType
  <2>3. PICK x \in RectType : x = [down EXCEPT !.left = r.left + e]
    <3>1. [down EXCEPT !.left = r.left + e] \in RectType
      BY <1>1 DEF RectType
    <3> QED BY <3>1
  <2>4. /\ x.top = r.top + d /\ x.left = r.left + e
        /\ x.lines = r.lines /\ x.cols = r.cols
    BY <1>1, <2>2, <2>3 DEF RectType
  <2>5. m = x
    BY <1>1, <2>1, <2>3 DEF Translate, RectType
  <2> QED BY <2>4, <2>5
<1> HIDE DEF m
<1>3. Bottom(m) = Bottom(r) + d /\ Right(m) = Right(r) + e /\ (NonEmpty(m) <=> NonEmpty(r))
  BY <1>1, <1>2 DEF Bottom, Right, NonEmpty
<1> QED BY <1>2, <1>3 DEF m

LEMMA MovedPair ==
  ASSUME NEW r \in RectType, NEW q \in RectType, NEW d \in Int, NEW e \in Int
  PROVE  /\ After(r, q) => After(Translate(r, d, e), Translate(q, d, e))
         /\ Normal(r, q) => Normal(Translate(r, d, e), Translate(q, d, e))
<1> DEFINE x == Translate(r, d, e)
           y == Translate(q, d, e)
<1>1. /\ r.top \in Int /\ r.left \in Int /\ Bottom(r) \in Int /\ Right(r) \in Int
      /\ q.top \in Int /\ q.left \in Int /\ Bottom(q) \in Int /\ Right(q) \in Int
  BY RectInts
<1>2. /\ x.top = r.top + d /\ x.left = r.left + e
      /\ Bottom(x) = Bottom(r) + d /\ Right(x) = Right(r) + e
      /\ y.top = q.top + d /\ y.left = q.left + e
      /\ Bottom(y) = Bottom(q) + d /\ Right(y) = Right(q) + e
  BY Moved
<1> HIDE DEF x, y
<1>3. After(r, q) => After(x, y)
  BY <1>1, <1>2 DEF After
<1>4. /\ Touches(x, y) <=> Touches(r, q)
      /\ OneAbove(x, y) <=> OneAbove(r, q)
      /\ SameCols(x, y) <=> SameCols(r, q)
  BY <1>1, <1>2 DEF Touches, OneAbove, SameCols
<1>5. Normal(r, q) => Normal(x, y)
  BY <1>4 DEF Normal, Loose
<1> QED BY <1>3, <1>5 DEF x, y

LEMMA ShiftStep ==
  ASSUME SetInv, NEW d \in {-1, 0, 1}, NEW e \in {-1, 0, 1}, Shift(d, e)
  PROVE  Inv'
<1> DEFINE moved == {<<x[1] + d, x[2] + e>> : x \in asked}
<1>1. /\ fn = "none" /\ rects' = TranslateAll(rects, d, e)
      /\ \A i \in DOMAIN rects' : rects'[i] \in GridRects
      /\ asked' = moved \cap ((0..Lines - 1) \X (0..Cols - 1))
      /\ UNCHANGED <<fn, arg, adds, grown, at, part, answer, held>>
  BY DEF Shift
<1>2. /\ adds = <<>> /\ grown = Nowhere /\ AllCells = CellsOf(rects) /\ Proper(rects)
      /\ rects \in Seq(RectType) /\ asked \subseteq Int \X Int /\ AllCells \subseteq asked
  BY <1>1, IdleFacts DEF SetInv, TypeOK, AddsShaped, NoMore
<1>3. d \in Int /\ e \in Int
  OBVIOUS
<1>4. /\ rects' \in Seq(RectType) /\ DOMAIN rects' = DOMAIN rects
      /\ \A i \in DOMAIN rects : rects'[i] = Translate(rects[i], d, e)
  <2>1. \A i \in DOMAIN rects : Translate(rects[i], d, e) \in RectType
    <3>1. \A i \in DOMAIN rects : rects[i] \in RectType
      BY <1>2
    <3>2. \A r \in RectType : Translate(r, d, e) \in RectType
      BY <1>3, Moved
    <3> QED BY <3>1, <3>2
  <2> QED BY <1>1, <1>2, <2>1 DEF TranslateAll
<1>5. Proper(rects')
  <2>1. \A i \in DOMAIN rects' : NonEmpty(rects'[i])
    BY <1>1, GridFacts
  <2>2. \A i, j \in DOMAIN rects' : i < j =>
          After(rects'[j], rects'[i]) /\ Normal(rects'[i], rects'[j])
    <3> SUFFICES ASSUME NEW i \in DOMAIN rects, NEW j \in DOMAIN rects, i < j
                 PROVE  After(rects'[j], rects'[i]) /\ Normal(rects'[i], rects'[j])
      BY <1>4
    <3>1. After(rects[j], rects[i]) /\ Normal(rects[i], rects[j])
      BY <1>2 DEF Proper
    <3>2. rects[i] \in RectType /\ rects[j] \in RectType
      BY <1>2
    <3> QED BY <1>3, <1>4, <3>1, <3>2, MovedPair
  <2> QED BY <1>4, <2>1, <2>2 DEF Proper
<1>6. CellsOf(rects') \subseteq asked'
  <2> SUFFICES ASSUME NEW i \in DOMAIN rects'
               PROVE  CellsIn(rects'[i]) \subseteq asked'
    BY <1>4, CellsOfFacts
  <2>1. PICK r \in RectType : r = rects[i]
    BY <1>2, <1>4
  <2>2. PICK m \in RectType : m = Translate(r, d, e)
    BY <1>3, Moved
  <2>3. rects'[i] = m /\ m \in GridRects
    BY <1>1, <1>4, <2>1, <2>2
  <2>4. CellsIn(m) \subseteq (0..Lines - 1) \X (0..Cols - 1)
    BY <2>3, GridFacts
  <2>5. /\ m.top = r.top + d /\ m.left = r.left + e
        /\ Bottom(m) = Bottom(r) + d /\ Right(m) = Right(r) + e
    BY <1>3, <2>2, Moved
  <2>6. /\ r.top \in Int /\ r.left \in Int /\ Bottom(r) \in Int /\ Right(r) \in Int
    BY RectInts
  <2>7. CellsIn(r) \subseteq asked
    BY <1>2, <1>4, <2>1, CellsOfFacts
  <2>8. CellsIn(m) \subseteq moved
    <3> SUFFICES ASSUME NEW l \in Int, NEW c \in Int, InRect(l, c, m)
                 PROVE  <<l, c>> \in moved
      BY CellsFacts
    <3>1. l - d \in Int /\ c - e \in Int /\ InRect(l - d, c - e, r)
      BY <1>3, <2>5, <2>6 DEF InRect
    <3>2. <<l - d, c - e>> \in asked
      BY <2>7, <3>1, CellsFacts
    <3>3. (l - d) + d = l /\ (c - e) + e = c
      BY <1>3
    <3> DEFINE z == <<l - d, c - e>>
    <3>4. z[1] + d = l /\ z[2] + e = c /\ z \in asked
      BY <3>2, <3>3
    <3> QED BY <3>4
  <2> QED BY <1>1, <2>3, <2>4, <2>8
<1>7. AllCells' = CellsOf(rects')
  <2>1. CellsOf(<<>>) = {}
    BY DEF CellsOf
  <2> QED BY <1>1, <1>2, <2>1, NowhereFacts DEF AllCells
<1>8. asked' \subseteq Int \X Int
  BY <1>1
<1>9. SetInv'
  <2>1. TypeOK'
    BY <1>1, <1>4, <1>8 DEF SetInv, TypeOK
  <2>2. AddsShaped'
    BY <1>1, <1>2 DEF AddsShaped
  <2> QED BY <1>5, <1>6, <1>7, <2>1, <2>2 DEF SetInv, NoMore
<1> QED BY <1>1, <1>9 DEF Inv, TakeInv, TakenSoFar, Scanned, LookedUp

LEMMA AddSteps ==
  ASSUME Inv, AddStep
  PROVE  Inv'
<1>1. /\ SetInv /\ TakeInv /\ adds # <<>> /\ fn \in {"add", "subtract"}
  BY DEF Inv, SetInv, AddsShaped, AddStep
<1>t. Insert \/ \E i \in DOMAIN rects : Covered(i) \/ Stretch(i) \/ Split(i)
  BY TurnCases DEF Inv, SetInv, TypeOK
<1>2. fn' = fn
  BY DEF AddStep, SetOnly
<1>3. SetInv'
  <2>1. CASE Insert
    BY <1>1, <2>1, InsertSet
  <2>2. ASSUME NEW i \in DOMAIN rects, Covered(i) \/ Stretch(i) \/ Split(i)
        PROVE  SetInv'
    BY <1>1, <2>2, CoveredSet, StretchSet, SplitSet
  <2> QED BY <1>t, <2>1, <2>2
<1>4. TakeInv'
  <2>1. CASE fn = "add"
    BY <1>2, <2>1 DEF TakeInv, TakenSoFar, Scanned
  <2>2. CASE fn = "subtract"
    <3>1. CASE Insert
      BY <1>1, <2>2, <3>1, InsertTake
    <3>2. ASSUME NEW i \in DOMAIN rects, Covered(i) \/ Stretch(i) \/ Split(i)
          PROVE  TakeInv'
      BY <1>1, <2>2, <3>2, StretchTake, NoSplitInTake
    <3> QED BY <1>t, <3>1, <3>2
  <2> QED BY <1>1, <2>1, <2>2
<1>5. LookedUp'
  BY <1>1, <1>2 DEF LookedUp
<1> QED BY <1>3, <1>4, <1>5 DEF Inv

(* At every step of every call the set is proper, what is to be added is   *)
(* part of what was asked for, a subtraction stands in its scan, and what  *)
(* is looked up is covered when the argument is (rectset.c:92-236).        *)
THEOREM SetInvariant == Spec => []Inv
<1>1. Init => Inv
  <2> SUFFICES ASSUME Init PROVE Inv
    OBVIOUS
  <2>1. Proper(<<>>) /\ CellsOf(<<>>) = {}
    BY DEF Proper, CellsOf
  <2>2. TypeOK
    <3>1. <<>> \in Seq(RectType) /\ 0 \in Nat /\ {} \subseteq Int \X Int
      OBVIOUS
    <3> QED BY <3>1, NowhereFacts DEF Init, TypeOK
  <2>3. AddsShaped /\ NoMore
    BY <2>1, NowhereFacts DEF Init, AddsShaped, NoMore, AllCells
  <2> QED BY <2>1, <2>2, <2>3
          DEF Init, Inv, SetInv, TakeInv, TakenSoFar, Scanned, LookedUp
<1>2. Inv /\ [Next]_vars => Inv'
  <2> SUFFICES ASSUME Inv, [Next]_vars PROVE Inv'
    OBVIOUS
  <2>0. SetInv /\ TakeInv /\ LookedUp
    BY DEF Inv
  <2>1. ASSUME NEW r \in GridRects, BeginAdd(r) \/ BeginSubtract(r) \/ BeginContains(r)
        PROVE  Inv'
    BY <2>0, <2>1, BeginSteps
  <2>2. CASE AddStep
    BY <2>2, AddSteps
  <2>3. CASE AddEnds \/ SubtractEnds \/ ContainsEnds
    BY <2>0, <2>3, EndSteps
  <2>4. CASE Skip \/ Cut
    <3>1. SetInv' /\ TakeInv'
      BY <2>0, <2>4, SkipStep, CutStep
    <3>2. fn' = "subtract"
      BY <2>4 DEF Skip, Cut, Scanning, SetOnly
    <3> QED BY <3>1, <3>2 DEF Inv, LookedUp
  <2>5. CASE LookUp
    <3>1. SetInv' /\ LookedUp'
      BY <2>0, <2>5, LookUpStep
    <3>2. fn' # "subtract"
      BY <2>5 DEF LookUp, MeetsNone, MeetsLate, MeetsLast, LooksBelow, Answer
    <3> QED BY <3>1, <3>2 DEF Inv, TakeInv, TakenSoFar, Scanned
  <2>6. ASSUME NEW d \in {-1, 0, 1}, NEW e \in {-1, 0, 1}, Shift(d, e)
        PROVE  Inv'
    BY <2>0, <2>6, ShiftStep
  <2>7. CASE Clear
    BY <2>0, <2>7, ClearStep
  <2>8. CASE UNCHANGED vars
    BY <2>0, <2>8 DEF vars, Inv, SetInv, TypeOK, AddsShaped, NoMore, AllCells,
                      TakeInv, TakenSoFar, Scanned, LookedUp, Remains, ScanStands, Behind
  <2> QED BY <2>1, <2>2, <2>3, <2>4, <2>5, <2>6, <2>7, <2>8 DEF Next
<1> QED BY <1>1, <1>2, PTL DEF Spec

(* The array holds rectangles, also while a call is splitting them.        *)
THEOREM SetTypeCorrect == Spec => []TypeOK
<1>1. Inv => TypeOK
  BY DEF Inv, SetInv
<1> QED BY <1>1, SetInvariant, PTL

(* The set is ordered and its rectangles are disjoint, in every state in   *)
(* which a call stands (rectset.c:56).                                     *)
THEOREM SetOrderedDisjoint == Spec => []OrderedDisjoint
<1>1. ASSUME Inv PROVE OrderedDisjoint
  <2>1. Proper(rects) /\ rects \in Seq(RectType)
    BY <1>1 DEF Inv, SetInv, Proper
  <2>2. ASSUME NEW i \in DOMAIN rects, NEW j \in DOMAIN rects, i < j
        PROVE  After(rects[j], rects[i]) /\ ~Intersects(rects[i], rects[j])
    BY <2>1, <2>2, LooseFacts DEF Proper, Normal
  <2> QED BY <2>2 DEF OrderedDisjoint
<1> QED BY <1>1, SetInvariant, PTL

(* Whatever is stretched, cut and joined, no cell comes into the set that  *)
(* nobody added, or stays in it once it has been taken away.               *)
THEOREM SetNothingExtra == Spec => []NothingExtra
<1>1. Inv => NothingExtra
  BY DEF Inv, SetInv, NoMore, AllCells, NothingExtra
<1> QED BY <1>1, SetInvariant, PTL

(* A subtraction removes the cells of its argument and no others           *)
(* (rectset.c:161).                                                        *)
THEOREM SetSubtractKeepsRest == Spec => []SubtractKeepsRest
<1>1. ASSUME Inv PROVE SubtractKeepsRest
  <2> SUFFICES ASSUME Scanning, at > Len(rects)
               PROVE  CellsOf(rects) = held \ CellsIn(arg)
    BY DEF SubtractKeepsRest
  <2>1. /\ fn = "subtract" /\ adds = <<>>
        /\ held \ CellsIn(arg) \subseteq AllCells /\ AllCells \subseteq held
        /\ AllCells = CellsOf(rects)
    BY <1>1, IdleFacts DEF Scanning, Inv, TakeInv, TakenSoFar
  <2>2. CellsOf(rects) \cap CellsIn(arg) = {}
    BY <1>1, <2>1, OutsideArg DEF Inv
  <2> QED BY <2>1, <2>2
<1> QED BY <1>1, SetInvariant, PTL

(* tickit_rectset_contains and tickit_rectset_intersects answer what the   *)
(* cells say (rectset.c:191).                                              *)
THEOREM SetQueriesAgree == Spec => []QueriesAgree
<1>1. ASSUME Inv PROVE QueriesAgree
  <2>1. fn = "answered" => (answer <=> CellsIn(arg) \subseteq CellsOf(rects))
    BY <1>1 DEF Inv, LookedUp
  <2>2. ASSUME NEW r \in GridRects
        PROVE  SetIntersects(rects, r) <=> CellsIn(r) \cap CellsOf(rects) # {}
    <3>1. /\ r \in RectType /\ NonEmpty(r) /\ rects \in Seq(RectType)
          /\ \A i \in DOMAIN rects : rects[i] \in RectType /\ NonEmpty(rects[i])
      BY <1>1, GridFacts DEF Inv, SetInv, Proper
    <3>2. CellsIn(r) \subseteq Int \X Int
      BY <3>1, CellsFacts
    <3>3. CellsIn(r) \cap CellsOf(rects) # {}
            <=> \E l, c \in Int : <<l, c>> \in CellsIn(r) /\ <<l, c>> \in CellsOf(rects)
      <4>1. \A x \in Int \X Int : \E l, c \in Int : x = <<l, c>>
        OBVIOUS
      <4>2. CellsIn(r) \cap CellsOf(rects) \subseteq Int \X Int
        BY <3>2
      <4> HIDE DEF CellsIn, CellsOf
      <4>3. ASSUME CellsIn(r) \cap CellsOf(rects) # {}
            PROVE  \E l, c \in Int : <<l, c>> \in CellsIn(r) /\ <<l, c>> \in CellsOf(rects)
        <5>1. PICK x : x \in CellsIn(r) /\ x \in CellsOf(rects)
          BY <4>3
        <5>2. PICK l \in Int, c \in Int : x = <<l, c>>
          BY <3>2, <4>1, <5>1
        <5> QED BY <5>1, <5>2
      <4> QED BY <4>3
    <3>4. \A l, c \in Int : <<l, c>> \in CellsIn(r) /\ <<l, c>> \in CellsOf(rects)
            <=> \E i \in DOMAIN rects : InRect(l, c, r) /\ InRect(l, c, rects[i])
      BY <3>1, CellsFacts, CellsOfFacts DEF InSome
    <3>5. \A i \in DOMAIN rects : Intersects(rects[i], r)
            <=> \E l, c \in Int : InRect(l, c, rects[i]) /\ InRect(l, c, r)
      BY <3>1, CommonCell
    <3> QED BY <3>3, <3>4, <3>5 DEF SetIntersects
  <2> QED BY <2>1, <2>2 DEF QueriesAgree
<1> QED BY <1>1, SetInvariant, PTL
=============================================================================
