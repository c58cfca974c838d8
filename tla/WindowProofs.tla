---------------------------- MODULE WindowProofs ----------------------------
(***************************************************************************)
(* Proofs about the window tree, for any windows, geometry and bounds.     *)
(* What they need of a list of children is that it lists a set: Lists.     *)
(* The second part shows that what the terminal shows is what the windows  *)
(* have to show: ScreenCurrent.  The third is about the cursor.            *)
(***************************************************************************)
EXTENDS Window, SequenceTheorems, Induction

-----------------------------------------------------------------------------
(* The operations on lists of children.                                    *)

Distinct(s) == \A i, j \in DOMAIN s : s[i] = s[j] => i = j

Lists(s, X) ==
  /\ s \in Seq(Windows)
  /\ \A i \in DOMAIN s : s[i] \in X
  /\ \A x \in X : \E i \in DOMAIN s : s[i] = x
  /\ Distinct(s)

LEMMA ListsNone == Lists(<<>>, {})
BY DEF Lists, Distinct

LEMMA ListsLast ==
  ASSUME NEW s, NEW X, Lists(s, X), NEW w \in Windows, w \notin X
  PROVE  Lists(InsertLast(s, w), X \cup {w})
<1> DEFINE t == Append(s, w)
<1>1. /\ s \in Seq(Windows) /\ \A i \in 1..Len(s) : s[i] \in X
      /\ \A x \in X : \E i \in 1..Len(s) : s[i] = x
      /\ \A i, j \in 1..Len(s) : s[i] = s[j] => i = j
  BY DEF Lists, Distinct
<1>2. /\ t \in Seq(Windows) /\ Len(t) = Len(s) + 1 /\ DOMAIN t = 1..Len(s) + 1
      /\ \A i \in 1..Len(s) : t[i] = s[i]
      /\ t[Len(s) + 1] = w
  BY <1>1
<1> HIDE DEF t
<1>3. \A i \in DOMAIN t : t[i] \in X \cup {w}
  BY <1>1, <1>2
<1>4. \A x \in X \cup {w} : \E i \in DOMAIN t : t[i] = x
  BY <1>1, <1>2
<1>5. Distinct(t)
  BY <1>1, <1>2 DEF Distinct
<1>6. QED
  BY <1>2, <1>3, <1>4, <1>5 DEF Lists, InsertLast, t

LEMMA ListsFirst ==
  ASSUME NEW s, NEW X, Lists(s, X), NEW w \in Windows, w \notin X
  PROVE  Lists(InsertFirst(s, w), X \cup {w})
<1> DEFINE t == <<w>> \o s
           n == Len(s)
<1>1. /\ s \in Seq(Windows) /\ n \in Nat /\ \A i \in 1..n : s[i] \in X
      /\ \A x \in X : \E i \in 1..n : s[i] = x
      /\ \A i, j \in 1..n : s[i] = s[j] => i = j
  BY DEF Lists, Distinct
<1>2. /\ t \in Seq(Windows) /\ DOMAIN t = 1..n + 1
      /\ \A i \in 1..n + 1 : i # 1 => t[i] = s[i - 1]
      /\ t[1] = w
  BY <1>1
<1> HIDE DEF t, n
<1>3. \A i \in 1..n + 1 : i # 1 => i - 1 \in 1..n
  BY <1>1
<1>4. \A i \in DOMAIN t : t[i] \in X \cup {w}
  BY <1>1, <1>2, <1>3
<1>5. ASSUME NEW x \in X PROVE \E i \in DOMAIN t : t[i] = x
  <2>1. PICK i \in 1..n : s[i] = x
    BY <1>1
  <2>2. i + 1 \in 1..n + 1 /\ i + 1 # 1 /\ (i + 1) - 1 = i
    BY <1>1
  <2>3. i + 1 \in DOMAIN t /\ t[i + 1] = x
    BY <1>2, <2>1, <2>2
  <2>4. QED
    BY <2>3
<1>6. 1 \in DOMAIN t
  BY <1>1, <1>2
<1>7. ASSUME NEW i \in 1..n + 1, NEW j \in 1..n + 1, t[i] = t[j] PROVE i = j
  <2>1. CASE i = 1 \/ j = 1
    BY <1>1, <1>2, <1>3, <1>7, <2>1
  <2>2. CASE i # 1 /\ j # 1
    <3>1. i - 1 \in 1..n /\ j - 1 \in 1..n /\ s[i - 1] = s[j - 1]
      BY <1>2, <1>3, <1>7, <2>2
    <3>2. i - 1 = j - 1
      BY <1>1, <3>1
    <3>3. QED
      BY <1>1, <3>2
  <2>3. QED
    BY <2>1, <2>2
<1>8. QED
  BY <1>2, <1>4, <1>5, <1>6, <1>7 DEF Lists, Distinct, InsertFirst, t

LEMMA IndexOf ==
  ASSUME NEW s, NEW X, Lists(s, X), NEW w \in X
  PROVE  Index(s, w) \in 1..Len(s) /\ s[Index(s, w)] = w
<1>1. s \in Seq(Windows) /\ \E i \in DOMAIN s : s[i] = w
  BY DEF Lists
<1>2. Index(s, w) \in DOMAIN s /\ s[Index(s, w)] = w
  BY <1>1 DEF Index
<1>3. QED
  BY <1>1, <1>2

(* A list without w: the windows behind w move up by one. *)
LEMMA WithoutAt ==
  ASSUME NEW s, NEW X, Lists(s, X), NEW w \in X
  PROVE  /\ Without(s, w) \in Seq(Windows)
         /\ DOMAIN Without(s, w) = 1..Len(s) - 1
         /\ \A i \in 1..Len(s) - 1 :
              Without(s, w)[i] = s[IF i < Index(s, w) THEN i ELSE i + 1]
<1> DEFINE n == Index(s, w)
           len == Len(s)
           before == SubSeq(s, 1, n - 1)
           after  == SubSeq(s, n + 1, len)
           t      == before \o after
           from(i) == IF i < n THEN i ELSE i + 1
<1>1. s \in Seq(Windows) /\ len \in Nat /\ \A i \in 1..len : s[i] \in Windows
  BY DEF Lists
<1>2. n \in 1..len /\ s[n] = w
  BY IndexOf
<1> HIDE DEF n
<1>3. /\ before \in Seq(Windows) /\ Len(before) = n - 1
      /\ \A i \in 1..n - 1 : before[i] = s[i]
  BY <1>1, <1>2
<1>4. /\ after \in Seq(Windows) /\ Len(after) = len - n
      /\ \A i \in 1..len - n : after[i] = s[n + i]
  BY <1>1, <1>2
<1> HIDE DEF before, after, len
<1>5. /\ t \in Seq(Windows)
      /\ Len(t) = (n - 1) + (len - n)
      /\ \A i \in 1..(n - 1) + (len - n) :
           t[i] = IF i <= n - 1 THEN before[i] ELSE after[i - (n - 1)]
  BY <1>3, <1>4, ConcatProperties
<1> HIDE DEF t
<1>6. DOMAIN t = 1..len - 1
  BY <1>1, <1>2, <1>5
<1>7. ASSUME NEW i \in 1..len - 1
      PROVE  t[i] = s[from(i)]
  <2>1. i \in 1..(n - 1) + (len - n) /\ from(i) \in 1..len /\ from(i) # n
    BY <1>1, <1>2
  <2>2. CASE i < n
    BY <1>1, <1>2, <1>3, <1>5, <2>1, <2>2
  <2>3. CASE ~(i < n)
    <3>1. i - (n - 1) \in 1..len - n /\ n + (i - (n - 1)) = i + 1 /\ ~(i <= n - 1)
      BY <1>1, <1>2, <2>3
    <3>2. t[i] = after[i - (n - 1)] /\ after[i - (n - 1)] = s[i + 1]
      BY <1>4, <1>5, <2>1, <3>1
    <3>3. QED
      BY <2>1, <2>3, <3>2
  <2>4. QED
    BY <2>2, <2>3
<1>8. Without(s, w) = t
  BY DEF Without, RemoveAt, t, before, after, n, len
<1>9. QED
  BY <1>5, <1>6, <1>7, <1>8 DEF n, len

LEMMA ListsWithout ==
  ASSUME NEW s, NEW X, Lists(s, X), NEW w \in X
  PROVE  Lists(Without(s, w), X \ {w})
<1> DEFINE n == Index(s, w)
           len == Len(s)
           t == Without(s, w)
           from(i) == IF i < n THEN i ELSE i + 1
<1>1. /\ s \in Seq(Windows) /\ len \in Nat
      /\ \A i \in 1..len : s[i] \in X /\ s[i] \in Windows
      /\ \A x \in X : \E i \in 1..len : s[i] = x
      /\ \A i, j \in 1..len : s[i] = s[j] => i = j
  BY DEF Lists, Distinct
<1>2. n \in 1..len /\ s[n] = w
  BY IndexOf
<1>3. /\ t \in Seq(Windows) /\ DOMAIN t = 1..len - 1
      /\ \A i \in 1..len - 1 : t[i] = s[from(i)]
  BY WithoutAt
<1> HIDE DEF n, len, t
<1>4. ASSUME NEW i \in 1..len - 1
      PROVE  from(i) \in 1..len /\ from(i) # n
  BY <1>1, <1>2
<1>5. ASSUME NEW i \in 1..len, i # n PROVE \E j \in 1..len - 1 : from(j) = i
  <2>1. CASE i < n
    BY <1>1, <1>2, <2>1
  <2>2. CASE i > n
    <3>1. i - 1 \in 1..len - 1 /\ from(i - 1) = i
      BY <1>1, <1>2, <2>2
    <3>2. QED
      BY <3>1
  <2>3. QED
    BY <1>2, <1>5, <2>1, <2>2
<1>6. ASSUME NEW i \in 1..len - 1, NEW j \in 1..len - 1, from(i) = from(j) PROVE i = j
  BY <1>1, <1>2, <1>6
<1> HIDE DEF from
<1>7. \A i \in DOMAIN t : t[i] \in X \ {w}
  BY <1>1, <1>2, <1>3, <1>4
<1>8. ASSUME NEW x \in X \ {w} PROVE \E j \in DOMAIN t : t[j] = x
  <2>1. PICK i \in 1..len : s[i] = x
    BY <1>1
  <2>2. PICK j \in 1..len - 1 : from(j) = i
    BY <1>2, <1>5, <2>1
  <2>3. QED
    BY <1>3, <2>1, <2>2
<1>9. Distinct(t)
  <2> SUFFICES ASSUME NEW i \in DOMAIN t, NEW j \in DOMAIN t, t[i] = t[j] PROVE i = j
    BY DEF Distinct
  <2>1. i \in 1..len - 1 /\ j \in 1..len - 1 /\ s[from(i)] = s[from(j)]
    BY <1>3
  <2>2. from(i) = from(j)
    BY <1>1, <1>4, <2>1
  <2> QED BY <1>6, <2>1, <2>2
<1>10. QED
  BY <1>3, <1>7, <1>8, <1>9 DEF Lists, t

LEMMA ListsSwap ==
  ASSUME NEW s, NEW X, Lists(s, X), NEW i \in 1..Len(s), NEW j \in 1..Len(s)
  PROVE  Lists(Swap(s, i, j), X)
<1> DEFINE t == [s EXCEPT ![i] = s[j], ![j] = s[i]]
<1>1. /\ s \in Seq(Windows) /\ \A k \in 1..Len(s) : s[k] \in X /\ s[k] \in Windows
      /\ \A x \in X : \E k \in 1..Len(s) : s[k] = x
      /\ \A k, m \in 1..Len(s) : s[k] = s[m] => k = m
      /\ DOMAIN s = 1..Len(s)
  BY DEF Lists, Distinct
<1>2. /\ t \in Seq(Windows) /\ DOMAIN t = 1..Len(s)
      /\ t[j] = s[i] /\ t[i] = s[j]
      /\ \A k \in 1..Len(s) : k # i /\ k # j => t[k] = s[k]
  BY <1>1
<1> HIDE DEF t
<1>3. \A k \in DOMAIN t : t[k] \in X
  BY <1>1, <1>2
<1>4. ASSUME NEW x \in X PROVE \E k \in DOMAIN t : t[k] = x
  BY <1>1, <1>2
<1>5. Distinct(t)
  BY <1>1, <1>2 DEF Distinct
<1>6. QED
  BY <1>2, <1>3, <1>4, <1>5 DEF Lists, Swap, t

(* Each of the four ways of restacking leaves a list of the same windows. *)
LEMMA ListsRestacked ==
  ASSUME NEW kind \in Kinds, NEW s, NEW X, X \subseteq Windows, Lists(s, X), NEW w \in X
  PROVE  Lists(Restacked(kind, s, w), X)
<1>1. Index(s, w) \in 1..Len(s) /\ s \in Seq(Windows)
  BY IndexOf DEF Lists
<1>2. Lists(Without(s, w), X \ {w})
  BY ListsWithout
<1>3. (X \ {w}) \cup {w} = X /\ w \notin X \ {w} /\ w \in Windows
  OBVIOUS
<1>4. CASE kind = "raise"
  <2>1. Lists(Raised(s, w), X)
    BY <1>1, ListsSwap DEF Raised
  <2>2. QED
    BY <1>4, <2>1 DEF Restacked
<1>5. CASE kind = "lower"
  <2>1. Lists(Lowered(s, w), X)
    BY <1>1, ListsSwap DEF Lowered
  <2>2. QED
    BY <1>5, <2>1 DEF Restacked
<1>6. CASE kind = "raise_front"
  <2>1. Lists(InsertFirst(Without(s, w), w), X)
    BY <1>2, <1>3, ListsFirst
  <2>2. QED
    BY <1>6, <2>1 DEF Restacked
<1>7. CASE kind = "lower_back"
  <2>1. Lists(InsertLast(Without(s, w), w), X)
    BY <1>2, <1>3, ListsLast
  <2>2. QED
    BY <1>7, <2>1 DEF Restacked
<1>8. QED
  BY <1>4, <1>5, <1>6, <1>7 DEF Kinds

-----------------------------------------------------------------------------
(* The inductive invariant.  TypeOK alone is not inductive: that taking a  *)
(* window out of a list leaves a list rests on the window being in it,     *)
(* which for a request that has waited rests on destroy having purged it,  *)
(* and that the budget of a handler stays in its range rests on handlers   *)
(* running in the paint phase only.                                        *)

Kids(p) == {w \in live : parent[w] = p}

ChildrenListed == \A p \in live : Lists(children[p], Kids(p))

OneRoot == \A w \in live : parent[w] = None => w = Root

Nested == /\ drawn => stack # <<>>
          /\ stack # <<>> => phase = "paint"

(* The links make a forest, and the fields of free windows say nothing.    *)

Ranked == \E rank : /\ Ranks(rank, Windows, None, parent)
                    /\ \E n \in Nat : \A x \in Windows : rank[x] <= n

FreeApart == \A x \in Windows \ live : parent[x] = None

(* The parent of a window is allocated or freed for good; memory freed is  *)
(* not allocated again under a pointer that is left.                       *)
Parents ==
  /\ Dangling \notin live
  /\ \A w \in live : parent[w] \in live \cup {None, Dangling}

IInv ==
  /\ TypeOK /\ ChildrenListed /\ OneRoot /\ ChangesParented
  /\ Nested /\ FocusPathVisible /\ NothingForgotten
  /\ Ranked /\ FreeApart /\ Parents

Forest == /\ parent \in [Windows -> Windows \cup {None}]
          /\ rect \in [Windows -> RectType]
          /\ Ranked

USE WindowAssumption

-----------------------------------------------------------------------------
(* The windows above a window, and where it is on the terminal, as         *)
(* functions of the links and the rectangles: Lineage and AbsRect are      *)
(* these of the present links, Lineage' and AbsRect' of the next ones.     *)

LineageOf(par, w) ==
  LET up[x \in Windows] ==
        {x} \cup (IF par[x] = None THEN {} ELSE up[par[x]])
  IN  up[w]

AbsOf(par, rc, w) ==
  LET abs[x \in Windows] ==
        IF par[x] = None THEN rc[x]
        ELSE Translate(rc[x], abs[par[x]].top, abs[par[x]].left)
  IN  abs[w]

LEMMA LineageUp ==
  ASSUME NEW par \in [Windows -> Windows \cup {None}],
         NEW rank, Ranks(rank, Windows, None, par), NEW w \in Windows
  PROVE  /\ LineageOf(par, w) =
              {w} \cup (IF par[w] = None THEN {} ELSE LineageOf(par, par[w]))
         /\ LineageOf(par, w) \subseteq Windows
<1> DEFINE Body(f) == [x \in Windows |->
             {x} \cup (IF par[x] = None THEN {} ELSE f[par[x]])]
           base == [x \in Windows |-> {x}]
           step == [xd \in Windows \X SUBSET Windows |-> {xd[1]} \cup xd[2]]
           up == CHOOSE f : f = Body(f)
<1>1. base \in [Windows -> SUBSET Windows]
      /\ step \in [Windows \X SUBSET Windows -> SUBSET Windows]
  OBVIOUS
<1>2. PICK g \in [Windows -> SUBSET Windows] :
        \A x \in Windows : g[x] = IF par[x] = None THEN base[x] ELSE step[<<x, g[par[x]]>>]
  <2>1. None \notin Windows
    OBVIOUS
  <2>2. TreeDefines(Windows, None, par, SUBSET Windows, base, step)
    <3> HIDE DEF base, step
    <3> QED BY <1>1, <2>1, TreeRecursion, Zenon
  <2> HIDE DEF base, step
  <2> QED BY <2>2 DEF TreeDefines
<1>3. g = Body(g)
  <2>1. ASSUME NEW x \in Windows PROVE g[x] = Body(g)[x]
    <3>1. par[x] # None => step[<<x, g[par[x]]>>] = {x} \cup g[par[x]]
      OBVIOUS
    <3> QED BY <1>2, <3>1
  <2> QED BY <1>2, <2>1
<1>4. up = Body(up)
  <2> HIDE DEF Body
  <2> QED BY <1>3
<1>5. \A x : LineageOf(par, x) = up[x]
  BY Zenon DEF LineageOf
<1> HIDE DEF up
<1>6. ASSUME NEW x \in Windows
      PROVE  up[x] = {x} \cup (IF par[x] = None THEN {} ELSE up[par[x]])
  BY <1>4
<1> DEFINE in == {x \in Windows : up[x] \subseteq Windows}
<1>7. \A x \in Windows : (par[x] # None => par[x] \in in) => x \in in
  BY <1>6
<1>8. \A x \in Windows : x \in in
  <2> HIDE DEF in
  <2> QED BY <1>7, TreeInduction
<1> QED BY <1>5, <1>6, <1>8

LEMMA TranslateType ==
  ASSUME NEW r \in RectType, NEW down \in Int, NEW right \in Int
  PROVE  Translate(r, down, right) \in RectType
<1>1. \A top, left \in Int : [r EXCEPT !.top = top, !.left = left] \in RectType
  BY DEF RectType
<1>2. r.top + down \in Int /\ r.left + right \in Int
  BY DEF RectType
<1> QED BY <1>1, <1>2 DEF Translate

LEMMA AbsUp ==
  ASSUME NEW par \in [Windows -> Windows \cup {None}],
         NEW rank, Ranks(rank, Windows, None, par),
         NEW rc \in [Windows -> RectType], NEW w \in Windows
  PROVE  /\ AbsOf(par, rc, w) =
              IF par[w] = None THEN rc[w]
              ELSE Translate(rc[w], AbsOf(par, rc, par[w]).top, AbsOf(par, rc, par[w]).left)
         /\ AbsOf(par, rc, w) \in RectType
<1> DEFINE At(x, d) == Translate(rc[x], d.top, d.left)
           Body(f) == [x \in Windows |->
             IF par[x] = None THEN rc[x] ELSE At(x, f[par[x]])]
           step == [xd \in Windows \X RectType |-> At(xd[1], xd[2])]
           up == CHOOSE f : f = Body(f)
<1>1. \A x \in Windows, d \in RectType : At(x, d) \in RectType
  <2> SUFFICES ASSUME NEW x \in Windows, NEW d \in RectType PROVE At(x, d) \in RectType
    OBVIOUS
  <2>1. rc[x] \in RectType
    OBVIOUS
  <2> QED BY <2>1, TranslateType DEF RectType
<1> HIDE DEF At
<1>2. step \in [Windows \X RectType -> RectType]
  BY <1>1
<1>3. PICK g \in [Windows -> RectType] :
        \A x \in Windows : g[x] = IF par[x] = None THEN rc[x] ELSE step[<<x, g[par[x]]>>]
  <2>1. None \notin Windows
    OBVIOUS
  <2>2. TreeDefines(Windows, None, par, RectType, rc, step)
    <3> HIDE DEF step
    <3> QED BY <1>2, <2>1, TreeRecursion, Zenon
  <2> HIDE DEF step
  <2> QED BY <2>2 DEF TreeDefines
<1>4. g = Body(g)
  <2>1. ASSUME NEW x \in Windows PROVE g[x] = Body(g)[x]
    <3>1. par[x] # None => step[<<x, g[par[x]]>>] = At(x, g[par[x]])
      OBVIOUS
    <3> QED BY <1>3, <3>1
  <2> QED BY <1>3, <2>1
<1>5. up = Body(up)
  <2> HIDE DEF Body
  <2> QED BY <1>4
<1>6. \A x : AbsOf(par, rc, x) = up[x]
  BY Zenon DEF AbsOf, At
<1> HIDE DEF up
<1>7. ASSUME NEW x \in Windows
      PROVE  up[x] = IF par[x] = None THEN rc[x] ELSE At(x, up[par[x]])
  BY <1>5
<1> DEFINE in == {x \in Windows : up[x] \in RectType}
<1>8. \A x \in Windows : (par[x] # None => par[x] \in in) => x \in in
  BY <1>1, <1>7
<1>9. \A x \in Windows : x \in in
  <2> HIDE DEF in
  <2> QED BY <1>8, TreeInduction
<1> QED BY <1>6, <1>7, <1>9 DEF At

LEMMA LineageIs == \A w : Lineage(w) = LineageOf(parent, w)
BY Zenon DEF Lineage, LineageOf

LEMMA AbsIs == \A w : AbsRect(w) = AbsOf(parent, rect, w)
BY Zenon DEF AbsRect, AbsOf

LEMMA Upward ==
  ASSUME Forest, NEW w \in Windows
  PROVE  /\ Lineage(w) = {w} \cup (IF parent[w] = None THEN {} ELSE Lineage(parent[w]))
         /\ Lineage(w) \subseteq Windows
         /\ AbsRect(w) = IF parent[w] = None THEN rect[w]
                         ELSE Translate(rect[w], AbsRect(parent[w]).top, AbsRect(parent[w]).left)
         /\ AbsRect(w) \in RectType
<1>1. PICK rank : Ranks(rank, Windows, None, parent)
  BY DEF Forest, Ranked
<1>2. /\ parent \in [Windows -> Windows \cup {None}]
      /\ rect \in [Windows -> RectType]
  BY DEF Forest
<1>3. /\ LineageOf(parent, w) =
              {w} \cup (IF parent[w] = None THEN {} ELSE LineageOf(parent, parent[w]))
      /\ LineageOf(parent, w) \subseteq Windows
  BY <1>1, <1>2, LineageUp, Zenon
<1>4. /\ AbsOf(parent, rect, w) =
              IF parent[w] = None THEN rect[w]
              ELSE Translate(rect[w], AbsOf(parent, rect, parent[w]).top,
                             AbsOf(parent, rect, parent[w]).left)
      /\ AbsOf(parent, rect, w) \in RectType
  BY <1>1, <1>2, AbsUp, Zenon
<1>5. /\ Lineage(w) = LineageOf(parent, w) /\ AbsRect(w) = AbsOf(parent, rect, w)
      /\ Lineage(parent[w]) = LineageOf(parent, parent[w])
      /\ AbsRect(parent[w]) = AbsOf(parent, rect, parent[w])
  BY LineageIs, AbsIs, Zenon
<1> QED BY ONLY <1>3, <1>4, <1>5, Zenon

(* A set that has each window whose parent it has is all of them. *)
LEMMA Downward ==
  ASSUME Forest, NEW S,
         \A x \in Windows : (parent[x] # None => parent[x] \in S) => x \in S
  PROVE  \A x \in Windows : x \in S
<1>1. PICK rank : Ranks(rank, Windows, None, parent)
  BY DEF Forest, Ranked
<1>2. parent \in [Windows -> Windows \cup {None}]
  BY DEF Forest
<1> QED BY <1>1, <1>2, TreeInduction

LEMMA ForestNow ==
  ASSUME IInv
  PROVE  Forest
BY DEF IInv, TypeOK, Forest

(* The same in the next state. *)
UpwardWhen == Forest => \A w \in Windows :
  /\ Lineage(w) = {w} \cup (IF parent[w] = None THEN {} ELSE Lineage(parent[w]))
  /\ AbsRect(w) = IF parent[w] = None THEN rect[w]
                  ELSE Translate(rect[w], AbsRect(parent[w]).top, AbsRect(parent[w]).left)
  /\ AbsRect(w) \in RectType

LEMMA UpwardWhenAlways == UpwardWhen
BY Upward DEF UpwardWhen

LEMMA UpwardNext == UpwardWhen'
BY UpwardWhenAlways, PTL

-----------------------------------------------------------------------------
(* The rectangle set of the damage: of what tickit_rectset_add makes of it *)
(* the proofs need the type, and that what it drops is known as lost.      *)

Turning == INSTANCE Induction WITH Pass <- LAMBDA p, q, r, x, k : Turn[x]

LEMMA RectFields ==
  ASSUME NEW r \in RectType
  PROVE  /\ r.top \in Int /\ r.left \in Int /\ Bottom(r) \in Int /\ Right(r) \in Int
         /\ r.lines \in Int /\ r.cols \in Int
         /\ Bottom(r) = r.top + r.lines /\ Right(r) = r.left + r.cols
BY DEF RectType, Bottom, Right

LEMMA BoundedTyped ==
  ASSUME NEW t \in Int, NEW l \in Int, NEW b \in Int, NEW r \in Int
  PROVE  InitBounded(t, l, b, r) \in RectType
BY DEF InitBounded, RectType

LEMMA MinMaxInt ==
  ASSUME NEW x \in Int, NEW y \in Int
  PROVE  MinInt(x, y) \in Int /\ MaxInt(x, y) \in Int
BY DEF MinInt, MaxInt

LEMMA BandTyped ==
  ASSUME NEW a \in RectType, NEW b \in RectType, NEW m \in Int, NEW n \in Int
  PROVE  Band(a, b, m, n) \in RectType
<1> DEFINE hasA  == m >= a.top /\ n <= Bottom(a)
           hasB  == m >= b.top /\ n <= Bottom(b)
           left  == IF hasA /\ hasB THEN MinInt(a.left, b.left)
                    ELSE IF hasA THEN a.left ELSE b.left
           right == IF hasA /\ hasB THEN MaxInt(Right(a), Right(b))
                    ELSE IF hasA THEN Right(a) ELSE Right(b)
<1>1. /\ a.left \in Int /\ b.left \in Int /\ Right(a) \in Int /\ Right(b) \in Int
      /\ MinInt(a.left, b.left) \in Int /\ MaxInt(Right(a), Right(b)) \in Int
  BY RectFields, MinMaxInt
<1> HIDE DEF hasA, hasB
<1>2. left \in Int /\ right \in Int
  BY <1>1
<1>3. Band(a, b, m, n) = InitBounded(m, left, n, right)
  BY DEF Band, hasA, hasB
<1> HIDE DEF left, right
<1> QED BY <1>2, <1>3, BoundedTyped

LEMMA PutBandTyped ==
  ASSUME NEW ret \in Seq(RectType), NEW band \in RectType
  PROVE  PutBand(ret, band) \in Seq(RectType)
<1> DEFINE n    == Len(ret)
           last == StretchTo(ret[n], Bottom(band))
<1>1. CASE n > 0
  <2>1. n \in DOMAIN ret /\ ret[n] \in RectType
    BY <1>1
  <2>2. last \in RectType
    <3> DEFINE r == ret[n]
    <3>1. r \in RectType
      BY <2>1
    <3> HIDE DEF r
    <3>2. StretchTo(r, Bottom(band)) \in RectType
      <4>1. r.top \in Int /\ r.left \in Int /\ r.cols \in Int /\ Bottom(band) - r.top \in Int
        BY <3>1, RectFields
      <4> QED BY <4>1 DEF StretchTo, InitSized, RectType
    <3> QED BY <3>2 DEF r
  <2>3. [ret EXCEPT ![n] = last] \in Seq(RectType)
    <3> HIDE DEF last
    <3> QED BY <2>1, <2>2, ExceptSeq
  <2>4. Append(ret, band) \in Seq(RectType)
    OBVIOUS
  <2> QED BY <2>3, <2>4 DEF PutBand
<1>2. CASE ~(n > 0)
  BY <1>2 DEF PutBand
<1> QED BY <1>1, <1>2

LEMMA RectAddTyped ==
  ASSUME NEW a \in RectType, NEW b \in RectType
  PROVE  RectAdd(a, b) \in Seq(RectType)
<1>1. CASE Apart(a, b)
  BY <1>1 DEF RectAdd
<1>2. CASE ~Apart(a, b)
  <2> DEFINE row0 == MinInt(a.top, b.top)
             tops == MaxInt(a.top, b.top)
             bots == MinInt(Bottom(a), Bottom(b))
             row1 == MinInt(tops, bots)
             row2 == MaxInt(tops, bots)
             row3 == MaxInt(Bottom(a), Bottom(b))
  <2>1. tops \in Int /\ bots \in Int /\ row0 \in Int /\ row3 \in Int
    BY RectFields, MinMaxInt
  <2>2. row1 \in Int /\ row2 \in Int
    <3> HIDE DEF tops, bots
    <3> QED BY <2>1, MinMaxInt
  <2>3. RectAdd(a, b) =
          PutBand(PutBand(PutBand(<<>>, Band(a, b, row0, row1)),
                          Band(a, b, row1, row2)), Band(a, b, row2, row3))
    BY <1>2, Zenon DEF RectAdd
  <2> HIDE DEF row0, row1, row2, row3, tops, bots
  <2>4. /\ Band(a, b, row0, row1) \in RectType /\ Band(a, b, row1, row2) \in RectType
        /\ Band(a, b, row2, row3) \in RectType
    BY <2>1, <2>2, BandTyped
  <2>5. <<>> \in Seq(RectType)
    OBVIOUS
  <2>6. PutBand(<<>>, Band(a, b, row0, row1)) \in Seq(RectType)
    BY <2>4, <2>5, PutBandTyped
  <2>7. PutBand(PutBand(<<>>, Band(a, b, row0, row1)), Band(a, b, row1, row2))
          \in Seq(RectType)
    BY <2>4, <2>6, PutBandTyped
  <2> QED BY <2>3, <2>4, <2>7, PutBandTyped
<1> QED BY <1>1, <1>2

LEMMA PutInTyped ==
  ASSUME NEW s \in Seq(RectType), NEW r \in RectType
  PROVE  InsertRect(s, r) \in Seq(RectType)
<1> DEFINE later == {i \in DOMAIN s : After(s[i], r)}
           k     == IF later = {} THEN Len(s) + 1 ELSE Min(later)
<1>1. k \in 1..Len(s) + 1
  <2>1. CASE later # {}
    <3>1. later \in SUBSET Nat
      OBVIOUS
    <3>2. Min(later) \in later
      BY <2>1, <3>1, LeastOf, Zenon DEF Min
    <3> QED BY <2>1, <3>2
  <2> QED BY <2>1
<1>2. InsertRect(s, r) = InsertAt(s, k, r)
  BY DEF InsertRect
<1> HIDE DEF k
<1>3. InsertAt(s, k, r) \in Seq(RectType)
  <2>1. /\ SubSeq(s, 1, k - 1) \in Seq(RectType) /\ SubSeq(s, k, Len(s)) \in Seq(RectType)
        /\ <<r>> \in Seq(RectType)
    BY <1>1
  <2> QED BY <2>1 DEF InsertAt
<1> QED BY <1>2, <1>3

LEMMA AddingTyped ==
  ASSUME NEW rects \in Seq(RectType), NEW adds \in Seq(RectType)
  PROVE  Adding(rects, adds) \in AddCall
<1>1. Block(adds) \in RectType
  <2>1. Nowhere \in RectType
    BY DEF Nowhere, InitSized, RectType
  <2> QED BY <2>1 DEF Block
<1> QED BY <1>1 DEF Adding, AddCall

LEMMA TurnTyped ==
  ASSUME NEW x \in AddCall
  PROVE  Turn[x] \in AddCall
<1> DEFINE found == {i \in DOMAIN x.rects : DecidesAt(x.rects, x.adds[1], x.grown, i)}
<1>1. x.rects \in Seq(RectType) /\ x.adds \in Seq(RectType) /\ x.grown \in RectType
  BY DEF AddCall
<1>2. Turn[x] = IF x.adds = <<>> THEN x
                ELSE IF found # {} THEN Meet(x, Min(found))
                ELSE Adding(InsertRect(x.rects, x.grown), Tail(x.adds))
  BY DEF Turn
<1>3. CASE x.adds = <<>>
  BY <1>2, <1>3
<1>4. CASE x.adds # <<>> /\ found # {}
  <2> DEFINE i == Min(found)
             r == x.adds[1]
             s == x.rects[i]
  <2>1. i \in found
    <3>1. found \in SUBSET Nat
      BY <1>1
    <3> QED BY <1>4, <3>1, LeastOf, Zenon DEF Min
  <2>2. Turn[x] = Meet(x, i)
    BY <1>2, <1>4
  <2>3. i \in DOMAIN x.rects
    BY <2>1
  <2> HIDE DEF i, found
  <2>4. s \in RectType /\ r \in RectType /\ Tail(x.adds) \in Seq(RectType)
    BY <1>1, <1>4, <2>3
  <2>5. RemoveAt(x.rects, i) \in Seq(RectType)
    <3>1. i \in 1..Len(x.rects)
      BY <1>1, <2>3
    <3> QED BY <1>1, <3>1 DEF RemoveAt
  <2>6. Meet(x, i) =
          IF RectContains(s, r) THEN Adding(x.rects, Tail(x.adds))
          ELSE IF SameRows(s, x.grown) \/ SameCols(s, x.grown)
          THEN [rects |-> RemoveAt(x.rects, i), adds |-> x.adds, grown |-> Hull(s, x.grown)]
          ELSE Adding(RemoveAt(x.rects, i), RectAdd(s, r) \o Tail(x.adds))
    BY Zenon DEF Meet
  <2> HIDE DEF r, s
  <2>7. Hull(s, x.grown) \in RectType
    <3>1. /\ MinInt(s.top, x.grown.top) \in Int /\ MinInt(s.left, x.grown.left) \in Int
          /\ MaxInt(Bottom(s), Bottom(x.grown)) \in Int
          /\ MaxInt(Right(s), Right(x.grown)) \in Int
      BY <1>1, <2>4, RectFields, MinMaxInt
    <3> QED BY <3>1, BoundedTyped DEF Hull
  <2>8. RectAdd(s, r) \o Tail(x.adds) \in Seq(RectType)
    BY <2>4, RectAddTyped
  <2>9. /\ Adding(x.rects, Tail(x.adds)) \in AddCall
        /\ Adding(RemoveAt(x.rects, i), RectAdd(s, r) \o Tail(x.adds)) \in AddCall
    BY <1>1, <2>4, <2>5, <2>8, AddingTyped
  <2>10. [rects |-> RemoveAt(x.rects, i), adds |-> x.adds, grown |-> Hull(s, x.grown)] \in AddCall
    BY <1>1, <2>5, <2>7 DEF AddCall
  <2> QED BY <2>2, <2>6, <2>9, <2>10
<1>5. CASE x.adds # <<>> /\ found = {}
  <2>1. InsertRect(x.rects, x.grown) \in Seq(RectType) /\ Tail(x.adds) \in Seq(RectType)
    <3> HIDE DEF found
    <3>1. Tail(x.adds) \in Seq(RectType)
      BY <1>1, <1>5
    <3> QED BY <1>1, <3>1, PutInTyped
  <2>2. Turn[x] = Adding(InsertRect(x.rects, x.grown), Tail(x.adds))
    BY <1>2, <1>5
  <2>3. Adding(InsertRect(x.rects, x.grown), Tail(x.adds)) \in AddCall
    BY <2>1, AddingTyped
  <2> QED BY <2>2, <2>3
<1> QED BY <1>3, <1>4, <1>5

LEMMA AddedTyped ==
  ASSUME NEW s \in Seq(RectType), NEW r \in RectType
  PROVE  Added(s, r, MaxTurns) \in Seq(RectType)
<1> DEFINE start == Adding(s, <<r>>)
           turns == [k \in 1..MaxTurns |-> k]
           kept  == (0..MaxTurns) \X AddCall
<1>1. start \in AddCall
  <2>1. <<r>> \in Seq(RectType)
    OBVIOUS
  <2> QED BY <2>1, AddingTyped
<1>2. <<MaxTurns, Turning!Loop({}, {}, {}, start, turns)>> \in kept
  <2>1. DOMAIN turns = 1..MaxTurns /\ <<0, start>> \in kept
    BY <1>1
  <2>2. \A k \in 1..MaxTurns : \A made : <<k - 1, made>> \in kept =>
          <<k, Turn[made]>> \in kept
    BY TurnTyped
  <2> HIDE DEF turns, start, kept
  <2> QED BY <2>1, <2>2, Turning!LoopKeeps
<1>3. AddTurns(s, r, MaxTurns) = Turning!Loop({}, {}, {}, start, turns)
  BY Zenon DEF AddTurns, Turning!Loop, Turning!Passes, FoldLeft, MapThenFoldSet, Max,
               Turning!Max
<1> HIDE DEF start, turns
<1>4. AddTurns(s, r, MaxTurns) \in AddCall
  BY <1>2, <1>3
<1> QED BY <1>4 DEF Added, AddCall

(* The cells of the damage, and those it has dropped. *)
Due(x) == CellsOf(x.damage) \cup x.lost

(* What an exposure does to the damage: nothing, or a request of rectangle *)
(* r, after which all cells are still in it or known to be lost.           *)
LEMMA DamagedKeeps ==
  ASSUME NEW x \in DamageState, NEW r \in RectType
  PROVE  /\ Damaged[x][r] \in DamageState
         /\ Due(x) \cup CellsIn(r) \subseteq Due(Damaged[x][r])
         /\ Damaged[x][r] = x \/ Damaged[x][r].asks
         /\ CellsIn(r) # {} => Damaged[x][r].asks \/ CellsOf(x.damage) # {}
<1> DEFINE after == Added(x.damage, r, MaxTurns)
           next  == [damage |-> after, asks |-> TRUE,
                     lost |-> (x.lost \cup CellsOf(x.damage) \cup CellsIn(r)) \ CellsOf(after)]
<1>1. /\ x.damage \in Seq(RectType) /\ x.lost \in SUBSET (Int \X Int)
      /\ after \in Seq(RectType)
  BY AddedTyped DEF DamageState
<1>2. \A s \in Seq(RectType) : CellsOf(s) \subseteq Int \X Int
  <2>1. \A t \in RectType : CellsIn(t) \subseteq Int \X Int
    BY RectFields DEF CellsIn
  <2> QED BY <2>1 DEF CellsOf
<1>3. CellsIn(r) \subseteq Int \X Int
  BY RectFields DEF CellsIn
<1>4. Damaged[x][r] = IF CellsIn(r) \subseteq CellsOf(x.damage) THEN x ELSE next
  BY DEF Damaged
<1> HIDE DEF after
<1>5. next \in DamageState /\ next.asks
  <2>1. (x.lost \cup CellsOf(x.damage) \cup CellsIn(r)) \ CellsOf(after) \in SUBSET (Int \X Int)
    BY <1>1, <1>2, <1>3
  <2> QED BY <1>1, <2>1 DEF DamageState
<1>6. Due(x) \cup CellsIn(r) \subseteq Due(next)
  BY DEF Due
<1> HIDE DEF next
<1>7. CASE CellsIn(r) \subseteq CellsOf(x.damage)
  BY <1>4, <1>7 DEF Due
<1>8. CASE ~(CellsIn(r) \subseteq CellsOf(x.damage))
  BY <1>4, <1>5, <1>6, <1>8
<1> QED BY <1>7, <1>8
-----------------------------------------------------------------------------
(* The clipped rectangle of an exposure. *)

Extremes(S) ==
  /\ S \in SUBSET Int
  /\ \E m \in S : \A y \in S : y <= m
  /\ \E m \in S : \A y \in S : m <= y

LEMMA ExtremesAre ==
  ASSUME NEW S, Extremes(S)
  PROVE  /\ Max(S) \in S /\ \A y \in S : y <= Max(S)
         /\ Min(S) \in S /\ \A y \in S : Min(S) <= y
<1>1. \A x, y \in Int : x >= y <=> y <= x
  OBVIOUS
<1>2. (\E m \in S : \A y \in S : m >= y) /\ (\E m \in S : \A y \in S : m <= y)
  BY <1>1 DEF Extremes
<1>3. /\ Max(S) \in S /\ \A y \in S : Max(S) >= y
      /\ Min(S) \in S /\ \A y \in S : Min(S) <= y
  BY <1>2, Zenon DEF Max, Min
<1> QED BY <1>1, <1>3 DEF Extremes

LEMMA ExtremesOne ==
  ASSUME NEW x \in Int
  PROVE  Extremes({x})
BY DEF Extremes

LEMMA ExtremesMore ==
  ASSUME NEW S, Extremes(S), NEW x \in Int
  PROVE  Extremes({x} \cup S)
<1>1. PICK m \in S : \A y \in S : y <= m
  BY DEF Extremes
<1>2. PICK n \in S : \A y \in S : n <= y
  BY DEF Extremes
<1>3. S \in SUBSET Int /\ m \in Int /\ n \in Int
  BY DEF Extremes
<1>4. \E k \in {x} \cup S : \A y \in {x} \cup S : y <= k
  <2>1. CASE x <= m
    BY <1>1, <2>1
  <2>2. CASE ~(x <= m)
    <3>1. \A y \in S : y <= x
      BY <1>1, <1>3, <2>2
    <3> QED BY <3>1
  <2> QED BY <2>1, <2>2
<1>5. \E k \in {x} \cup S : \A y \in {x} \cup S : k <= y
  <2>1. CASE n <= x
    BY <1>2, <2>1
  <2>2. CASE ~(n <= x)
    <3>1. \A y \in S : x <= y
      BY <1>2, <1>3, <2>2
    <3> QED BY <3>1
  <2> QED BY <2>1, <2>2
<1> QED BY <1>3, <1>4, <1>5 DEF Extremes

Tops(w)    == {AbsRect(a).top : a \in Lineage(w)}
Lefts(w)   == {AbsRect(a).left : a \in Lineage(w)}
Bottoms(w) == {Bottom(AbsRect(a)) : a \in Lineage(w)}
Rights(w)  == {Right(AbsRect(a)) : a \in Lineage(w)}

Bounded(w) ==
  Extremes(Tops(w)) /\ Extremes(Lefts(w)) /\ Extremes(Bottoms(w)) /\ Extremes(Rights(w))

LEMMA LineageBounded ==
  ASSUME Forest
  PROVE  \A w \in Windows : Bounded(w)
<1> DEFINE in == {w \in Windows : Bounded(w)}
<1>1. ASSUME NEW w \in Windows, parent[w] # None => parent[w] \in in PROVE w \in in
  <2> DEFINE r == AbsRect(w)
             p == parent[w]
  <2>1. Lineage(w) = {w} \cup (IF p = None THEN {} ELSE Lineage(p)) /\ r \in RectType
    BY Upward
  <2>2. r.top \in Int /\ r.left \in Int /\ Bottom(r) \in Int /\ Right(r) \in Int
    BY <2>1, RectFields
  <2>3. CASE p = None
    <3>1. /\ Tops(w) = {r.top} /\ Lefts(w) = {r.left}
          /\ Bottoms(w) = {Bottom(r)} /\ Rights(w) = {Right(r)}
      BY <2>1, <2>3 DEF Tops, Lefts, Bottoms, Rights
    <3> HIDE DEF r, p
    <3> QED BY <2>2, <3>1, ExtremesOne DEF Bounded
  <2>4. CASE p # None
    <3>1. /\ Tops(w) = {r.top} \cup Tops(p) /\ Lefts(w) = {r.left} \cup Lefts(p)
          /\ Bottoms(w) = {Bottom(r)} \cup Bottoms(p)
          /\ Rights(w) = {Right(r)} \cup Rights(p)
      BY <2>1, <2>4 DEF Tops, Lefts, Bottoms, Rights
    <3>2. Bounded(p)
      BY <1>1, <2>4
    <3> HIDE DEF r, p
    <3> QED BY <2>2, <3>1, <3>2, ExtremesMore DEF Bounded
  <2> QED BY <2>3, <2>4
<1>2. \A w \in Windows : w \in in
  <2> HIDE DEF in
  <2> QED BY <1>1, Downward
<1> QED BY <1>2

LEMMA ClipIs ==
  ASSUME Forest, NEW w \in Windows
  PROVE  /\ Clip(w) \in RectType
         /\ \A c \in Int \X Int :
              (\A a \in Lineage(w) : c \in Cells(a)) => c \in CellsIn(Clip(w))
<1> DEFINE t == Max(Tops(w))
           l == Max(Lefts(w))
           b == Min(Bottoms(w))
           r == Min(Rights(w))
           above == {AbsRect(a) : a \in Lineage(w)}
<1>1. /\ t \in Tops(w) /\ l \in Lefts(w) /\ b \in Bottoms(w) /\ r \in Rights(w)
      /\ t \in Int /\ l \in Int /\ b \in Int /\ r \in Int
  BY LineageBounded, ExtremesAre DEF Bounded, Extremes
<1>2. Clip(w) = InitBounded(t, l, b, r)
  <2>1. /\ {x.top : x \in above} = Tops(w) /\ {x.left : x \in above} = Lefts(w)
        /\ {Bottom(x) : x \in above} = Bottoms(w) /\ {Right(x) : x \in above} = Rights(w)
    BY DEF Tops, Lefts, Bottoms, Rights
  <2> QED BY <2>1, Zenon DEF Clip
<1> HIDE DEF t, l, b, r
<1>3. /\ Clip(w) \in RectType /\ Clip(w).top = t /\ Clip(w).left = l
      /\ Bottom(Clip(w)) = b /\ Right(Clip(w)) = r
  <2>1. InitBounded(t, l, b, r).top = t /\ InitBounded(t, l, b, r).left = l
    BY DEF InitBounded
  <2>2. Bottom(InitBounded(t, l, b, r)) = b /\ Right(InitBounded(t, l, b, r)) = r
    BY <1>1 DEF InitBounded, Bottom, Right
  <2> QED BY <1>1, <1>2, <2>1, <2>2, BoundedTyped
<1>4. ASSUME NEW c \in Int \X Int, \A a \in Lineage(w) : c \in Cells(a)
      PROVE  c \in CellsIn(Clip(w))
  <2>2. ASSUME NEW a \in Lineage(w)
        PROVE  /\ AbsRect(a).top <= c[1] /\ AbsRect(a).left <= c[2]
               /\ c[1] < Bottom(AbsRect(a)) /\ c[2] < Right(AbsRect(a))
    <3>1. a \in Windows
      BY Upward
    <3>2. AbsRect(a) \in RectType
      BY <3>1, Upward
    <3>3. /\ AbsRect(a).top \in Int /\ AbsRect(a).left \in Int
          /\ Bottom(AbsRect(a)) \in Int /\ Right(AbsRect(a)) \in Int
      BY <3>2, RectFields
    <3>4. c \in CellsIn(AbsRect(a))
      BY <1>4 DEF Cells
    <3> QED BY <3>3, <3>4 DEF CellsIn
  <2>3. t <= c[1] /\ l <= c[2] /\ c[1] < b /\ c[2] < r
    BY <1>1, <2>2 DEF Tops, Lefts, Bottoms, Rights
  <2> QED BY <1>1, <1>3, <2>3 DEF CellsIn
<1> QED BY <1>3, <1>4

LEMMA Meets ==
  ASSUME NEW q \in RectType, NEW r \in RectType
  PROVE  /\ Intersection(q, r) \in RectType
         /\ \A c \in CellsIn(q) : c \in CellsIn(r) => c \in CellsIn(Intersection(q, r))
<1> DEFINE t == MaxInt(q.top, r.top)
           l == MaxInt(q.left, r.left)
           b == MinInt(Bottom(q), Bottom(r))
           e == MinInt(Right(q), Right(r))
<1>1. /\ q.top \in Int /\ q.left \in Int /\ Bottom(q) \in Int /\ Right(q) \in Int
      /\ r.top \in Int /\ r.left \in Int /\ Bottom(r) \in Int /\ Right(r) \in Int
  BY RectFields
<1>2. t \in Int /\ l \in Int /\ b \in Int /\ e \in Int
  BY <1>1, MinMaxInt
<1>3. Intersection(q, r) = InitBounded(t, l, b, e)
  BY DEF Intersection
<1>4. ASSUME NEW i \in Int, NEW j \in Int, <<i, j>> \in CellsIn(q), <<i, j>> \in CellsIn(r)
      PROVE  t <= i /\ l <= j /\ i < b /\ j < e
  BY <1>1, <1>4 DEF CellsIn, MaxInt, MinInt
<1> HIDE DEF t, l, b, e
<1>5. /\ InitBounded(t, l, b, e).top = t /\ InitBounded(t, l, b, e).left = l
      /\ Bottom(InitBounded(t, l, b, e)) = b /\ Right(InitBounded(t, l, b, e)) = e
  BY <1>2 DEF InitBounded, Bottom, Right
<1>6. ASSUME NEW c \in CellsIn(q), c \in CellsIn(r) PROVE c \in CellsIn(Intersection(q, r))
  <2>1. PICK i \in Int, j \in Int : c = <<i, j>>
    BY <1>1 DEF CellsIn
  <2>2. t <= i /\ l <= j /\ i < b /\ j < e
    BY <1>4, <1>6, <2>1
  <2> QED BY <1>2, <1>3, <1>5, <2>1, <2>2 DEF CellsIn
<1> QED BY <1>2, <1>3, <1>6, BoundedTyped

-----------------------------------------------------------------------------
(* What the exposures of a call make of the damage. *)

Owed == CellsOf(damage) \cup lost

(* The exposures so far have taken no cell out of what is owed, and asked  *)
(* for processing when they changed anything.                              *)
Exposing(x) ==
  /\ x \in DamageState /\ Owed \subseteq Due(x)
  /\ x = Now \/ x.asks

LEMMA NowExposes ==
  ASSUME TypeOK
  PROVE  Exposing(Now)
<1>1. Now \in DamageState /\ Now.damage = damage /\ Now.lost = lost
  BY DEF Now, DamageState, TypeOK
<1> QED BY <1>1 DEF Exposing, Due, Owed

LEMMA DamagedExposes ==
  ASSUME NEW x, Exposing(x), NEW r \in RectType
  PROVE  /\ Exposing(Damaged[x][r])
         /\ Due(x) \cup CellsIn(r) \subseteq Due(Damaged[x][r])
         /\ CellsIn(r) # {} => Damaged[x][r].asks \/ CellsOf(damage) # {}
<1>1. x \in DamageState
  BY DEF Exposing
<1>2. /\ Damaged[x][r] \in DamageState
      /\ Due(x) \cup CellsIn(r) \subseteq Due(Damaged[x][r])
      /\ Damaged[x][r] = x \/ Damaged[x][r].asks
      /\ CellsIn(r) # {} => Damaged[x][r].asks \/ CellsOf(x.damage) # {}
  BY <1>1, DamagedKeeps
<1>3. Now.damage = damage
  BY DEF Now
<1> QED BY <1>2, <1>3 DEF Exposing

(* c is in all the windows from w up, and they show. *)
Unclipped(w, c) == \A a \in Lineage(w) : visible[a] /\ c \in Cells(a)

LEMMA ExposeExposes ==
  ASSUME Forest, NEW x, Exposing(x), NEW w \in Windows, NEW r \in RectType
  PROVE  /\ Exposing(Expose(x, w, r))
         /\ Due(x) \subseteq Due(Expose(x, w, r))
         /\ \A c \in CellsIn(r) : Unclipped(w, c) =>
              /\ c \in Due(Expose(x, w, r))
              /\ Expose(x, w, r).asks \/ CellsOf(damage) # {}
<1>1. CASE ~\A a \in Lineage(w) : visible[a]
  BY <1>1 DEF Expose, Unclipped
<1>2. CASE \A a \in Lineage(w) : visible[a]
  <2> DEFINE q == Intersection(Clip(w), r)
  <2>1. Clip(w) \in RectType
    BY ClipIs
  <2>2. q \in RectType
    BY <2>1, Meets
  <2>3. Expose(x, w, r) = Damaged[x][q]
    BY <1>2 DEF Expose
  <2>4. ASSUME NEW c \in CellsIn(r), Unclipped(w, c) PROVE c \in CellsIn(q)
    <3>1. c \in Int \X Int
      BY RectFields DEF CellsIn
    <3>2. c \in CellsIn(Clip(w))
      BY <2>4, <3>1, ClipIs DEF Unclipped
    <3> QED BY <2>1, <3>2, Meets
  <2> HIDE DEF q
  <2> QED BY <2>2, <2>3, <2>4, DamagedExposes
<1> QED BY <1>1, <1>2

LEMMA Requesting ==
  ASSUME TypeOK, NEW x, Exposing(x), Request(x)
  PROVE  /\ damage' \in Seq(RectType) /\ lost' \subseteq Int \X Int
         /\ needsExpose' \in BOOLEAN /\ needsLater' \in BOOLEAN
         /\ Owed' = Due(x) /\ Owed \subseteq Owed'
         /\ (damage # <<>> => needsExpose) => (damage' # <<>> => needsExpose')
         /\ (needsExpose => needsExpose') /\ (needsLater => needsLater')
         /\ (needsExpose => needsLater) => (needsExpose' => needsLater')
         /\ x.asks => needsExpose'
<1>1. /\ x.damage \in Seq(RectType) /\ x.lost \subseteq Int \X Int /\ x.asks \in BOOLEAN
  BY DEF Exposing, DamageState
<1>2. Owed' = Due(x)
  BY DEF Owed, Due, Request
<1>3. ~x.asks => x.damage = damage
  BY DEF Exposing, Now
<1> QED BY <1>1, <1>2, <1>3 DEF Request, Exposing, TypeOK

-----------------------------------------------------------------------------
(* The lists of children. *)

LEMMA TreeNew ==
  ASSUME IInv, NEW w \in Windows, NEW p \in Under[w], NEW r \in Places[w],
         NEW hidden \in BOOLEAN, NEW lowest \in BOOLEAN,
         New(w, p, r, hidden, lowest)
  PROVE  ChildrenListed' /\ OneRoot'
<1>1. /\ w \notin live /\ p \in live /\ live \subseteq Windows
      /\ \A x \in live : parent[x] # w
      /\ live' = live \cup {w}
      /\ parent' = [parent EXCEPT ![w] = p]
      /\ children' = [children EXCEPT
           ![w] = <<>>,
           ![p] = IF lowest THEN InsertLast(@, w) ELSE InsertFirst(@, w)]
      /\ parent \in [Windows -> Windows \cup {None}]
      /\ children \in [Windows -> Seq(Windows)]
  BY DEF New, CanCall, IInv, TypeOK, Parents
<1>2. w # p /\ p \in Windows
  BY <1>1
<1>3. Lists(children'[w], Kids(w)')
  <2>1. children'[w] = <<>> /\ Kids(w)' = {}
    BY <1>1, <1>2 DEF Kids
  <2>2. QED
    BY <2>1, ListsNone
<1>4. Lists(children'[p], Kids(p)')
  <2>1. Kids(p)' = Kids(p) \cup {w} /\ w \notin Kids(p)
    BY <1>1, <1>2 DEF Kids
  <2>2. Lists(children[p], Kids(p))
    BY <1>1 DEF IInv, ChildrenListed
  <2>3. children'[p] = InsertLast(children[p], w) \/ children'[p] = InsertFirst(children[p], w)
    BY <1>1, <1>2
  <2>4. QED
    BY <2>1, <2>2, <2>3, ListsFirst, ListsLast
<1>5. ASSUME NEW q \in live', q # w, q # p PROVE Lists(children'[q], Kids(q)')
  <2>1. q \in live /\ children'[q] = children[q] /\ Kids(q)' = Kids(q)
    BY <1>1, <1>2, <1>5 DEF Kids
  <2>2. QED
    BY <2>1 DEF IInv, ChildrenListed
<1>6. ChildrenListed'
  BY <1>3, <1>4, <1>5 DEF ChildrenListed
<1>7. OneRoot'
  BY <1>1, <1>2 DEF IInv, OneRoot
<1>8. QED
  BY <1>6, <1>7

(* What the later proofs need of a destroyed chain. *)
Frees(w, gone) ==
  /\ w \in gone /\ w # Root /\ parent[w] \in live /\ parent[w] \notin gone
  /\ \A x \in gone : x = w \/ parent[x] \in gone
  /\ live' = live \ gone
  /\ parent' = Freed(
       [x \in Windows |-> IF parent[x] \in gone THEN Dangling ELSE parent[x]], gone, None)
  /\ children' = Freed([children EXCEPT ![parent[w]] = Without(@, w)], gone, <<>>)
  /\ visible' = Freed(visible, gone, TRUE)
  /\ focusedChild' = Freed(Unfocus(parent[w], w), gone, None)
  /\ rect' = Freed(rect, gone, rect[Root])
  /\ isFocused' = Freed(isFocused, gone, FALSE)
  /\ cursor' = Freed(cursor, gone, [at |-> <<0, 0>>, visible |-> TRUE])
  /\ \A i \in DOMAIN stack : stack[i].win \notin gone
  /\ \E n \in 0..Len(changes) : \E f \in [1..n -> DOMAIN changes] :
       /\ Keeps(gone, f)
       /\ changes' = [k \in 1..n |-> changes[f[k]]]

(* The chain leads down from w, each window the first child of the one     *)
(* that is freed after it; the parent of w is above them all.              *)
LEMMA FreedChain ==
  ASSUME IInv, NEW w \in live, NEW n \in Nat, NEW below \in [1..n -> live],
         FreedWith(w, below)
  PROVE  /\ ToSet(below) \cup {w} \in SUBSET live
         /\ \A x \in ToSet(below) \cup {w} : x = w \/ parent[x] \in ToSet(below) \cup {w}
         /\ parent[w] # None => parent[w] \notin ToSet(below) \cup {w}
<1> DEFINE freed == Append(below, w)
           gone  == ToSet(below) \cup {w}
<1>1. below \in Seq(live) /\ Len(below) = n /\ DOMAIN below = 1..n
  OBVIOUS
<1>2. /\ DOMAIN freed = 1..n + 1 /\ freed[n + 1] = w
      /\ \A i \in 1..n : freed[i] = below[i]
      /\ \A i \in 1..n + 1 : freed[i] \in live
  BY <1>1
<1>3. /\ ToSet(below) = {below[i] : i \in 1..n}
      /\ live \subseteq Windows /\ parent \in [Windows -> Windows \cup {None}]
  BY <1>1 DEF ToSet, IInv, TypeOK
<1>4. ASSUME NEW i \in 1..n PROVE parent[freed[i]] = freed[i + 1]
  <2> DEFINE p == freed[i + 1]
  <2>1. i + 1 \in 1..n + 1 /\ p \in live
    BY <1>2
  <2>2. children[p] # <<>> /\ freed[i] = Head(children[p])
    BY <1>1 DEF FreedWith
  <2>3. Lists(children[p], Kids(p))
    BY <2>1 DEF IInv, ChildrenListed
  <2> HIDE DEF p, freed
  <2>4. 1 \in DOMAIN children[p] /\ Head(children[p]) = children[p][1]
    BY <2>2, <2>3 DEF Lists
  <2>5. freed[i] \in Kids(p)
    BY <2>2, <2>3, <2>4 DEF Lists
  <2>6. parent[freed[i]] = p
    BY <2>5 DEF Kids
  <2> QED BY <2>6 DEF p
<1> HIDE DEF freed
<1>5. \A x \in gone : \E i \in 1..n + 1 : x = freed[i]
  <2>1. n + 1 \in 1..n + 1 /\ \A i \in 1..n : i \in 1..n + 1
    OBVIOUS
  <2> QED BY <1>2, <1>3, <2>1
<1>6. \A i \in 1..n + 1 : freed[i] \in gone
  <2>1. \A i \in 1..n + 1 : i \in 1..n \/ i = n + 1
    OBVIOUS
  <2> QED BY <1>2, <1>3, <2>1
<1>7. gone \in SUBSET live
  BY <1>2, <1>5
<1>8. \A x \in gone : x = w \/ parent[x] \in gone
  <2> SUFFICES ASSUME NEW i \in 1..n + 1, freed[i] # w PROVE parent[freed[i]] \in gone
    BY <1>5
  <2>1. i \in 1..n /\ i + 1 \in 1..n + 1
    BY <1>2
  <2> QED BY <1>4, <1>6, <2>1
<1>9. ASSUME parent[w] # None PROVE parent[w] \notin gone
  <2>1. PICK rank : Ranks(rank, Windows, None, parent)
    BY DEF IInv, Ranked
  <2>2. /\ \A x \in Windows : rank[x] \in Nat
        /\ \A x \in Windows : parent[x] # None => rank[parent[x]] < rank[x]
    BY <2>1 DEF Ranks
  <2> DEFINE S == {k \in 0..n : rank[w] <= rank[freed[n + 1 - k]]}
  <2>3. 0 \in S
    <3>1. rank[w] \in Nat /\ freed[n + 1 - 0] = w
      BY <1>2, <1>3, <2>2
    <3> QED BY <3>1
  <2>4. \A k \in 0..n - 1 : k \in S => k + 1 \in S
    <3> SUFFICES ASSUME NEW k \in 0..n - 1, k \in S PROVE k + 1 \in S
      OBVIOUS
    <3> DEFINE i == n - k
    <3>1. /\ i \in 1..n /\ i + 1 = n + 1 - k /\ i = n + 1 - (k + 1)
          /\ i + 1 \in 1..n + 1 /\ i \in 1..n + 1 /\ k + 1 \in 0..n
      OBVIOUS
    <3> HIDE DEF i
    <3>2. /\ freed[i] \in Windows /\ freed[i + 1] \in Windows
          /\ parent[freed[i]] = freed[i + 1]
      BY <1>2, <1>3, <1>4, <3>1
    <3>3. rank[freed[i + 1]] < rank[freed[i]]
      BY <2>2, <3>2
    <3>4. rank[w] <= rank[freed[i + 1]]
      BY <3>1
    <3>5. rank[w] \in Nat /\ rank[freed[i]] \in Nat /\ rank[freed[i + 1]] \in Nat
      BY <1>3, <2>2, <3>2
    <3>6. rank[w] <= rank[freed[i]]
      BY <3>3, <3>4, <3>5
    <3> QED BY <3>1, <3>6
  <2>5. \A k \in 0..n : k \in S
    <3> HIDE DEF S
    <3> QED BY <2>3, <2>4, BoundedInduction
  <2>6. ASSUME NEW x \in gone PROVE rank[w] <= rank[x]
    <3>1. PICK i \in 1..n + 1 : x = freed[i]
      BY <1>5
    <3>2. n + 1 - i \in 0..n /\ n + 1 - (n + 1 - i) = i
      OBVIOUS
    <3> QED BY <2>5, <3>1, <3>2
  <2>7. rank[parent[w]] < rank[w] /\ rank[parent[w]] \in Nat /\ rank[w] \in Nat
    BY <1>3, <1>9, <2>2
  <2> QED BY <2>6, <2>7
<1> QED BY <1>7, <1>8, <1>9

LEMMA DestroyFrees ==
  ASSUME IInv, NEW w \in Windows, Destroy(w)
  PROVE  \E gone \in SUBSET live : Frees(w, gone)
<1>1. w \in live /\ w # Root /\ parent[w] \in live /\ parent[w] # None
  BY DEF Destroy, CanCall, Attached, IInv, OneRoot, TypeOK
<1>2. PICK n \in 0..Cardinality(live) : \E below \in [1..n -> live] :
        LET gone == ToSet(below) \cup {w} IN
        /\ FreedWith(w, below)
        /\ \A i \in DOMAIN stack : stack[i].win \notin gone
        /\ live' = live \ gone
        /\ parent' = Freed(
             [x \in Windows |-> IF parent[x] \in gone THEN Dangling ELSE parent[x]],
             gone, None)
        /\ children' = Freed([children EXCEPT ![parent[w]] = Without(@, w)], gone, <<>>)
        /\ visible' = Freed(visible, gone, TRUE)
        /\ rect' = Freed(rect, gone, rect[Root])
        /\ focusedChild' = Freed(Unfocus(parent[w], w), gone, None)
        /\ isFocused' = Freed(isFocused, gone, FALSE)
        /\ cursor' = Freed(cursor, gone, [at |-> <<0, 0>>, visible |-> TRUE])
        /\ \E m \in 0..Len(changes) : \E f \in [1..m -> DOMAIN changes] :
             /\ Keeps(gone, f)
             /\ changes' = [k \in 1..m |-> changes[f[k]]]
        /\ Request(Removed(FoldLeft(Removed, Now, below), w))
  BY Zenon DEF Destroy
<1>3. PICK below \in [1..n -> live] :
        LET gone == ToSet(below) \cup {w} IN
        /\ FreedWith(w, below)
        /\ live' = live \ gone
        /\ parent' = Freed(
             [x \in Windows |-> IF parent[x] \in gone THEN Dangling ELSE parent[x]],
             gone, None)
        /\ children' = Freed([children EXCEPT ![parent[w]] = Without(@, w)], gone, <<>>)
        /\ visible' = Freed(visible, gone, TRUE)
        /\ focusedChild' = Freed(Unfocus(parent[w], w), gone, None)
        /\ rect' = Freed(rect, gone, rect[Root])
        /\ isFocused' = Freed(isFocused, gone, FALSE)
        /\ cursor' = Freed(cursor, gone, [at |-> <<0, 0>>, visible |-> TRUE])
        /\ \A i \in DOMAIN stack : stack[i].win \notin gone
        /\ \E m \in 0..Len(changes) : \E f \in [1..m -> DOMAIN changes] :
             /\ Keeps(gone, f)
             /\ changes' = [k \in 1..m |-> changes[f[k]]]
  BY <1>2, Zenon
<1> DEFINE gone == ToSet(below) \cup {w}
<1>3a. n \in Nat /\ FreedWith(w, below)
  <2>1. n \in Nat
    OBVIOUS
  <2>2. FreedWith(w, below)
    BY <1>3, Zenon
  <2> QED BY <2>1, <2>2
<1>4. /\ gone \in SUBSET live /\ w \in gone /\ parent[w] \notin gone
      /\ \A x \in gone : x = w \/ parent[x] \in gone
  <2>1. /\ gone \in SUBSET live /\ (parent[w] # None => parent[w] \notin gone)
        /\ \A x \in gone : x = w \/ parent[x] \in gone
    BY <1>1, <1>3a, FreedChain
  <2> QED BY <1>1, <2>1
<1>5. Frees(w, gone)
  BY <1>1, <1>3, <1>4, Zenon DEF Frees
<1> QED BY <1>4, <1>5

(* Each window freed is exposed, the last one after the windows below it.  *)
Removing == INSTANCE Induction WITH Pass <- LAMBDA p, q, r, x, b : Removed(x, b)

LEMMA DestroyExposes ==
  ASSUME IInv, NEW w \in Windows, Destroy(w)
  PROVE  \E x : Exposing(x) /\ Request(Expose(x, parent[w], AbsRect(w)))
<1>0. PICK n \in 0..Cardinality(live) : \E below \in [1..n -> live] :
        FreedWith(w, below) /\ Request(Removed(FoldLeft(Removed, Now, below), w))
  BY Zenon DEF Destroy
<1>1. PICK below \in [1..n -> live] :
        FreedWith(w, below) /\ Request(Removed(FoldLeft(Removed, Now, below), w))
  BY <1>0
<1>2. /\ w \in live /\ parent[w] \in live /\ parent[w] # None
      /\ live \subseteq Windows /\ TypeOK /\ Forest
  BY DEF Destroy, CanCall, Attached, IInv, OneRoot, TypeOK, Forest
<1> DEFINE gone == ToSet(below) \cup {w}
           x    == FoldLeft(Removed, Now, below)
           kept == (0..n) \X {y \in DamageState : Exposing(y)}
<1>3. \A i \in 1..n : below[i] \in Windows /\ parent[below[i]] \in Windows
  <2>1. /\ gone \in SUBSET live /\ \A y \in gone : y = w \/ parent[y] \in gone
    BY <1>1, <1>2, FreedChain
  <2>2. \A i \in 1..n : below[i] \in gone
    BY DEF ToSet
  <2> QED BY <1>2, <2>1, <2>2
<1>4. <<n, Removing!Loop({}, {}, {}, Now, below)>> \in kept
  <2>1. DOMAIN below = 1..n /\ <<0, Now>> \in kept
    BY <1>2, NowExposes DEF Exposing
  <2>2. ASSUME NEW k \in 1..n, NEW made, <<k - 1, made>> \in kept
        PROVE  <<k, Removed(made, below[k])>> \in kept
    <3>1. Exposing(made) /\ below[k] \in Windows /\ parent[below[k]] \in Windows
      BY <1>3, <2>2
    <3>2. AbsRect(below[k]) \in RectType
      BY <1>2, <3>1, Upward
    <3>3. Exposing(Removed(made, below[k]))
      BY <1>2, <3>1, <3>2, ExposeExposes DEF Removed
    <3> QED BY <3>3 DEF Exposing
  <2> HIDE DEF kept
  <2> QED BY <2>1, <2>2, Removing!LoopKeeps
<1>5. x = Removing!Loop({}, {}, {}, Now, below)
  BY Zenon DEF Removing!Loop, Removing!Passes, FoldLeft, MapThenFoldSet, Max, Removing!Max
<1>6. Exposing(x) /\ Request(Expose(x, parent[w], AbsRect(w)))
  BY <1>1, <1>4, <1>5 DEF Removed
<1> QED BY <1>6

(* Every action that exposes anything makes one request of it. *)
LEMMA NewExposes ==
  ASSUME IInv, NEW w \in Windows, NEW p \in Under[w], NEW r \in Places[w],
         NEW hidden \in BOOLEAN, NEW lowest \in BOOLEAN,
         New(w, p, r, hidden, lowest)
  PROVE  LET news == Translate(r, AbsRect(p).top, AbsRect(p).left)
             x    == Expose(Now, p, news)
         IN  news \in RectType /\ Exposing(x) /\ Request(x)
<1>1. p \in Windows /\ r \in RectType /\ TypeOK /\ Forest
  BY ForestNow DEF IInv
<1>2. AbsRect(p) \in RectType
  BY <1>1, Upward
<1>3. AbsRect(p).top \in Int /\ AbsRect(p).left \in Int
  BY <1>2, RectFields
<1> DEFINE news == Translate(r, AbsRect(p).top, AbsRect(p).left)
<1>4. news \in RectType
  BY <1>1, <1>3, TranslateType
<1>5. Request(Expose(Now, p, news))
  BY DEF New
<1> HIDE DEF news
<1>6. Exposing(Expose(Now, p, news))
  BY <1>1, <1>4, NowExposes, ExposeExposes
<1> QED BY <1>4, <1>5, <1>6 DEF news

LEMMA ShowExposes ==
  ASSUME IInv, NEW w \in Windows, Show(w) \/ Hide(w) \/ Update(w)
  PROVE  \E x : Exposing(x) /\ Request(x)
<1>1. /\ TypeOK /\ Forest /\ AbsRect(w) \in RectType /\ rect[Root] \in RectType
      /\ w # Root => parent[w] \in Windows
      /\ needsExpose \in BOOLEAN /\ needsLater \in BOOLEAN
  BY ForestNow, Upward DEF IInv, Show, Hide, Update, CanCall, OneRoot, TypeOK
<1>2. /\ Exposing(Now) /\ Exposing(Damaged[Now][rect[Root]])
      /\ Exposing(Expose(Now, w, AbsRect(w)))
      /\ w # Root => Exposing(Expose(Now, parent[w], AbsRect(w)))
  BY <1>1, NowExposes, DamagedExposes, ExposeExposes
<1>3. UNCHANGED <<damages, needsExpose, needsLater>> => Request(Now)
  BY <1>1 DEF Request, Now, damages
<1>4. \/ UNCHANGED <<damages, needsExpose, needsLater>>
      \/ Request(Damaged[Now][rect[Root]]) \/ Request(Expose(Now, w, AbsRect(w)))
      \/ w # Root /\ Request(Expose(Now, parent[w], AbsRect(w)))
  BY Zenon DEF Show, Hide, Update
<1> QED BY <1>2, <1>3, <1>4

LEMMA ApplyExposes ==
  ASSUME IInv, ApplyChange
  PROVE  LET x == Expose(Now, Head(changes).parent, AbsRect(Head(changes).win))
         IN  Exposing(x) /\ Request(x)
<1> DEFINE req == Head(changes)
<1>1. req \in Change
  <2>1. changes \in Seq(Change) /\ changes # <<>>
    BY DEF ApplyChange, IInv, TypeOK
  <2> QED BY <2>1
<1>2. Request(Expose(Now, req.parent, AbsRect(req.win)))
  BY DEF ApplyChange
<1> HIDE DEF req
<1>3. req.win \in Windows /\ req.parent \in Windows /\ TypeOK /\ Forest
  BY <1>1, ForestNow DEF Change, IInv
<1>4. AbsRect(req.win) \in RectType
  BY <1>3, Upward
<1>5. Exposing(Expose(Now, req.parent, AbsRect(req.win)))
  BY <1>3, <1>4, NowExposes, ExposeExposes
<1> QED BY <1>2, <1>5 DEF req

LEMMA StripExposes ==
  ASSUME NEW x, Exposing(x), NEW more \in BOOLEAN, NEW r \in RectType, NEW strip \in RectType
  PROVE  /\ Exposing(ExposeStrip(x, more, r, strip))
         /\ Due(x) \subseteq Due(ExposeStrip(x, more, r, strip))
         /\ more /\ visible[Root] =>
              \A c \in CellsIn(r) \cap CellsIn(strip) :
                /\ c \in Due(ExposeStrip(x, more, r, strip))
                /\ ExposeStrip(x, more, r, strip).asks \/ CellsOf(damage) # {}
<1>1. /\ Intersection(r, strip) \in RectType
      /\ \A c \in CellsIn(r) : c \in CellsIn(strip) => c \in CellsIn(Intersection(r, strip))
  BY Meets
<1>2. CASE more /\ visible[Root]
  <2>1. ExposeStrip(x, more, r, strip) = Damaged[x][Intersection(r, strip)]
    BY <1>2 DEF ExposeStrip
  <2> QED BY <1>1, <2>1, DamagedExposes
<1>3. CASE ~(more /\ visible[Root])
  BY <1>3 DEF ExposeStrip
<1> QED BY <1>2, <1>3

LEMMA ResizeExposes ==
  ASSUME IInv, NEW r \in Sizes, Resize(r)
  PROVE  \E x : /\ Exposing(x) /\ Request(x)
                /\ visible[Root] => \A c \in CellsIn(r) \ RootCells :
                     c \in Due(x) /\ (x.asks \/ CellsOf(damage) # {})
<1> DEFINE old   == rect[Root]
           lower == ExposeStrip(Now, r.lines > old.lines, r, StripBelow(old, r))
           x     == ExposeStrip(lower, r.cols > old.cols, r, StripBeside(old, r))
<1>1. /\ TypeOK /\ old \in RectType /\ r \in RectType
      /\ old.top = 0 /\ old.left = 0 /\ r.top = 0 /\ r.left = 0
  BY DEF IInv, TypeOK
<1>2. Request(x)
  BY DEF Resize
<1>3. /\ (r.lines > old.lines) \in BOOLEAN /\ (r.cols > old.cols) \in BOOLEAN
      /\ StripBelow(old, r) \in RectType /\ StripBeside(old, r) \in RectType
  <2>1. \A i, j \in Int : i - j \in Int /\ (i > j) \in BOOLEAN
    OBVIOUS
  <2>2. r.lines - old.lines \in Int /\ r.cols - old.cols \in Int
    BY <1>1, <2>1, RectFields
  <2> QED BY <1>1, <2>1, <2>2, RectFields DEF StripBelow, StripBeside, InitSized, RectType
<1> HIDE DEF old
<1>4. Exposing(lower)
  BY <1>1, <1>3, NowExposes, StripExposes
<1>5. /\ Exposing(x) /\ Due(lower) \subseteq Due(x) /\ (lower.asks => x.asks)
  <2> HIDE DEF lower
  <2>1. Exposing(x) /\ Due(lower) \subseteq Due(x)
    BY <1>1, <1>3, <1>4, StripExposes
  <2>2. x = lower \/ x.asks
    BY <1>1, <1>3, <1>4, DamagedKeeps, Meets DEF ExposeStrip, Exposing
  <2> QED BY <2>1, <2>2
<1>6. ASSUME visible[Root], NEW c \in CellsIn(r) \ CellsIn(old)
      PROVE  c \in Due(x) /\ (x.asks \/ CellsOf(damage) # {})
  <2>1. PICK i \in Int, j \in Int :
          /\ c = <<i, j>> /\ 0 <= i /\ i < r.lines /\ 0 <= j /\ j < r.cols
          /\ old.lines <= i \/ old.cols <= j
    <3>1. /\ r.lines \in Int /\ r.cols \in Int /\ old.lines \in Int /\ old.cols \in Int
          /\ Bottom(r) = r.lines /\ Right(r) = r.cols
          /\ Bottom(old) = old.lines /\ Right(old) = old.cols
      BY <1>1, RectFields
    <3>2. /\ CellsIn(r) = (0..r.lines - 1) \X (0..r.cols - 1)
          /\ CellsIn(old) = (0..old.lines - 1) \X (0..old.cols - 1)
      BY <1>1, <3>1 DEF CellsIn
    <3>3. PICK i \in 0..r.lines - 1, j \in 0..r.cols - 1 : c = <<i, j>>
      BY <3>2
    <3>4. ~(i \in 0..old.lines - 1 /\ j \in 0..old.cols - 1)
      BY <3>2, <3>3
    <3> QED BY <3>1, <3>3, <3>4
  <2>2. /\ r.lines \in Int /\ r.cols \in Int /\ old.lines \in Int /\ old.cols \in Int
    BY <1>1, RectFields
  <2>3. CASE old.lines <= i
    <3>1. c \in CellsIn(StripBelow(old, r)) /\ r.lines > old.lines
      BY <2>1, <2>2, <2>3 DEF StripBelow, InitSized, CellsIn, Bottom, Right
    <3>2. c \in Due(lower) /\ (lower.asks \/ CellsOf(damage) # {})
      BY <1>1, <1>3, <1>6, <3>1, NowExposes, StripExposes
    <3> QED BY <1>5, <3>2
  <2>4. CASE ~(old.lines <= i)
    <3>1. c \in CellsIn(StripBeside(old, r)) /\ r.cols > old.cols
      BY <2>1, <2>2, <2>4 DEF StripBeside, InitSized, CellsIn, Bottom, Right
    <3> HIDE DEF lower
    <3> QED BY <1>1, <1>3, <1>4, <1>6, <3>1, StripExposes
  <2> QED BY <2>3, <2>4
<1> HIDE DEF x
<1> QED BY <1>2, <1>5, <1>6 DEF RootCells, old

LEMMA TreeDestroy ==
  ASSUME IInv, NEW w \in Windows, Destroy(w)
  PROVE  ChildrenListed' /\ OneRoot' /\ Root \in live'
<1> DEFINE p == parent[w]
<1>0. PICK gone \in SUBSET live : Frees(w, gone)
  BY DestroyFrees
<1>1. /\ w \in gone /\ w # Root /\ p \in live /\ p \notin gone
      /\ \A x \in gone : x = w \/ parent[x] \in gone
      /\ live' = live \ gone
      /\ parent' = Freed(
           [x \in Windows |-> IF parent[x] \in gone THEN Dangling ELSE parent[x]],
           gone, None)
      /\ children' = Freed([children EXCEPT ![p] = Without(@, w)], gone, <<>>)
  BY <1>0 DEF Frees
<1> HIDE DEF p
<1>2. /\ live \subseteq Windows /\ parent \in [Windows -> Windows \cup {None}]
      /\ children \in [Windows -> Seq(Windows)] /\ Root \in live /\ parent[Root] = None
  BY DEF IInv, TypeOK
<1>3. ASSUME NEW q \in live'
      PROVE  /\ q \in live /\ q \notin gone
             /\ parent'[q] = IF parent[q] \in gone THEN Dangling ELSE parent[q]
             /\ children'[q] = IF q = p THEN Without(children[p], w) ELSE children[q]
             /\ Kids(q)' = IF q = p THEN Kids(p) \ {w} ELSE Kids(q)
  <2>1. /\ q \in live /\ q \in Windows /\ q \notin gone
        /\ parent'[q] = IF parent[q] \in gone THEN Dangling ELSE parent[q]
        /\ children'[q] = IF q = p THEN Without(children[p], w) ELSE children[q]
    BY <1>1, <1>2 DEF Freed
  <2>2. Kids(q)' = {x \in live \ gone : parent[x] = q}
    <3>1. q # Dangling
      BY <2>1 DEF IInv, Parents
    <3>2. \A x \in live \ gone :
            parent'[x] = IF parent[x] \in gone THEN Dangling ELSE parent[x]
      BY <1>1, <1>2 DEF Freed
    <3> QED BY <1>1, <2>1, <3>1, <3>2 DEF Kids
  <2>3. ASSUME NEW x \in gone, parent[x] = q PROVE x = w /\ q = p
    BY <1>1, <2>1, <2>3 DEF p
  <2>4. QED
    BY <1>1, <2>1, <2>2, <2>3 DEF Kids, p
<1>4. ASSUME NEW q \in live' PROVE Lists(children'[q], Kids(q)')
  <2>1. Lists(children[q], Kids(q))
    BY <1>3 DEF IInv, ChildrenListed
  <2>2. CASE q = p
    <3>1. w \in Kids(p)
      BY <1>1 DEF Kids, p
    <3>2. QED
      BY <1>3, <2>1, <2>2, <3>1, ListsWithout
  <2>3. CASE q # p
    BY <1>3, <2>1, <2>3
  <2>4. QED
    BY <2>2, <2>3
<1>5. ChildrenListed'
  BY <1>4 DEF ChildrenListed
<1>6. OneRoot'
  BY <1>3 DEF IInv, OneRoot
<1>7. Root \in live'
  <2>1. ASSUME Root \in gone PROVE FALSE
    BY <1>1, <1>2, <2>1
  <2>2. QED
    BY <1>1, <1>2, <2>1
<1>8. QED
  BY <1>5, <1>6, <1>7

LEMMA TreeApply ==
  ASSUME IInv, ApplyChange
  PROVE  ChildrenListed' /\ OneRoot'
<1> DEFINE req == Head(changes)
<1>1. /\ live' = live /\ parent' = parent
      /\ children' = [children EXCEPT ![req.parent] = Restacked(req.change, @, req.win)]
  BY DEF ApplyChange
<1>2. req \in Change /\ req = changes[1] /\ 1 \in DOMAIN changes
  BY DEF ApplyChange, IInv, TypeOK
<1>3. req.win \in live /\ req.parent \in live /\ parent[req.win] = req.parent
  BY <1>2 DEF IInv, ChangesParented
<1>4. req.change \in Kinds /\ req.win \in Windows
  BY <1>2 DEF Change
<1> HIDE DEF req
<1>5. /\ live \subseteq Windows /\ children \in [Windows -> Seq(Windows)]
  BY DEF IInv, TypeOK
<1>6. ASSUME NEW q \in live PROVE Lists(children'[q], Kids(q))
  <2>1. Lists(children[q], Kids(q))
    BY DEF IInv, ChildrenListed
  <2>2. CASE q = req.parent
    <3>1. children'[q] = Restacked(req.change, children[q], req.win)
      BY <1>1, <1>5, <2>2
    <3>2. req.win \in Kids(q) /\ Kids(q) \subseteq Windows
      BY <1>3, <1>5, <2>2 DEF Kids
    <3>3. QED
      BY <1>4, <2>1, <3>1, <3>2, ListsRestacked
  <2>3. CASE q # req.parent
    BY <1>1, <1>5, <2>1, <2>3
  <2>4. QED
    BY <2>2, <2>3
<1>7. ChildrenListed'
  BY <1>1, <1>6 DEF ChildrenListed, Kids
<1>8. OneRoot'
  BY <1>1 DEF IInv, OneRoot
<1>9. QED
  BY <1>7, <1>8

(* The other actions leave the tree alone. *)
TreeChange ==
  \/ \E w \in Windows :
       \/ \E p \in Under[w], r \in Places[w], hidden, lowest \in BOOLEAN :
            New(w, p, r, hidden, lowest)
       \/ Destroy(w)
  \/ ApplyChange

LEMMA TreeFrame ==
  ASSUME Next, ~TreeChange
  PROVE  UNCHANGED <<live, parent, children>>
<1>1. CASE Flush
  BY <1>1 DEF Flush, TreeChange, FlushBegin, StartPaint, NoPaint, BeginPass, SkipChild,
              EnterChild, Draw, Return, EndPaint, tree
<1>2. CASE Call
  BY <1>2 DEF Call, TreeChange, Show, Hide, Update, TakeFocus, Restack, SetCursor, tree
<1>3. CASE \E r \in Sizes : Resize(r)
  BY <1>3 DEF Resize
<1>4. QED
  BY <1>1, <1>2, <1>3 DEF Next

LEMMA TreeStep ==
  ASSUME IInv, [Next]_vars
  PROVE  ChildrenListed' /\ OneRoot'
<1>1. CASE TreeChange
  BY <1>1, TreeNew, TreeDestroy, TreeApply DEF TreeChange
<1>2. CASE UNCHANGED <<live, parent, children>>
  BY <1>2 DEF IInv, ChildrenListed, OneRoot, Kids
<1>3. CASE UNCHANGED vars
  BY <1>2, <1>3 DEF vars, tree
<1>4. QED
  BY <1>1, <1>2, <1>3, TreeFrame

-----------------------------------------------------------------------------
(* The links stay a forest: a new window has no children yet. *)

LEMMA ForestNew ==
  ASSUME IInv, NEW w \in Windows, NEW p \in Under[w],
         NEW r \in Places[w], NEW hidden \in BOOLEAN, NEW lowest \in BOOLEAN,
         New(w, p, r, hidden, lowest)
  PROVE  /\ Ranked' /\ FreeApart' /\ Parents'
         /\ \A x \in Windows : parent[x] # w
<1>1. /\ w \notin live /\ p \in live /\ p \in Windows
      /\ \A x \in live : parent[x] # w
      /\ live' = live \cup {w} /\ parent' = [parent EXCEPT ![w] = p]
      /\ parent \in [Windows -> Windows \cup {None}] /\ w # Dangling
  BY DEF New, CanCall, IInv, TypeOK, Parents
<1>2. \A x \in Windows : parent[x] # w
  BY <1>1 DEF IInv, FreeApart
<1>3. PICK rank : /\ Ranks(rank, Windows, None, parent)
                  /\ \E n \in Nat : \A x \in Windows : rank[x] <= n
  BY DEF IInv, Ranked
<1>4. rank \in [Windows -> Nat]
      /\ \A x \in Windows : parent[x] # None => rank[parent[x]] < rank[x]
  BY <1>3 DEF Ranks
<1> DEFINE next == [rank EXCEPT ![w] = rank[p] + 1]
<1>5. Ranks(next, Windows, None, parent')
  <2>0. p # w /\ rank[p] \in Nat /\ rank[p] + 1 \in Nat
    <3>1. p # w /\ rank[p] \in Nat
      BY <1>1, <1>4, Zenon
    <3> QED BY <3>1
  <2>1. next \in [Windows -> Nat]
    BY <1>4, <2>0
  <2>2. ASSUME NEW x \in Windows, parent'[x] # None PROVE next[parent'[x]] < next[x]
    <3>1. CASE x = w
      <4>1. parent'[w] = p /\ next[w] = rank[p] + 1 /\ next[p] = rank[p]
        BY <1>1, <1>4, <2>0
      <4> QED BY <2>0, <3>1, <4>1
    <3>2. CASE x # w
      <4>1. parent'[x] = parent[x] /\ parent[x] \in Windows /\ parent[x] # w
        BY <1>1, <1>2, <2>2, <3>2
      <4> QED BY <1>4, <2>2, <3>2, <4>1
    <3> QED BY <3>1, <3>2
  <2> QED BY <2>1, <2>2 DEF Ranks
<1>6. Ranked'
  <2>1. PICK n \in Nat : \A x \in Windows : rank[x] <= n
    BY <1>3
  <2>2. ASSUME NEW x \in Windows PROVE next[x] <= n + 1
    <3>1. PICK i \in Nat, j \in Nat : i = rank[p] /\ j = rank[x] /\ i <= n /\ j <= n
      BY <1>1, <1>4, <2>1
    <3>2. i + 1 <= n + 1 /\ j <= n + 1
      BY <3>1
    <3> QED BY <1>4, <3>1, <3>2
  <2>3. n + 1 \in Nat
    OBVIOUS
  <2> HIDE DEF next
  <2> QED BY <1>5, <2>2, <2>3 DEF Ranked
<1>7. FreeApart' /\ Parents'
  BY <1>1 DEF IInv, FreeApart, Parents
<1> QED BY <1>2, <1>6, <1>7

LEMMA ForestStep ==
  ASSUME IInv, [Next]_vars
  PROVE  Ranked' /\ FreeApart' /\ Parents'
<1>1. CASE UNCHANGED <<live, parent>>
  BY <1>1 DEF IInv, Ranked, FreeApart, Parents
<1>2. ASSUME NEW w \in Windows, Destroy(w) PROVE Ranked' /\ FreeApart' /\ Parents'
  <2>1. PICK gone \in SUBSET live : Frees(w, gone)
    BY <1>2, DestroyFrees
  <2>2. /\ live' = live \ gone /\ gone \subseteq live
        /\ parent' = [x \in Windows |->
             IF x \in gone THEN None
             ELSE IF parent[x] \in gone THEN Dangling ELSE parent[x]]
        /\ live \subseteq Windows /\ parent \in [Windows -> Windows \cup {None}]
        /\ Dangling \notin live /\ parent[Dangling] = None
    BY <2>1 DEF Frees, Freed, IInv, TypeOK, Parents, FreeApart
  <2>3. PICK rank : /\ Ranks(rank, Windows, None, parent)
                    /\ \E n \in Nat : \A x \in Windows : rank[x] <= n
    BY DEF IInv, Ranked
  <2>4. PICK n \in Nat : \A x \in Windows : rank[x] <= n
    BY <2>3
  <2> DEFINE next == [rank EXCEPT ![Dangling] = 0]
  <2>5. /\ next \in [Windows -> Nat] /\ next[Dangling] = 0
        /\ \A x \in Windows : x # Dangling => next[x] = rank[x]
        /\ \A x \in Windows : rank[x] \in Nat
        /\ \A x \in Windows : parent[x] # None => rank[parent[x]] < rank[x]
    BY <2>3 DEF Ranks
  <2> HIDE DEF next
  <2>6. ASSUME NEW x \in Windows, parent'[x] # None PROVE next[parent'[x]] < next[x]
    <3>1. /\ parent[x] # None /\ parent[x] \in Windows /\ x # Dangling
          /\ parent'[x] = Dangling \/ parent'[x] = parent[x]
      BY <2>2, <2>6
    <3>2. /\ rank[parent[x]] < rank[x] /\ next[x] = rank[x]
          /\ rank[parent[x]] \in Nat /\ rank[x] \in Nat
      BY <2>5, <3>1
    <3>3. next[parent'[x]] = 0 \/ next[parent'[x]] = rank[parent[x]]
      BY <2>5, <3>1
    <3> QED BY <3>2, <3>3
  <2>7. Ranked'
    <3>1. Ranks(next, Windows, None, parent')
      BY <2>5, <2>6 DEF Ranks
    <3>2. \A x \in Windows : next[x] <= n
      BY <2>4, <2>5
    <3> QED BY <3>1, <3>2 DEF Ranked
  <2>8. FreeApart' /\ Parents'
    BY <2>2 DEF IInv, FreeApart, Parents
  <2> QED BY <2>7, <2>8
<1>3. CASE TreeChange
  <2>1. CASE ApplyChange
    BY <1>1, <2>1 DEF ApplyChange
  <2> QED BY <1>2, <1>3, <2>1, ForestNew DEF TreeChange
<1> QED BY <1>1, <1>3, TreeFrame DEF vars, tree

-----------------------------------------------------------------------------
(* The requests that wait. *)

LEMMA ChangesStep ==
  ASSUME IInv, [Next]_vars
  PROVE  ChangesParented'
<1>1. CASE UNCHANGED <<changes, live, parent>>
  BY <1>1 DEF IInv, ChangesParented
<1>2. ASSUME NEW w \in Windows, NEW p \in Under[w], NEW r \in Places[w],
             NEW hidden \in BOOLEAN, NEW lowest \in BOOLEAN,
             New(w, p, r, hidden, lowest)
      PROVE  ChangesParented'
  <2>1. /\ changes' = changes /\ live' = live \cup {w} /\ w \notin live
        /\ parent' = [parent EXCEPT ![w] = p]
    BY <1>2 DEF New
  <2>2. QED
    BY <2>1 DEF IInv, TypeOK, ChangesParented
<1>3. ASSUME NEW w \in Windows, Destroy(w)
      PROVE  ChangesParented'
  <2>1. PICK gone \in SUBSET live : Frees(w, gone)
    BY <1>3, DestroyFrees
  <2>1a. PICK n \in 0..Len(changes) : \E f \in [1..n -> DOMAIN changes] :
          /\ Keeps(gone, f)
          /\ changes' = [k \in 1..n |-> changes[f[k]]]
    BY <2>1 DEF Frees
  <2>2. PICK f \in [1..n -> DOMAIN changes] :
          /\ Keeps(gone, f)
          /\ changes' = [k \in 1..n |-> changes[f[k]]]
    BY <2>1a
  <2>3. ASSUME NEW k \in DOMAIN changes'
        PROVE  /\ changes'[k].win \in live' /\ changes'[k].parent \in live'
               /\ parent'[changes'[k].win] = changes'[k].parent
    <3>1. k \in 1..n /\ f[k] \in DOMAIN changes /\ changes'[k] = changes[f[k]]
      BY <2>2
    <3>2. ~Purges(gone, changes[f[k]])
      BY <2>2, <3>1 DEF Keeps
    <3>3. /\ changes[f[k]].win \in live /\ changes[f[k]].parent \in live
          /\ parent[changes[f[k]].win] = changes[f[k]].parent
      BY <3>1 DEF IInv, ChangesParented
    <3>4. live \subseteq Windows
      BY DEF IInv, TypeOK
    <3>5. QED
      BY <2>1, <3>1, <3>2, <3>3, <3>4 DEF Frees, Purges, Freed
  <2>4. QED
    BY <2>3 DEF ChangesParented
<1>4. ASSUME NEW w \in Windows, NEW kind \in Kinds, Restack(kind, w)
      PROVE  ChangesParented'
  <2> DEFINE req == [change |-> kind, parent |-> parent[w], win |-> w]
  <2>1. /\ changes' = Append(changes, req) /\ live' = live /\ parent' = parent
    BY <1>4 DEF Restack, tree
  <2>2. w \in live /\ parent[w] \in live /\ changes \in Seq(Change)
    BY <1>4 DEF Restack, CanCall, Attached, IInv, TypeOK, OneRoot
  <2>3. req.win = w /\ req.parent = parent[w]
    OBVIOUS
  <2> HIDE DEF req
  <2>4. ASSUME NEW i \in DOMAIN changes' PROVE i \in DOMAIN changes \/ changes'[i] = req
    BY <2>1, <2>2
  <2>5. \A i \in DOMAIN changes : changes'[i] = changes[i]
    BY <2>1, <2>2
  <2>6. QED
    BY <2>1, <2>2, <2>3, <2>4, <2>5 DEF IInv, ChangesParented
<1>5. ASSUME ApplyChange PROVE ChangesParented'
  <2>1. /\ changes' = Tail(changes) /\ live' = live /\ parent' = parent
        /\ changes \in Seq(Change) /\ changes # <<>>
    BY <1>5 DEF ApplyChange, IInv, TypeOK
  <2>2. ASSUME NEW i \in DOMAIN changes'
        PROVE  i + 1 \in DOMAIN changes /\ changes'[i] = changes[i + 1]
    BY <2>1
  <2>3. QED
    BY <2>1, <2>2 DEF IInv, ChangesParented
<1>6. CASE Flush
  BY <1>1, <1>5, <1>6 DEF Flush, FlushBegin, StartPaint, NoPaint, BeginPass, SkipChild,
                          EnterChild, Draw, Return, EndPaint, tree
<1>7. CASE Call
  <2>1. CASE \E w \in Windows :
              Show(w) \/ Hide(w) \/ Update(w) \/ TakeFocus(w)
              \/ \E c \in Cursor : SetCursor(w, c)
    BY <1>1, <2>1 DEF Show, Hide, Update, TakeFocus, SetCursor, tree
  <2>2. QED
    BY <1>2, <1>3, <1>4, <1>7, <2>1 DEF Call
<1>8. CASE \E r \in Sizes : Resize(r)
  BY <1>1, <1>8 DEF Resize
<1>9. CASE UNCHANGED vars
  BY <1>1, <1>9 DEF vars, tree
<1>10. QED
  BY <1>6, <1>7, <1>8, <1>9 DEF Next

-----------------------------------------------------------------------------
(* The chain of focused children. *)

LEMMA FocusNew ==
  ASSUME IInv, NEW w \in Windows, NEW p \in Under[w], NEW r \in Places[w],
         NEW hidden \in BOOLEAN, NEW lowest \in BOOLEAN,
         New(w, p, r, hidden, lowest)
  PROVE  FocusPathVisible'
<1>1. /\ w \notin live
      /\ live' = live \cup {w}
      /\ parent' = [parent EXCEPT ![w] = p]
      /\ visible' = [visible EXCEPT ![w] = ~hidden]
      /\ focusedChild' = [focusedChild EXCEPT ![w] = None]
  BY DEF New
<1>2. /\ live \subseteq Windows /\ parent \in [Windows -> Windows \cup {None}]
      /\ visible \in [Windows -> BOOLEAN]
      /\ focusedChild \in [Windows -> Windows \cup {None}] /\ FocusPathVisible
  BY DEF IInv, TypeOK
<1>3. ASSUME NEW q \in live', focusedChild'[q] # None
      PROVE  /\ focusedChild'[q] \in live' /\ visible'[focusedChild'[q]]
             /\ parent'[focusedChild'[q]] = q
  <2>1. q # w /\ q \in live /\ focusedChild'[q] = focusedChild[q]
    BY <1>1, <1>2, <1>3
  <2>2. focusedChild[q] \in live /\ focusedChild[q] # w
    BY <1>1, <1>2, <1>3, <2>1 DEF FocusPathVisible
  <2> QED BY <1>1, <1>2, <1>3, <2>1, <2>2 DEF FocusPathVisible
<1>4. QED
  BY <1>3 DEF FocusPathVisible

LEMMA FocusDestroy ==
  ASSUME IInv, NEW w \in Windows, Destroy(w)
  PROVE  FocusPathVisible'
<1>1. PICK gone \in SUBSET live : Frees(w, gone)
  BY DestroyFrees
<1>2. /\ parent[w] \in live /\ \A x \in gone : x = w \/ parent[x] \in gone
      /\ live' = live \ gone
      /\ parent' = Freed(
           [x \in Windows |-> IF parent[x] \in gone THEN Dangling ELSE parent[x]],
           gone, None)
      /\ visible' = Freed(visible, gone, TRUE)
      /\ focusedChild' = Freed(Unfocus(parent[w], w), gone, None)
  BY <1>1 DEF Frees
<1>3. /\ live \subseteq Windows
      /\ focusedChild \in [Windows -> Windows \cup {None}]
  BY DEF IInv, TypeOK
<1>4. ASSUME NEW q \in live', focusedChild'[q] # None
      PROVE  /\ focusedChild'[q] \in live' /\ visible'[focusedChild'[q]]
             /\ parent'[focusedChild'[q]] = q
  <2> DEFINE x == focusedChild[q]
  <2>1. q \in live /\ q \in Windows /\ q \notin gone
    BY <1>2, <1>3
  <2>2. focusedChild'[q] = x /\ x # None /\ (q = parent[w] => x # w)
    BY <1>2, <1>3, <1>4, <2>1 DEF Freed, Unfocus
  <2>3. x \in live /\ visible[x] /\ parent[x] = q
    BY <2>1, <2>2 DEF IInv, FocusPathVisible
  <2> HIDE DEF x
  <2>4. x \notin gone
    BY <1>2, <2>1, <2>2, <2>3
  <2>5. QED
    BY <1>2, <1>3, <2>2, <2>3, <2>4 DEF Freed
<1>5. QED
  BY <1>4 DEF FocusPathVisible

LEMMA FocusShow ==
  ASSUME IInv, NEW w \in Windows, Show(w)
  PROVE  FocusPathVisible'
<1>1. /\ visible' = [visible EXCEPT ![w] = TRUE]
      /\ live' = live /\ parent' = parent /\ w \in live
      /\ visible \in [Windows -> BOOLEAN] /\ live \subseteq Windows
      /\ focusedChild \in [Windows -> Windows \cup {None}]
  BY DEF Show, CanCall, IInv, TypeOK
<1>2. \A q \in live : focusedChild'[q] # focusedChild[q]
                       => q = parent[w] /\ focusedChild'[q] = w
  BY <1>1 DEF Show
<1>3. QED
  BY <1>1, <1>2 DEF IInv, FocusPathVisible

LEMMA FocusHide ==
  ASSUME IInv, NEW w \in Windows, Hide(w)
  PROVE  FocusPathVisible'
<1>1. /\ visible' = [visible EXCEPT ![w] = FALSE]
      /\ live' = live /\ parent' = parent
      /\ focusedChild' = IF w = Root THEN focusedChild ELSE Unfocus(parent[w], w)
      /\ visible \in [Windows -> BOOLEAN] /\ live \subseteq Windows
      /\ focusedChild \in [Windows -> Windows \cup {None}] /\ parent[Root] = None
  BY DEF Hide, IInv, TypeOK
<1>2. ASSUME NEW q \in live, focusedChild'[q] # None
      PROVE  focusedChild'[q] = focusedChild[q] /\ focusedChild[q] # w
  <2>1. focusedChild[q] = w => q = parent[w] /\ w # Root
    BY <1>1 DEF IInv, FocusPathVisible
  <2>2. QED
    BY <1>1, <1>2, <2>1 DEF Unfocus
<1>3. QED
  BY <1>1, <1>2 DEF IInv, FocusPathVisible

LEMMA FocusTake ==
  ASSUME IInv, NEW w \in Windows, TakeFocus(w)
  PROVE  FocusPathVisible'
<1> DEFINE next(x, a) == a \in live /\ a \in Gains(w) /\ visible[a] /\ parent[a] = x
<1>1. /\ visible' = visible /\ live' = live /\ parent' = parent /\ live \subseteq Windows
      /\ focusedChild' = [x \in Windows |->
           IF x = w THEN None
           ELSE IF \E a \in live : a \in Gains(w) /\ visible[a] /\ parent[a] = x
           THEN CHOOSE a \in live : a \in Gains(w) /\ visible[a] /\ parent[a] = x
           ELSE focusedChild[x]]
  BY DEF TakeFocus, tree, IInv, TypeOK
<1>2. ASSUME NEW q \in live, focusedChild'[q] # None
      PROVE  focusedChild'[q] = focusedChild[q] \/ next(q, focusedChild'[q])
  BY <1>1, <1>2
<1>3. QED
  BY <1>1, <1>2 DEF IInv, FocusPathVisible

LEMMA FocusStep ==
  ASSUME IInv, [Next]_vars
  PROVE  FocusPathVisible'
<1>1. CASE UNCHANGED <<live, parent, visible, focusedChild>>
  BY <1>1 DEF IInv, FocusPathVisible
<1>2. CASE Flush
  BY <1>1, <1>2 DEF Flush, FlushBegin, ApplyChange, StartPaint, NoPaint, BeginPass, SkipChild,
                    EnterChild, Draw, Return, EndPaint, tree, focus
<1>3. CASE Call
  <2>1. CASE \E w \in Windows :
              Update(w) \/ (\E kind \in Kinds : Restack(kind, w))
              \/ \E c \in Cursor : SetCursor(w, c)
    BY <1>1, <2>1 DEF Update, Restack, SetCursor, tree, focus
  <2>2. QED
    BY <1>3, <2>1, FocusNew, FocusDestroy, FocusShow, FocusHide, FocusTake DEF Call
<1>4. CASE \E r \in Sizes : Resize(r)
  BY <1>1, <1>4 DEF Resize, focus
<1>5. CASE UNCHANGED vars
  BY <1>1, <1>5 DEF vars, tree, focus
<1>6. QED
  BY <1>2, <1>3, <1>4, <1>5 DEF Next

-----------------------------------------------------------------------------
(* The flags, and where a handler can be running. *)

LEMMA FrontLast ==
  ASSUME NEW S, NEW s \in Seq(S), s # <<>>
  PROVE  Front(s) \in Seq(S) /\ Len(Front(s)) = Len(s) - 1 /\ Last(s) \in S
<1>1. Len(s) \in Nat /\ Len(s) > 0 /\ \A i \in 1..Len(s) : s[i] \in S
  OBVIOUS
<1> DEFINE n == Len(s) - 1
<1>2. n \in Nat /\ 1 \in Int /\ n \in Int /\ \A i \in 1..n : s[i] \in S
  BY <1>1
<1>3. SubSeq(s, 1, n) \in Seq(S) /\ Len(SubSeq(s, 1, n)) = n
  <2> HIDE DEF n
  <2>1. (IF 1 <= n THEN n - 1 + 1 ELSE 0) = n
    BY <1>2
  <2>2. QED
    BY <1>2, <2>1, SubSeqProperties
<1>4. QED
  BY <1>1, <1>3 DEF Front, Last

LEMMA TopType ==
  ASSUME IInv, stack # <<>>
  PROVE  /\ Front(stack) \in Seq(Frame) /\ Top \in Frame
         /\ Len(Front(stack)) = Len(stack) - 1
BY FrontLast DEF IInv, TypeOK, Top

LEMMA EnterSkip ==
  ASSUME IInv, SkipChild \/ EnterChild
  PROVE  stack' \in Seq(Frame) /\ stack' # <<>>
<1>1. Front(stack) \in Seq(Frame) /\ Top \in Frame
  BY TopType DEF SkipChild, EnterChild
<1>2. \A c \in Windows : Moved(Top, c) \in Frame
  BY <1>1 DEF Moved, Frame
<1>3. \A c \in Windows : Append(Front(stack), Moved(Top, c)) \in Seq(Frame)
  BY <1>1, <1>2
<1>4. CASE SkipChild
  BY <1>1, <1>2, <1>4, AppendProperties DEF SkipChild
<1>5. CASE EnterChild
  <2>1. PICK c \in Windows :
          stack' = Append(Append(Front(stack), Moved(Top, c)),
            [win |-> c, at |-> None,
             area |-> Top.area \cap Cells(c), open |-> Top.open \cap Cells(c)])
    BY <1>5 DEF EnterChild
  <2>2. [win |-> c, at |-> None,
         area |-> Top.area \cap Cells(c), open |-> Top.open \cap Cells(c)] \in Frame
    BY <1>1 DEF Frame
  <2>3. QED
    BY <1>3, <2>1, <2>2, AppendProperties
<1>6. QED
  BY <1>4, <1>5

LEMMA ReturnStack ==
  ASSUME IInv, Return
  PROVE  stack' \in Seq(Frame)
<1>1. stack # <<>> /\ stack \in Seq(Frame)
  BY DEF Return, IInv, Nested, TypeOK
<1>2. CASE Len(stack) = 1
  BY <1>2 DEF Return
<1>3. CASE Len(stack) # 1
  <2> DEFINE below == Front(stack)
  <2>1. below \in Seq(Frame) /\ Len(below) = Len(stack) - 1
    BY <1>1, TopType
  <2>2. below # <<>>
    BY <1>1, <1>3, <2>1
  <2>3. Front(below) \in Seq(Frame) /\ Last(below) \in Frame
    BY <2>1, <2>2, FrontLast
  <2>4. Masked(Last(below)) \in Frame
    BY <2>3 DEF Masked, Frame
  <2>5. stack' = Append(Front(below), Masked(Last(below)))
    BY <1>3 DEF Return
  <2>6. QED
    BY <2>3, <2>4, <2>5, AppendProperties
<1>4. QED
  BY <1>2, <1>3

LEMMA NestedStep ==
  ASSUME IInv, [Next]_vars
  PROVE  Nested'
<1>1. Nested
  BY DEF IInv
<1>2. CASE UNCHANGED flush
  BY <1>1, <1>2 DEF Nested, flush
<1>3. CASE Flush
  <2>1. CASE FlushBegin \/ StartPaint \/ NoPaint \/ BeginPass \/ EndPaint
    <3>1. drawn' = drawn /\ (phase' = "paint" \/ stack' = stack)
      BY <2>1 DEF FlushBegin, StartPaint, NoPaint, BeginPass, EndPaint
    <3>2. CASE FlushBegin \/ StartPaint \/ NoPaint
      BY <1>1, <3>1, <3>2 DEF FlushBegin, StartPaint, NoPaint, Nested
    <3>3. CASE BeginPass
      BY <1>1, <3>3 DEF BeginPass, Nested
    <3>4. CASE EndPaint
      BY <1>1, <3>4 DEF EndPaint, Nested
    <3>5. QED
      BY <2>1, <3>2, <3>3, <3>4
  <2>2. CASE ApplyChange
    BY <1>2, <2>2 DEF ApplyChange
  <2>3. CASE SkipChild \/ EnterChild
    BY <1>1, <2>3, EnterSkip DEF SkipChild, EnterChild, Nested
  <2>4. CASE Draw \/ Return
    BY <1>1, <2>4 DEF Draw, Return, Nested
  <2>5. QED
    BY <1>3, <2>1, <2>2, <2>3, <2>4 DEF Flush
<1>4. CASE Call
  <2>1. PICK w \in Windows :
          \/ \E p \in Under[w], r \in Places[w], hidden, lowest \in BOOLEAN :
               New(w, p, r, hidden, lowest)
          \/ Destroy(w) \/ Show(w) \/ Hide(w) \/ Update(w) \/ TakeFocus(w)
          \/ \E kind \in Kinds : Restack(kind, w)
          \/ \E c \in Cursor : SetCursor(w, c)
    BY <1>4, Zenon DEF Call
  <2>2. CASE Destroy(w)
    BY <1>2, <2>2, Zenon DEF Destroy
  <2>3. CASE \E p \in Under[w], r \in Places[w], hidden, lowest \in BOOLEAN :
               New(w, p, r, hidden, lowest)
    BY <1>2, <2>3 DEF New
  <2>4. CASE Show(w) \/ Hide(w) \/ Update(w) \/ TakeFocus(w)
    BY <1>2, <2>4 DEF Show, Hide, Update, TakeFocus
  <2>5. CASE \E kind \in Kinds : Restack(kind, w)
    BY <1>2, <2>5 DEF Restack
  <2>6. CASE \E c \in Cursor : SetCursor(w, c)
    BY <1>2, <2>6 DEF SetCursor
  <2>7. QED
    BY <2>1, <2>2, <2>3, <2>4, <2>5, <2>6
<1>5. CASE \E r \in Sizes : Resize(r)
  BY <1>2, <1>5 DEF Resize
<1>6. CASE UNCHANGED vars
  BY <1>2, <1>6 DEF vars
<1>7. QED
  BY <1>3, <1>4, <1>5, <1>6 DEF Next

LEMMA RootOnGrid ==
  ASSUME TypeOK
  PROVE  RootCells \subseteq Grid
BY DEF TypeOK, RootCells

(* A call that exposes does nothing else to the flags. *)
LEMMA ExposingCall ==
  ASSUME IInv, NEW x, Exposing(x), Request(x), phase' = phase,
         needsRestore' = needsRestore, changes' = changes \/ changes # <<>>
  PROVE  NothingForgotten'
<1>1. TypeOK /\ NothingForgotten
  BY DEF IInv
<1> QED BY <1>1, Requesting DEF NothingForgotten

LEMMA NothingForgottenStep ==
  ASSUME IInv, [Next]_vars
  PROVE  NothingForgotten'
<1>1. NothingForgotten /\ TypeOK
  BY DEF IInv
<1>2. CASE UNCHANGED <<changes, damages, needs, phase>>
  BY <1>1, <1>2 DEF NothingForgotten, needs, damages
<1>3. CASE Flush
  <2>1. CASE FlushBegin \/ StartPaint \/ NoPaint \/ EndPaint
    BY <1>1, <2>1 DEF FlushBegin, StartPaint, NoPaint, EndPaint, Finish, NothingForgotten, damages
  <2>2. CASE ApplyChange
    <3>1. \E x : Exposing(x) /\ Request(x)
      BY <2>2, ApplyExposes
    <3>2. phase' = phase /\ phase = "changes" /\ needsRestore' = needsRestore
      BY <2>2 DEF ApplyChange, flush
    <3> QED BY <1>1, <3>1, <3>2, Requesting DEF NothingForgotten
  <2>3. CASE BeginPass \/ SkipChild \/ EnterChild \/ Draw \/ Return
    BY <1>2, <2>3 DEF BeginPass, SkipChild, EnterChild, Draw, Return
  <2>4. QED
    BY <1>3, <2>1, <2>2, <2>3 DEF Flush
<1>4. ASSUME NEW w \in Windows, NEW p \in Under[w], NEW r \in Places[w],
             NEW hidden \in BOOLEAN, NEW lowest \in BOOLEAN,
             New(w, p, r, hidden, lowest)
      PROVE  NothingForgotten'
  <2>1. phase' = phase /\ needsRestore' = needsRestore /\ changes' = changes
    BY <1>4 DEF New, flush
  <2> QED BY <1>4, <2>1, NewExposes, ExposingCall
<1>5. ASSUME NEW w \in Windows, Destroy(w) PROVE NothingForgotten'
  <2>1. /\ \E x : Exposing(x) /\ Request(x)
        /\ phase' = phase /\ needsRestore' = needsRestore
        /\ \E n \in 0..Len(changes) : \E f \in [1..n -> DOMAIN changes] :
             changes' = [k \in 1..n |-> changes[f[k]]]
    <3>1. PICK x : Exposing(x) /\ Request(Expose(x, parent[w], AbsRect(w)))
      BY <1>5, DestroyExposes
    <3>2. AbsRect(w) \in RectType /\ parent[w] \in Windows /\ Forest
      BY <1>5, ForestNow, Upward DEF Destroy, CanCall, IInv, OneRoot, TypeOK
    <3>3. Exposing(Expose(x, parent[w], AbsRect(w)))
      BY <3>1, <3>2, ExposeExposes
    <3>4. phase' = phase /\ needsRestore' = needsRestore
      BY <1>5 DEF Destroy, flush
    <3>5. PICK gone \in SUBSET live : Frees(w, gone)
      BY <1>5, DestroyFrees
    <3>6. \E n \in 0..Len(changes) : \E f \in [1..n -> DOMAIN changes] :
            changes' = [k \in 1..n |-> changes[f[k]]]
      BY <3>5 DEF Frees
    <3> QED BY <3>1, <3>3, <3>4, <3>6
  <2>2. CASE changes = <<>>
    <3>1. changes' = <<>>
      BY <2>1, <2>2
    <3>2. QED
      BY <2>1, <2>2, <3>1, ExposingCall
  <2>3. CASE changes # <<>>
    BY <2>1, <2>3, ExposingCall
  <2>4. QED
    BY <2>2, <2>3
<1>6. ASSUME NEW w \in Windows, Show(w) \/ Hide(w) \/ Update(w) PROVE NothingForgotten'
  <2>1. phase' = phase /\ needsRestore' = needsRestore /\ changes' = changes
    BY <1>6 DEF Show, Hide, Update, flush
  <2> QED BY <1>6, <2>1, ShowExposes, ExposingCall
<1>7. ASSUME NEW w \in Windows, TakeFocus(w) \/ \E c \in Cursor : SetCursor(w, c)
      PROVE  NothingForgotten'
  BY <1>1, <1>7 DEF TakeFocus, SetCursor, RequestRestore, RequestLater, NothingForgotten, flush,
                    damages
<1>8. ASSUME NEW w \in Windows, NEW kind \in Kinds, Restack(kind, w) PROVE NothingForgotten'
  BY <1>1, <1>8 DEF Restack, RequestIfFirst, RequestLater, NothingForgotten, flush, damages
<1>9. ASSUME NEW r \in Sizes, Resize(r) PROVE NothingForgotten'
  <2>1. phase' = phase /\ needsRestore' = needsRestore /\ changes' = changes
    BY <1>9 DEF Resize, flush
  <2> QED BY <1>9, <2>1, ResizeExposes, ExposingCall
<1>10. CASE UNCHANGED vars
  BY <1>2, <1>10 DEF vars, flush
<1>11. CASE Call
  BY <1>4, <1>5, <1>6, <1>7, <1>8, <1>11 DEF Call
<1>12. QED
  BY <1>3, <1>9, <1>10, <1>11 DEF Next

-----------------------------------------------------------------------------
(* The types, one group of variables at a time. *)

TreeTyped ==
  /\ live \subseteq Windows /\ Root \in live
  /\ parent \in [Windows -> Windows \cup {None}] /\ parent[Root] = None
  /\ children \in [Windows -> Seq(Windows)]
  /\ visible \in [Windows -> BOOLEAN]
  /\ rect \in [Windows -> RectType] /\ rect[Root] \in Sizes

FocusTyped ==
  /\ focusedChild \in [Windows -> Windows \cup {None}]
  /\ isFocused \in [Windows -> BOOLEAN]
  /\ cursor \in [Windows -> Cursor]

RequestsTyped ==
  /\ changes \in Seq(Change)
  /\ damage \in Seq(RectType) /\ lost \subseteq Int \X Int
  /\ needsExpose \in BOOLEAN /\ needsRestore \in BOOLEAN /\ needsLater \in BOOLEAN

FlushTyped ==
  /\ phase \in {"idle", "changes", "paint"}
  /\ todo \in Seq(RectType)
  /\ stack \in Seq(Frame) /\ drawn \in BOOLEAN
  /\ calls \in 0..MaxCalls

ScreenTyped ==
  /\ rb \in [Grid -> Windows \cup {None, Old}]
  /\ screen \in [Grid -> Windows \cup {Old}]
  /\ termCursor \in Grid \cup {None}

LEMMA Typed == TypeOK <=> TreeTyped /\ FocusTyped /\ RequestsTyped /\ FlushTyped /\ ScreenTyped
BY DEF TypeOK, TreeTyped, FocusTyped, RequestsTyped, FlushTyped, ScreenTyped

LEMMA TypedNow ==
  ASSUME IInv
  PROVE  TypeOK /\ TreeTyped /\ FocusTyped /\ RequestsTyped /\ FlushTyped /\ ScreenTyped
BY Typed DEF IInv

LEMMA TreeTypeNew ==
  ASSUME IInv, NEW w \in Windows, NEW p \in Under[w], NEW r \in Places[w],
         NEW hidden \in BOOLEAN, NEW lowest \in BOOLEAN,
         New(w, p, r, hidden, lowest)
  PROVE  TreeTyped'
<1>1. TreeTyped /\ r \in RectType /\ p \in Windows
  BY TypedNow
<1>2. /\ w \notin live /\ live' = live \cup {w}
      /\ parent' = [parent EXCEPT ![w] = p]
      /\ visible' = [visible EXCEPT ![w] = ~hidden]
      /\ rect' = [rect EXCEPT ![w] = r]
      /\ children' = [children EXCEPT
           ![w] = <<>>,
           ![p] = IF lowest THEN InsertLast(@, w) ELSE InsertFirst(@, w)]
  BY DEF New
<1>3. w # Root
  BY <1>1, <1>2 DEF TreeTyped
<1>4. children' \in [Windows -> Seq(Windows)]
  <2>1. ASSUME NEW s \in Seq(Windows)
        PROVE  InsertLast(s, w) \in Seq(Windows) /\ InsertFirst(s, w) \in Seq(Windows)
    BY DEF InsertLast, InsertFirst
  <2>2. PICK t \in Seq(Windows) :
          children' = [children EXCEPT ![w] = <<>>, ![p] = t]
    <3>1. w # p /\ children[p] \in Seq(Windows)
      BY <1>1, <1>2 DEF TreeTyped, New, CanCall
    <3>2. CASE lowest
      <4>1. children' = [children EXCEPT ![w] = <<>>, ![p] = InsertLast(children[p], w)]
        BY <1>2, <3>1, <3>2
      <4>2. QED
        BY <2>1, <3>1, <4>1
    <3>3. CASE ~lowest
      <4>1. children' = [children EXCEPT ![w] = <<>>, ![p] = InsertFirst(children[p], w)]
        BY <1>2, <3>1, <3>3
      <4>2. QED
        BY <2>1, <3>1, <4>1
    <3>4. QED
      BY <3>2, <3>3
  <2>3. <<>> \in Seq(Windows)
    OBVIOUS
  <2>4. QED
    BY <1>1, <2>2, <2>3 DEF TreeTyped
<1>5. parent' \in [Windows -> Windows \cup {None}] /\ parent'[Root] = None
  BY <1>1, <1>2, <1>3 DEF TreeTyped
<1>6. visible' \in [Windows -> BOOLEAN]
  BY <1>1, <1>2 DEF TreeTyped
<1>7. rect' \in [Windows -> RectType] /\ rect'[Root] \in Sizes
  BY <1>1, <1>2, <1>3 DEF TreeTyped
<1>8. live' \subseteq Windows /\ Root \in live'
  BY <1>1, <1>2 DEF TreeTyped
<1>9. QED
  BY <1>4, <1>5, <1>6, <1>7, <1>8 DEF TreeTyped

LEMMA TreeTypeDestroy ==
  ASSUME IInv, NEW w \in Windows, Destroy(w)
  PROVE  TreeTyped'
<1>1. TreeTyped /\ Root \in live'
  BY TypedNow, TreeDestroy
<1>2. PICK gone \in SUBSET live : Frees(w, gone)
  BY DestroyFrees
<1>3. rect' = Freed(rect, gone, rect[Root])
  BY <1>2 DEF Frees
<1>4. rect' \in [Windows -> RectType] /\ rect'[Root] \in Sizes
  BY <1>1, <1>3 DEF Freed, TreeTyped
<1>5. Root \notin gone /\ live' \subseteq Windows
  BY <1>1, <1>2 DEF Frees, TreeTyped
<1>6. parent' \in [Windows -> Windows \cup {None}] /\ parent'[Root] = None
  BY <1>1, <1>2, <1>5 DEF Frees, Freed, TreeTyped
<1>7. visible' \in [Windows -> BOOLEAN]
  BY <1>1, <1>2 DEF Frees, Freed, TreeTyped
<1>8. children' \in [Windows -> Seq(Windows)]
  <2>1. /\ w \in Kids(parent[w]) /\ parent[w] \in live
        /\ Lists(children[parent[w]], Kids(parent[w]))
    BY <1>2 DEF Frees, Kids, IInv, ChildrenListed
  <2>1a. Lists(Without(children[parent[w]], w), Kids(parent[w]) \ {w})
    BY <2>1, ListsWithout
  <2>2. Without(children[parent[w]], w) \in Seq(Windows) /\ <<>> \in Seq(Windows)
    BY <2>1a DEF Lists
  <2>3. children' = Freed([children EXCEPT ![parent[w]] = Without(@, w)], gone, <<>>)
    BY <1>2 DEF Frees
  <2>4. \A x \in Windows :
          children'[x] \in {<<>>, Without(children[parent[w]], w), children[x]}
    BY <1>1, <2>3 DEF Freed, TreeTyped
  <2>5. children' = [x \in Windows |-> children'[x]]
    BY <2>3 DEF Freed
  <2>6. \A x \in Windows : children'[x] \in Seq(Windows)
    <3>1. \A x \in Windows : children[x] \in Seq(Windows)
      BY <1>1 DEF TreeTyped
    <3>2. QED
      BY <2>2, <2>4, <3>1, Zenon
  <2>7. QED
    BY <2>5, <2>6
<1>9. QED
  BY <1>1, <1>4, <1>5, <1>6, <1>7, <1>8 DEF TreeTyped

LEMMA TreeTypeApply ==
  ASSUME IInv, ApplyChange
  PROVE  TreeTyped'
<1> DEFINE req == Head(changes)
<1>1. TreeTyped /\ RequestsTyped /\ changes # <<>>
  BY TypedNow DEF ApplyChange
<1>2. /\ children' = [children EXCEPT ![req.parent] = Restacked(req.change, @, req.win)]
      /\ UNCHANGED <<live, parent, visible, rect>>
  BY DEF ApplyChange
<1>3. req \in Change /\ 1 \in DOMAIN changes /\ req = changes[1]
  BY <1>1 DEF RequestsTyped
<1>4. req.win \in live /\ req.parent \in live /\ parent[req.win] = req.parent
  BY <1>3 DEF IInv, ChangesParented
<1>5. req.change \in Kinds /\ req.win \in Windows /\ req.parent \in Windows
  BY <1>3 DEF Change
<1> HIDE DEF req
<1>6. /\ Lists(children[req.parent], Kids(req.parent))
      /\ req.win \in Kids(req.parent) /\ Kids(req.parent) \subseteq Windows
  BY <1>1, <1>4 DEF IInv, ChildrenListed, Kids, TreeTyped
<1>7. Restacked(req.change, children[req.parent], req.win) \in Seq(Windows)
  <2>1. Lists(Restacked(req.change, children[req.parent], req.win), Kids(req.parent))
    BY <1>5, <1>6, ListsRestacked
  <2> QED BY <2>1 DEF Lists
<1>8. children' \in [Windows -> Seq(Windows)]
  BY <1>1, <1>2, <1>7 DEF TreeTyped
<1>9. QED
  BY <1>1, <1>2, <1>8 DEF TreeTyped

LEMMA TreeTypeStep ==
  ASSUME IInv, [Next]_vars
  PROVE  TreeTyped'
<1>1. TreeTyped
  BY TypedNow
<1>2. CASE UNCHANGED tree
  BY <1>1, <1>2 DEF tree, TreeTyped
<1>3. CASE TreeChange
  BY <1>3, TreeTypeNew, TreeTypeDestroy, TreeTypeApply DEF TreeChange
<1>4. ASSUME NEW w \in Windows, Show(w) \/ Hide(w) PROVE TreeTyped'
  <2>1. visible' \in [Windows -> BOOLEAN] /\ UNCHANGED <<live, parent, children, rect>>
    BY <1>1, <1>4 DEF Show, Hide, TreeTyped
  <2>2. QED
    BY <1>1, <2>1 DEF TreeTyped
<1>5. ASSUME NEW r \in Sizes, Resize(r) PROVE TreeTyped'
  <2>1. rect' = [rect EXCEPT ![Root] = r] /\ UNCHANGED <<live, parent, children, visible>>
    BY <1>5 DEF Resize
  <2>2. r \in RectType /\ Root \in Windows
    OBVIOUS
  <2>3. QED
    BY <1>1, <2>1, <2>2 DEF TreeTyped
<1>6. CASE Flush
  BY <1>2, <1>3, <1>6 DEF TreeChange, Flush, FlushBegin, StartPaint, NoPaint, BeginPass,
                          SkipChild, EnterChild, Draw, Return, EndPaint
<1>7. ASSUME NEW w \in Windows,
             Update(w) \/ TakeFocus(w) \/ (\E kind \in Kinds : Restack(kind, w))
             \/ \E c \in Cursor : SetCursor(w, c)
      PROVE  TreeTyped'
  BY <1>2, <1>7 DEF Update, TakeFocus, Restack, SetCursor
<1>8. CASE Call
  BY <1>3, <1>4, <1>7, <1>8 DEF Call, TreeChange
<1>9. CASE UNCHANGED vars
  BY <1>2, <1>9 DEF vars
<1>10. QED
  BY <1>5, <1>6, <1>8, <1>9 DEF Next

LEMMA CursorInitially == [at |-> <<0, 0>>, visible |-> TRUE] \in Cursor
BY DEF Cursor

LEMMA FocusTypeStep ==
  ASSUME IInv, [Next]_vars
  PROVE  FocusTyped'
<1>1. FocusTyped /\ TreeTyped
  BY TypedNow
<1>2. CASE UNCHANGED focus
  BY <1>1, <1>2 DEF focus, FocusTyped
<1>3. ASSUME NEW w \in Windows, NEW p \in Under[w], NEW r \in Places[w],
             NEW hidden \in BOOLEAN, NEW lowest \in BOOLEAN,
             New(w, p, r, hidden, lowest)
      PROVE  FocusTyped'
  BY <1>1, <1>3, CursorInitially DEF New, FocusTyped
<1>4. ASSUME NEW w \in Windows, Destroy(w) PROVE FocusTyped'
  <2>1. \E gone \in SUBSET live :
          /\ focusedChild' = Freed(Unfocus(parent[w], w), gone, None)
          /\ isFocused' = Freed(isFocused, gone, FALSE)
          /\ cursor' = Freed(cursor, gone, [at |-> <<0, 0>>, visible |-> TRUE])
    <3>1. PICK gone \in SUBSET live : Frees(w, gone)
      BY <1>4, DestroyFrees
    <3> QED BY <3>1 DEF Frees
  <2>2. Unfocus(parent[w], w) \in [Windows -> Windows \cup {None}]
    BY <1>1 DEF FocusTyped, Unfocus
  <2>3. focusedChild' \in [Windows -> Windows \cup {None}]
    BY <2>1, <2>2 DEF Freed
  <2>4. isFocused' \in [Windows -> BOOLEAN]
    BY <1>1, <2>1 DEF Freed, FocusTyped
  <2>5. cursor' \in [Windows -> Cursor]
    BY <1>1, <2>1, CursorInitially DEF Freed, FocusTyped
  <2>6. QED
    BY <2>3, <2>4, <2>5 DEF FocusTyped
<1>5. ASSUME NEW w \in Windows, Show(w) \/ Hide(w) PROVE FocusTyped'
  <2>1. isFocused' = isFocused /\ cursor' = cursor
    BY <1>5 DEF Show, Hide
  <2>2. focusedChild' \in [Windows -> Windows \cup {None}]
    BY <1>1, <1>5 DEF Show, Hide, Unfocus, FocusTyped
  <2>3. QED
    BY <1>1, <2>1, <2>2 DEF FocusTyped
<1>6. ASSUME NEW w \in Windows, TakeFocus(w) PROVE FocusTyped'
  <2>1. live \subseteq Windows
    BY <1>1 DEF TreeTyped
  <2> DEFINE up(x, a) == a \in Gains(w) /\ visible[a] /\ parent[a] = x
             next(x) == IF x = w THEN None
                        ELSE IF \E a \in live : up(x, a)
                        THEN CHOOSE a \in live : up(x, a)
                        ELSE focusedChild[x]
  <2>2. ASSUME NEW x \in Windows PROVE next(x) \in Windows \cup {None}
    <3>1. focusedChild[x] \in Windows \cup {None}
      BY <1>1 DEF FocusTyped
    <3>2. (\E a \in live : up(x, a)) => (CHOOSE a \in live : up(x, a)) \in live
      OBVIOUS
    <3>3. QED
      BY <2>1, <3>1, <3>2
  <2>3. focusedChild' = [x \in Windows |-> next(x)]
    BY <1>6 DEF TakeFocus
  <2>4. isFocused' = [x \in Windows |-> x = w \/ (isFocused[x] /\ x \notin Losers(w))]
        /\ cursor' = cursor
    BY <1>6 DEF TakeFocus
  <2> HIDE DEF next
  <2>5. focusedChild' \in [Windows -> Windows \cup {None}]
    BY <2>2, <2>3
  <2>6. isFocused' \in [Windows -> BOOLEAN]
    BY <2>4
  <2>7. QED
    BY <1>1, <2>4, <2>5, <2>6 DEF FocusTyped
<1>7. ASSUME NEW w \in Windows, NEW c \in Cursor, SetCursor(w, c) PROVE FocusTyped'
  BY <1>1, <1>7 DEF SetCursor, FocusTyped
<1>8. ASSUME NEW w \in Windows, Update(w) \/ \E kind \in Kinds : Restack(kind, w)
      PROVE  FocusTyped'
  BY <1>2, <1>8 DEF Update, Restack
<1>9. CASE Flush
  BY <1>2, <1>9 DEF Flush, FlushBegin, ApplyChange, StartPaint, NoPaint, BeginPass,
                    SkipChild, EnterChild, Draw, Return, EndPaint
<1>10. CASE Call
  BY <1>3, <1>4, <1>5, <1>6, <1>7, <1>8, <1>10 DEF Call
<1>11. CASE \E r \in Sizes : Resize(r)
  BY <1>2, <1>11 DEF Resize
<1>12. CASE UNCHANGED vars
  BY <1>2, <1>12 DEF vars
<1>13. QED
  BY <1>9, <1>10, <1>11, <1>12 DEF Next

LEMMA RequestsTypeStep ==
  ASSUME IInv, [Next]_vars
  PROVE  RequestsTyped'
<1>1. RequestsTyped /\ FlushTyped /\ TreeTyped /\ TypeOK
  BY TypedNow
<1>2. CASE UNCHANGED <<changes, damages, needs>>
  BY <1>1, <1>2 DEF needs, damages, RequestsTyped
<1>3. ASSUME NEW x, Exposing(x), Request(x),
             changes' \in Seq(Change), needsRestore' = needsRestore
      PROVE  RequestsTyped'
  BY <1>1, <1>3, Requesting DEF RequestsTyped
<1>4. CASE Flush
  <2>1. CASE FlushBegin \/ StartPaint \/ NoPaint \/ EndPaint
    <3>1. /\ changes' = changes /\ lost' = lost /\ damage' \in {damage, <<>>}
          /\ needsExpose' \in {needsExpose, FALSE} /\ needsRestore' \in {needsRestore, FALSE}
          /\ needsLater' \in {needsLater, FALSE}
      BY <2>1 DEF FlushBegin, StartPaint, NoPaint, EndPaint, Finish, damages
    <3>2. <<>> \in Seq(RectType)
      OBVIOUS
    <3> QED BY <1>1, <3>1, <3>2 DEF RequestsTyped
  <2>2. CASE ApplyChange
    <3>1. changes' = Tail(changes) /\ changes # <<>> /\ changes \in Seq(Change)
      BY <1>1, <2>2 DEF ApplyChange, RequestsTyped
    <3>2. changes' \in Seq(Change)
      BY <3>1
    <3>3. (\E x : Exposing(x) /\ Request(x)) /\ needsRestore' = needsRestore
      BY <2>2, ApplyExposes DEF ApplyChange
    <3>4. QED
      BY <1>3, <3>2, <3>3
  <2>3. CASE BeginPass \/ SkipChild \/ EnterChild \/ Draw \/ Return
    BY <1>2, <2>3 DEF BeginPass, SkipChild, EnterChild, Draw, Return
  <2>4. QED
    BY <1>4, <2>1, <2>2, <2>3 DEF Flush
<1>5. ASSUME NEW w \in Windows, NEW p \in Under[w], NEW r \in Places[w],
             NEW hidden \in BOOLEAN, NEW lowest \in BOOLEAN,
             New(w, p, r, hidden, lowest)
      PROVE  RequestsTyped'
  <2>1. changes' \in Seq(Change) /\ needsRestore' = needsRestore
    BY <1>1, <1>5 DEF New, RequestsTyped
  <2> QED BY <1>3, <1>5, <2>1, NewExposes
<1>6. ASSUME NEW w \in Windows, Destroy(w) PROVE RequestsTyped'
  <2>0. PICK gone \in SUBSET live : Frees(w, gone)
    BY <1>6, DestroyFrees
  <2>1. /\ needsRestore' = needsRestore
        /\ \E n \in 0..Len(changes) : \E f \in [1..n -> DOMAIN changes] :
             changes' = [k \in 1..n |-> changes[f[k]]]
    <3>1. needsRestore' = needsRestore
      BY <1>6 DEF Destroy
    <3> QED BY <2>0, <3>1 DEF Frees
  <2>2. PICK n \in 0..Len(changes) : \E f \in [1..n -> DOMAIN changes] :
             changes' = [k \in 1..n |-> changes[f[k]]]
    BY <2>1
  <2>3. PICK f \in [1..n -> DOMAIN changes] : changes' = [k \in 1..n |-> changes[f[k]]]
    BY <2>2
  <2>4. changes \in Seq(Change) /\ n \in Nat
    BY <1>1 DEF RequestsTyped
  <2>5. \A k \in 1..n : changes[f[k]] \in Change
    BY <2>4
  <2>6. changes' \in Seq(Change)
    BY <2>3, <2>4, <2>5
  <2>7. \E x : Exposing(x) /\ Request(x)
    <3>1. PICK x : Exposing(x) /\ Request(Expose(x, parent[w], AbsRect(w)))
      BY <1>6, DestroyExposes
    <3>2. AbsRect(w) \in RectType /\ parent[w] \in Windows /\ Forest
      BY <1>6, ForestNow, Upward DEF Destroy, CanCall, IInv, OneRoot, TypeOK
    <3> QED BY <3>1, <3>2, ExposeExposes
  <2>8. QED
    BY <1>3, <2>1, <2>6, <2>7
<1>7. ASSUME NEW w \in Windows, Show(w) \/ Hide(w) \/ Update(w) PROVE RequestsTyped'
  <2>1. changes' \in Seq(Change) /\ needsRestore' = needsRestore
    BY <1>1, <1>7 DEF Show, Hide, Update, RequestsTyped
  <2> QED BY <1>3, <1>7, <2>1, ShowExposes
<1>8. ASSUME NEW w \in Windows, TakeFocus(w) \/ \E c \in Cursor : SetCursor(w, c)
      PROVE  RequestsTyped'
  BY <1>1, <1>8 DEF TakeFocus, SetCursor, RequestRestore, RequestLater, RequestsTyped, damages
<1>9. ASSUME NEW w \in Windows, NEW kind \in Kinds, Restack(kind, w) PROVE RequestsTyped'
  <2>1. parent[w] \in Windows
    BY <1>1, <1>9 DEF Restack, CanCall, Attached, TreeTyped, IInv, OneRoot
  <2>2. [change |-> kind, parent |-> parent[w], win |-> w] \in Change
    BY <2>1 DEF Change
  <2>3. changes' \in Seq(Change)
    BY <1>1, <1>9, <2>2 DEF Restack, RequestsTyped
  <2>4. QED
    BY <1>1, <1>9, <2>3 DEF Restack, RequestIfFirst, RequestLater, RequestsTyped, damages
<1>10. ASSUME NEW r \in Sizes, Resize(r) PROVE RequestsTyped'
  <2>1. changes' \in Seq(Change) /\ needsRestore' = needsRestore
    BY <1>1, <1>10 DEF Resize, RequestsTyped
  <2> QED BY <1>3, <1>10, <2>1, ResizeExposes
<1>11. CASE Call
  BY <1>5, <1>6, <1>7, <1>8, <1>9, <1>11 DEF Call
<1>12. CASE UNCHANGED vars
  BY <1>2, <1>12 DEF vars
<1>13. QED
  BY <1>4, <1>10, <1>11, <1>12 DEF Next

(* A handler runs in the paint phase only, so it spends its own budget.    *)
LEMMA Calling ==
  ASSUME IInv, NEW w, CanCall(w)
  PROVE  calls' \in 0..MaxCalls
<1>1. calls \in 0..MaxCalls /\ (drawn => phase = "paint")
  BY TypedNow DEF FlushTyped, IInv, Nested
<1>2. QED
  BY <1>1 DEF CanCall

LEMMA FlushTypeStep ==
  ASSUME IInv, [Next]_vars
  PROVE  FlushTyped'
<1>1. FlushTyped /\ RequestsTyped /\ TypeOK
  BY TypedNow
<1>2. CASE UNCHANGED <<phase, todo, stack, drawn, calls>>
  BY <1>1, <1>2 DEF FlushTyped
<1>3. ASSUME UNCHANGED flush, calls' \in 0..MaxCalls PROVE FlushTyped'
  BY <1>1, <1>3 DEF flush, FlushTyped
<1>4. CASE Flush
  <2>1. CASE FlushBegin \/ StartPaint \/ NoPaint \/ EndPaint
    BY <1>1, <2>1 DEF FlushBegin, StartPaint, NoPaint, EndPaint, FlushTyped, RequestsTyped
  <2>2. CASE ApplyChange
    BY <1>2, <2>2 DEF ApplyChange, flush
  <2>3. CASE BeginPass
    <3> DEFINE part  == CellsIn(Head(todo))
               frame == [win |-> Root, at |-> None, area |-> part,
                         open |-> part \cap RootCells]
    <3>1. stack' = <<frame>> /\ todo' = Tail(todo) /\ todo \in Seq(RectType) /\ todo # <<>>
      BY <1>1, <2>3 DEF BeginPass, FlushTyped
    <3>2. Head(todo) \in RectType /\ Tail(todo) \in Seq(RectType)
      BY <3>1
    <3>3. part \in SUBSET (Int \X Int) /\ part \cap RootCells \in SUBSET Grid
      BY <1>1, <3>2, RectFields, RootOnGrid DEF CellsIn
    <3> HIDE DEF part
    <3>4. frame \in Frame
      BY <3>3 DEF Frame
    <3>5. stack' \in Seq(Frame) /\ todo' \in Seq(RectType)
      BY <3>1, <3>2, <3>4
    <3>6. QED
      BY <1>1, <2>3, <3>5 DEF BeginPass, FlushTyped
  <2>4. CASE SkipChild \/ EnterChild
    BY <1>1, <2>4, EnterSkip DEF SkipChild, EnterChild, FlushTyped
  <2>5. CASE Draw
    BY <1>1, <2>5 DEF Draw, FlushTyped
  <2>6. CASE Return
    <3>1. stack' \in Seq(Frame) /\ UNCHANGED <<phase, todo>> /\ drawn' = FALSE /\ calls' = 0
      BY <2>6, ReturnStack DEF Return
    <3>2. 0 \in 0..MaxCalls
      OBVIOUS
    <3>3. QED
      BY <1>1, <3>1, <3>2 DEF FlushTyped
  <2>7. QED
    BY <1>4, <2>1, <2>2, <2>3, <2>4, <2>5, <2>6 DEF Flush
<1>5. CASE Call
  <2>1. PICK w \in Windows :
          \/ \E p \in Under[w], r \in Places[w], hidden, lowest \in BOOLEAN :
               New(w, p, r, hidden, lowest)
          \/ Destroy(w) \/ Show(w) \/ Hide(w) \/ Update(w) \/ TakeFocus(w)
          \/ \E kind \in Kinds : Restack(kind, w)
          \/ \E c \in Cursor : SetCursor(w, c)
    BY <1>5, Zenon DEF Call
  <2>2. CASE Destroy(w)
    <3>1. UNCHANGED flush /\ CanCall(w)
      BY <2>2, Zenon DEF Destroy
    <3>2. QED
      BY <1>3, <3>1, Calling
  <2>3. CASE \E p \in Under[w], r \in Places[w], hidden, lowest \in BOOLEAN :
               New(w, p, r, hidden, lowest)
    BY <1>3, <2>3, Calling DEF New
  <2>4. CASE Show(w) \/ Hide(w) \/ Update(w) \/ TakeFocus(w)
    BY <1>3, <2>4, Calling DEF Show, Hide, Update, TakeFocus
  <2>5. CASE \E kind \in Kinds : Restack(kind, w)
    BY <1>3, <2>5, Calling DEF Restack
  <2>6. CASE \E c \in Cursor : SetCursor(w, c)
    BY <1>3, <2>6, Calling DEF SetCursor
  <2>7. QED
    BY <2>1, <2>2, <2>3, <2>4, <2>5, <2>6
<1>6. CASE \E r \in Sizes : Resize(r)
  BY <1>2, <1>6 DEF Resize, flush
<1>7. CASE UNCHANGED vars
  BY <1>2, <1>7 DEF vars, flush
<1>8. QED
  BY <1>4, <1>5, <1>6, <1>7 DEF Next

(* The cursor is restored to a cell of the terminal only. *)
LEMMA Restoring ==
  ASSUME IInv, Restore
  PROVE  termCursor' \in Grid \cup {None}
<1>1. PICK w \in Windows, prev \in Windows \cup {None} :
        termCursor' = RestoredCursor(w, prev)
  BY DEF Restore
<1>2. RestoredCursor(w, prev) \in RootCells \cup {None}
  BY DEF RestoredCursor, CellVisible
<1>3. QED
  BY <1>1, <1>2, RootOnGrid, TypedNow

LEMMA ScreenTypeStep ==
  ASSUME IInv, [Next]_vars
  PROVE  ScreenTyped'
<1>1. ScreenTyped /\ FlushTyped /\ TypeOK
  BY TypedNow
<1>2. CASE UNCHANGED <<rb, screen, termCursor>>
  BY <1>1, <1>2 DEF ScreenTyped
<1>3. ASSUME NoPaint PROVE ScreenTyped'
  <2>1. UNCHANGED <<rb, screen>> /\ termCursor' \in Grid \cup {None}
    BY <1>1, <1>3, Restoring DEF NoPaint, ScreenTyped
  <2>2. QED
    BY <1>1, <2>1 DEF ScreenTyped
<1>4. ASSUME EndPaint PROVE ScreenTyped'
  <2>1. /\ screen' = [c \in Grid |-> IF rb[c] = None THEN screen[c] ELSE rb[c]]
        /\ rb' = [c \in Grid |-> None]
        /\ termCursor' \in Grid \cup {None}
    BY <1>4, Restoring DEF EndPaint, Sent
  <2>2. QED
    BY <1>1, <2>1 DEF ScreenTyped
<1>5. ASSUME Draw PROVE ScreenTyped'
  <2>1. Top.win \in Windows
    BY <1>5, TopType DEF Draw, Frame
  <2>2. /\ rb' = [c \in Grid |-> IF c \in Top.open THEN Top.win ELSE rb[c]]
        /\ UNCHANGED <<screen, termCursor>>
    BY <1>5 DEF Draw, term
  <2>3. QED
    BY <1>1, <2>1, <2>2 DEF ScreenTyped
<1>6. ASSUME StartPaint PROVE ScreenTyped'
  BY <1>1, <1>6 DEF StartPaint, term, ScreenTyped
<1>7. ASSUME NEW w \in Windows, Update(w) PROVE ScreenTyped'
  <2>1. rb' \in [Grid -> Windows \cup {None, Old}]
    BY <1>1, <1>7 DEF Update, Outdate, ScreenTyped
  <2>2. screen' \in [Grid -> Windows \cup {Old}]
    BY <1>1, <1>7 DEF Update, Outdate, ScreenTyped
  <2>3. QED
    BY <1>1, <1>7, <2>1, <2>2 DEF Update, ScreenTyped
<1>8. ASSUME NEW r \in Sizes, Resize(r) PROVE ScreenTyped'
  <2>1. screen' \in [Grid -> Windows \cup {Old}]
    BY <1>1, <1>8 DEF Resize, ScreenTyped
  <2>2. QED
    BY <1>1, <1>8, <2>1 DEF Resize, ScreenTyped
<1>9. CASE Flush
  BY <1>2, <1>3, <1>4, <1>5, <1>6, <1>9
     DEF Flush, FlushBegin, ApplyChange, BeginPass, SkipChild, EnterChild, Return, term
<1>10. CASE Call
  <2>1. PICK w \in Windows :
          \/ \E p \in Under[w], r \in Places[w], hidden, lowest \in BOOLEAN :
               New(w, p, r, hidden, lowest)
          \/ Destroy(w) \/ Show(w) \/ Hide(w) \/ Update(w) \/ TakeFocus(w)
          \/ \E kind \in Kinds : Restack(kind, w)
          \/ \E c \in Cursor : SetCursor(w, c)
    BY <1>10, Zenon DEF Call
  <2>2. CASE Destroy(w)
    BY <1>2, <2>2, Zenon DEF Destroy, term
  <2>3. CASE \E p \in Under[w], r \in Places[w], hidden, lowest \in BOOLEAN :
               New(w, p, r, hidden, lowest)
    BY <1>2, <2>3 DEF New, term
  <2>4. CASE Show(w) \/ Hide(w) \/ Update(w) \/ TakeFocus(w)
    BY <1>2, <1>7, <2>4 DEF Show, Hide, TakeFocus, term
  <2>5. CASE \E kind \in Kinds : Restack(kind, w)
    BY <1>2, <2>5 DEF Restack, term
  <2>6. CASE \E c \in Cursor : SetCursor(w, c)
    BY <1>2, <2>6 DEF SetCursor, term
  <2>7. QED
    BY <2>1, <2>2, <2>3, <2>4, <2>5, <2>6
<1>11. CASE UNCHANGED vars
  BY <1>2, <1>11 DEF vars, term
<1>12. QED
  BY <1>8, <1>9, <1>10, <1>11 DEF Next

-----------------------------------------------------------------------------
(* The theorems. *)

LEMMA InitIInv == Init => IInv
<1> SUFFICES ASSUME Init PROVE IInv
  OBVIOUS
<1>1. TypeOK
  <2>1. PICK r \in Sizes : rect = [w \in Windows |-> r]
    BY DEF Init
  <2>2. TreeTyped
    BY <2>1 DEF Init, TreeTyped
  <2>3. FocusTyped
    BY CursorInitially DEF Init, FocusTyped
  <2>5. RequestsTyped
    <3>1. <<>> \in Seq(Change) /\ <<rect[Root]>> \in Seq(RectType)
      BY <2>1
    <3>2. QED
      BY <3>1 DEF Init, RequestsTyped
  <2>6. FlushTyped
    <3>1. <<>> \in Seq(Frame) /\ <<>> \in Seq(RectType) /\ 0 \in 0..MaxCalls
      OBVIOUS
    <3>2. QED
      BY <3>1 DEF Init, FlushTyped
  <2>7. ScreenTyped
    BY DEF Init, ScreenTyped
  <2>8. QED
    BY <2>2, <2>3, <2>5, <2>6, <2>7, Typed
<1>2. ChildrenListed /\ OneRoot
  <2>1. Kids(Root) = {} /\ children[Root] = <<>> /\ live = {Root}
    BY DEF Init, Kids
  <2>2. QED
    BY <2>1, ListsNone DEF ChildrenListed, OneRoot
<1>3. ChangesParented /\ Nested /\ FocusPathVisible /\ NothingForgotten
  BY DEF Init, ChangesParented, Nested, FocusPathVisible, NothingForgotten
<1>4. Ranked
  <2>1. Ranks([x \in Windows |-> 0], Windows, None, parent)
    BY DEF Init, Ranks
  <2>2. \A x \in Windows : [y \in Windows |-> 0][x] <= 0
    OBVIOUS
  <2>3. 0 \in Nat
    OBVIOUS
  <2> QED BY <2>1, <2>2, <2>3 DEF Ranked
<1>5. FreeApart /\ Parents
  BY DEF Init, FreeApart, Parents
<1>6. QED
  BY <1>1, <1>2, <1>3, <1>4, <1>5 DEF IInv

LEMMA NextIInv == IInv /\ [Next]_vars => IInv'
<1> SUFFICES ASSUME IInv, [Next]_vars PROVE IInv'
  OBVIOUS
<1>1. TypeOK'
  BY Typed, TreeTypeStep, FocusTypeStep, RequestsTypeStep, FlushTypeStep, ScreenTypeStep
     DEF TypeOK, TreeTyped, FocusTyped, RequestsTyped, FlushTyped, ScreenTyped
<1>2. QED
  BY <1>1, TreeStep, ForestStep, ChangesStep, NestedStep, FocusStep, NothingForgottenStep
     DEF IInv

LEMMA IInvariant == Spec => []IInv
BY InitIInv, NextIInv, PTL DEF Spec

(* The variables keep their types: whatever the handlers of a flush do,    *)
(* destroy and restacking leave well-formed lists of children, a request   *)
(* stays a request about windows of the tree, damage is rectangles whatever *)
(* tickit_rectset_add makes of it, and the cursor is put on the terminal   *)
(* (window.c:97-770).                                                      *)
THEOREM TypeCorrect == Spec => []TypeOK
<1>1. IInv => TypeOK
  BY DEF IInv
<1>2. QED
  BY <1>1, IInvariant, PTL

(* No request waits with needs_later_processing clear, and no damage with  *)
(* needs_expose clear, for any tree, geometry and number of requests       *)
(* (window.c:396-429, 488-497, 560-615, 732-755).                          *)
THEOREM NeverForgotten == Spec => []NothingForgotten
<1>1. IInv => NothingForgotten
  BY DEF IInv
<1>2. QED
  BY <1>1, IInvariant, PTL

(* The children of a window are the live windows created in it, each once, *)
(* after any sequence of insertions, restacking requests and destructions  *)
(* (window.c:198-262, 617-755).                                            *)
THEOREM ChildrenCorrect == Spec => []ChildrenExact
<1>1. IInv => ChildrenExact
  <2> SUFFICES ASSUME IInv, NEW p \in live
               PROVE  /\ {children[p][i] : i \in DOMAIN children[p]} = {w \in live : parent[w] = p}
                      /\ \A i, j \in DOMAIN children[p] :
                           children[p][i] = children[p][j] => i = j
    BY DEF ChildrenExact
  <2>1. Lists(children[p], Kids(p))
    BY DEF IInv, ChildrenListed
  <2>2. QED
    BY <2>1 DEF Lists, Distinct, Kids
<1>2. QED
  BY <1>1, IInvariant, PTL

(* The chain of focused children leads through live, visible windows only, *)
(* each the child of the one before (window.c:236-307, 986-1033).          *)
THEOREM FocusPathCorrect == Spec => []FocusPathVisible
<1>1. IInv => FocusPathVisible
  BY DEF IInv
<1>2. QED
  BY <1>1, IInvariant, PTL

(* A request is only ever applied to a live window and the live parent it  *)
(* was made for: destroy purges the others (window.c:236-262, 732-770).    *)
THEOREM RequestsCorrect == Spec => []ChangesParented
<1>1. IInv => ChangesParented
  BY DEF IInv
<1>2. QED
  BY <1>1, IInvariant, PTL

-----------------------------------------------------------------------------
(* Window x is allocated, shows, holds cell c and is not behind a sibling  *)
(* there; and so are the windows above it.                                 *)
Clear(x, c) ==
  /\ x \in live /\ visible[x] /\ c \in Cells(x)
  /\ parent[x] # None => ~Covered(parent[x], x, c)

Reached(x, c) == \A a \in Lineage(x) : Clear(a, c)

(* What a viewer sees on cell c is window x. *)
OnView(x, c) == x \in Windows /\ Reached(x, c) /\ ~Covered(x, None, c)

LEMMA ReachedUp ==
  ASSUME Forest, NEW x \in Windows, NEW c
  PROVE  Reached(x, c) <=> Clear(x, c) /\ (parent[x] # None => Reached(parent[x], c))
<1>1. Lineage(x) = {x} \cup (IF parent[x] = None THEN {} ELSE Lineage(parent[x]))
  BY Upward
<1> QED BY ONLY <1>1 DEF Reached

ReachedWhen == Forest => \A x \in Windows : \A c :
  Reached(x, c) <=> Clear(x, c) /\ (parent[x] # None => Reached(parent[x], c))

LEMMA ReachedWhenAlways == ReachedWhen
BY ReachedUp DEF ReachedWhen

LEMMA ReachedNext == ReachedWhen'
BY ReachedWhenAlways, PTL

LEMMA ViewShows ==
  ASSUME NEW x, NEW c, OnView(x, c)
  PROVE  x # Old /\ Shown(x, c)
BY DEF OnView, Reached, Clear, Shown

LEMMA ClearNow ==
  ASSUME Forest, NEW x \in Windows, NEW c, Reached(x, c)
  PROVE  /\ x \in Lineage(x) /\ Clear(x, c)
         /\ \A a \in Lineage(x) : a \in Windows /\ Reached(a, c)
<1> DEFINE in == {y \in Windows : Reached(y, c) => \A a \in Lineage(y) : Reached(a, c)}
<1>1. ASSUME NEW y \in Windows, parent[y] # None => parent[y] \in in PROVE y \in in
  <2>1. Lineage(y) = {y} \cup (IF parent[y] = None THEN {} ELSE Lineage(parent[y]))
    BY Upward
  <2>2. Reached(y, c) <=> Clear(y, c) /\ (parent[y] # None => Reached(parent[y], c))
    BY ReachedUp
  <2> QED BY <1>1, <2>1, <2>2
<1>2. \A y \in Windows : y \in in
  <2> HIDE DEF in
  <2> QED BY <1>1, Downward
<1>3. x \in Lineage(x) /\ Lineage(x) \subseteq Windows
  <2>1. /\ Lineage(x) = {x} \cup (IF parent[x] = None THEN {} ELSE Lineage(parent[x]))
        /\ Lineage(x) \subseteq Windows
    BY Upward
  <2> QED BY ONLY <2>1
<1>4. Clear(x, c)
  BY <1>3 DEF Reached
<1> QED BY <1>2, <1>3, <1>4

-----------------------------------------------------------------------------
(* What the calls leave to be painted: the cells exposed that no window    *)
(* from p up cuts off are owed afterwards, and a repaint is asked for.     *)

OwesAt(p, cells) ==
  /\ Owed \subseteq Owed' /\ (needsExpose => needsExpose')
  /\ \A c \in cells : Unclipped(p, c) => c \in Owed' /\ needsExpose'

LEMMA DamageAsked ==
  ASSUME IInv, CellsOf(damage) # {}
  PROVE  needsExpose
<1>1. damage # <<>>
  BY DEF CellsOf
<1> QED BY <1>1 DEF IInv, NothingForgotten

LEMMA ExposureOwes ==
  ASSUME IInv, NEW x, Exposing(x), NEW p \in Windows, NEW r \in RectType,
         Request(Expose(x, p, r))
  PROVE  OwesAt(p, CellsIn(r))
<1> DEFINE y == Expose(x, p, r)
<1>1. Forest /\ TypeOK
  BY ForestNow DEF IInv
<1>2. /\ Exposing(y)
      /\ \A c \in CellsIn(r) : Unclipped(p, c) =>
           c \in Due(y) /\ (y.asks \/ CellsOf(damage) # {})
  BY <1>1, ExposeExposes
<1> HIDE DEF y
<1>3. Request(y)
  BY DEF y
<1>4. /\ Owed' = Due(y) /\ Owed \subseteq Owed'
      /\ (needsExpose => needsExpose') /\ (y.asks => needsExpose')
  BY <1>1, <1>2, <1>3, Requesting
<1> QED BY <1>2, <1>4, DamageAsked DEF OwesAt

LEMMA NewOwes ==
  ASSUME IInv, NEW w \in Windows, NEW p \in Under[w], NEW r \in Places[w],
         NEW hidden \in BOOLEAN, NEW lowest \in BOOLEAN,
         New(w, p, r, hidden, lowest)
  PROVE  OwesAt(p, CellsIn(Translate(r, AbsRect(p).top, AbsRect(p).left)))
<1> DEFINE news == Translate(r, AbsRect(p).top, AbsRect(p).left)
<1>1. news \in RectType
  BY NewExposes
<1>2. Request(Expose(Now, p, news)) /\ p \in Windows
  BY DEF New
<1>3. Exposing(Now)
  BY NowExposes DEF IInv
<1> HIDE DEF news
<1>4. OwesAt(p, CellsIn(news))
  BY <1>1, <1>2, <1>3, ExposureOwes
<1> QED BY <1>4 DEF news

LEMMA ShowOwes ==
  ASSUME IInv, NEW w \in Windows, w # Root, Show(w) \/ Hide(w)
  PROVE  OwesAt(parent[w], Cells(w))
<1>1. parent[w] \in Windows /\ AbsRect(w) \in RectType /\ Exposing(Now)
  <2>1. w \in live
    BY DEF Show, Hide, CanCall
  <2>2. parent[w] \in Windows
    BY <2>1 DEF IInv, OneRoot, TypeOK
  <2>3. AbsRect(w) \in RectType
    BY ForestNow, Upward
  <2>4. Exposing(Now)
    BY NowExposes DEF IInv
  <2> QED BY ONLY <2>2, <2>3, <2>4
<1>2. Request(Expose(Now, parent[w], AbsRect(w)))
  BY Zenon DEF Show, Hide
<1> QED BY <1>1, <1>2, ExposureOwes DEF Cells

LEMMA ShowRootOwes ==
  ASSUME IInv, Show(Root)
  PROVE  RootCells \subseteq Owed' /\ (RootCells # {} => needsExpose')
<1> DEFINE y == Damaged[Now][rect[Root]]
<1>1. TypeOK /\ rect[Root] \in RectType /\ Exposing(Now)
  BY NowExposes DEF IInv, TypeOK
<1>2. /\ Exposing(y) /\ CellsIn(rect[Root]) \subseteq Due(y)
      /\ CellsIn(rect[Root]) # {} => y.asks \/ CellsOf(damage) # {}
  BY <1>1, DamagedExposes
<1>3. Request(y)
  BY Zenon DEF Show
<1> HIDE DEF y
<1>4. /\ Owed' = Due(y) /\ (needsExpose => needsExpose') /\ (y.asks => needsExpose')
  BY <1>1, <1>2, <1>3, Requesting
<1> QED BY <1>2, <1>4, DamageAsked DEF RootCells

LEMMA UpdateOwes ==
  ASSUME IInv, NEW w \in Windows, Update(w)
  PROVE  OwesAt(w, Cells(w))
<1>1. AbsRect(w) \in RectType /\ Exposing(Now)
  BY ForestNow, Upward, NowExposes DEF IInv
<1>2. Request(Expose(Now, w, AbsRect(w)))
  BY Zenon DEF Update
<1> QED BY <1>1, <1>2, ExposureOwes DEF Cells

LEMMA DestroyOwes ==
  ASSUME IInv, NEW w \in Windows, Destroy(w)
  PROVE  OwesAt(parent[w], Cells(w))
<1>1. PICK x : Exposing(x) /\ Request(Expose(x, parent[w], AbsRect(w)))
  BY DestroyExposes
<1>2. parent[w] \in Windows /\ AbsRect(w) \in RectType
  BY ForestNow, Upward DEF Destroy, CanCall, IInv, OneRoot, TypeOK
<1> QED BY <1>1, <1>2, ExposureOwes DEF Cells

LEMMA ApplyOwes ==
  ASSUME IInv, ApplyChange
  PROVE  OwesAt(Head(changes).parent, Cells(Head(changes).win))
<1> DEFINE req == Head(changes)
<1>1. req \in Change
  <2>1. changes \in Seq(Change) /\ changes # <<>>
    BY DEF ApplyChange, IInv, TypeOK
  <2> QED BY <2>1
<1>2. Request(Expose(Now, req.parent, AbsRect(req.win)))
  BY DEF ApplyChange
<1> HIDE DEF req
<1>3. req.win \in Windows /\ req.parent \in Windows /\ Forest /\ Exposing(Now)
  BY <1>1, ForestNow, NowExposes DEF Change, IInv
<1>4. AbsRect(req.win) \in RectType
  BY <1>3, Upward
<1>5. OwesAt(req.parent, Cells(req.win))
  BY <1>2, <1>3, <1>4, ExposureOwes DEF Cells
<1> QED BY <1>5 DEF req

LEMMA ResizeOwes ==
  ASSUME IInv, NEW r \in Sizes, Resize(r)
  PROVE  /\ Owed \subseteq Owed' /\ (needsExpose => needsExpose')
         /\ visible[Root] => \A c \in CellsIn(r) \ RootCells : c \in Owed' /\ needsExpose'
<1>1. PICK x : /\ Exposing(x) /\ Request(x)
               /\ visible[Root] => \A c \in CellsIn(r) \ RootCells :
                    c \in Due(x) /\ (x.asks \/ CellsOf(damage) # {})
  BY ResizeExposes
<1>2. TypeOK
  BY DEF IInv
<1>3. /\ Owed' = Due(x) /\ Owed \subseteq Owed'
      /\ (needsExpose => needsExpose') /\ (x.asks => needsExpose')
  BY <1>1, <1>2, Requesting
<1> QED BY <1>1, <1>3, DamageAsked

(* What is exposed of a window that is reached is owed afterwards.         *)
LEMMA ReachedUnclipped ==
  ASSUME NEW p, NEW c, Reached(p, c)
  PROVE  Unclipped(p, c)
BY DEF Reached, Clear, Unclipped

-----------------------------------------------------------------------------
(* Which windows of a list are in front of which.                          *)

(* y is in the list s, and u is not there up to it. *)
Ahead(s, u, y) == \E i \in DOMAIN s : s[i] = y /\ \A j \in 1..i : s[j] # u

(* Apart from w, nothing gets in front of anything from s to t. *)
SameOrder(s, t, w) ==
  \A u, y : u # w /\ y # w /\ Ahead(t, u, y) => Ahead(s, u, y)

LEMMA CoveredAhead ==
  ASSUME NEW a, NEW u, NEW c
  PROVE  Covered(a, u, c) <=>
           \E y : Ahead(children[a], u, y) /\ visible[y] /\ c \in Cells(y)
BY DEF Covered, Ahead

LEMMA OrderFirst ==
  ASSUME NEW s \in Seq(Windows), NEW w \in Windows
  PROVE  SameOrder(s, InsertFirst(s, w), w)
<1> DEFINE t == InsertFirst(s, w)
<1>1. /\ Len(s) \in Nat /\ DOMAIN s = 1..Len(s)
      /\ DOMAIN t = 1..Len(s) + 1 /\ t[1] = w
      /\ \A i \in 1..Len(s) : t[i + 1] = s[i]
  BY DEF InsertFirst
<1> SUFFICES ASSUME NEW u, NEW y, u # w, y # w, Ahead(t, u, y) PROVE Ahead(s, u, y)
  BY DEF SameOrder
<1> HIDE DEF t
<1>2. PICK i \in DOMAIN t : t[i] = y /\ \A j \in 1..i : t[j] # u
  BY DEF Ahead
<1>3. i # 1 /\ i - 1 \in 1..Len(s) /\ s[i - 1] = y
  BY <1>1, <1>2
<1>4. \A j \in 1..i - 1 : j \in 1..Len(s) /\ j + 1 \in 1..i /\ s[j] = t[j + 1]
  BY <1>1, <1>2, <1>3
<1> QED BY <1>1, <1>2, <1>3, <1>4 DEF Ahead

LEMMA OrderLast ==
  ASSUME NEW s \in Seq(Windows), NEW w \in Windows
  PROVE  SameOrder(s, InsertLast(s, w), w)
<1> DEFINE t == InsertLast(s, w)
<1>1. /\ Len(s) \in Nat /\ DOMAIN s = 1..Len(s)
      /\ DOMAIN t = 1..Len(s) + 1 /\ t[Len(s) + 1] = w
      /\ \A i \in 1..Len(s) : t[i] = s[i]
  BY DEF InsertLast
<1> SUFFICES ASSUME NEW u, NEW y, u # w, y # w, Ahead(t, u, y) PROVE Ahead(s, u, y)
  BY DEF SameOrder
<1> HIDE DEF t
<1>2. PICK i \in DOMAIN t : t[i] = y /\ \A j \in 1..i : t[j] # u
  BY DEF Ahead
<1>3. i \in 1..Len(s) /\ \A j \in 1..i : j \in 1..Len(s)
  BY <1>1, <1>2
<1> QED BY <1>1, <1>2, <1>3 DEF Ahead

LEMMA OrderWithout ==
  ASSUME NEW s, NEW X, Lists(s, X), NEW w \in X
  PROVE  SameOrder(s, Without(s, w), w)
<1> DEFINE n == Index(s, w)
           t == Without(s, w)
           from(i) == IF i < n THEN i ELSE i + 1
<1>1. /\ Len(s) \in Nat /\ DOMAIN s = 1..Len(s) /\ DOMAIN t = 1..Len(s) - 1
      /\ \A i \in 1..Len(s) - 1 : t[i] = s[from(i)]
  <2>1. s \in Seq(Windows)
    BY DEF Lists
  <2>2. Len(s) \in Nat /\ DOMAIN s = 1..Len(s)
    BY <2>1
  <2>3. /\ DOMAIN t = 1..Len(s) - 1
        /\ \A i \in 1..Len(s) - 1 :
             t[i] = s[IF i < Index(s, w) THEN i ELSE i + 1]
    BY WithoutAt, Zenon
  <2> QED BY <2>2, <2>3
<1>2. n \in 1..Len(s) /\ s[n] = w
  BY IndexOf
<1> SUFFICES ASSUME NEW u, NEW y, u # w, y # w, Ahead(t, u, y) PROVE Ahead(s, u, y)
  BY DEF SameOrder
<1> HIDE DEF t, n
<1>3. PICK i \in DOMAIN t : t[i] = y /\ \A j \in 1..i : t[j] # u
  BY DEF Ahead
<1>4. from(i) \in DOMAIN s /\ s[from(i)] = y
  BY <1>1, <1>2, <1>3
<1>5. ASSUME NEW j \in 1..from(i) PROVE s[j] # u
  <2>1. CASE j = n
    BY <1>2, <2>1
  <2>2. CASE j < n
    BY <1>1, <1>2, <1>3, <2>2
  <2>3. CASE j > n
    <3>1. j - 1 \in 1..i /\ j - 1 \in 1..Len(s) - 1 /\ from(j - 1) = j
      BY <1>1, <1>2, <1>3, <2>3
    <3> QED BY <1>1, <1>3, <3>1
  <2> QED BY <1>1, <1>2, <2>1, <2>2, <2>3
<1> QED BY <1>4, <1>5 DEF Ahead

(* Two neighbours are swapped, one of which is w. *)
LEMMA OrderSwap ==
  ASSUME NEW s \in Seq(Windows), NEW i \in 1..Len(s), i + 1 \in 1..Len(s), NEW w,
         w = s[i] \/ w = s[i + 1]
  PROVE  SameOrder(s, Swap(s, i, i + 1), w)
<1> DEFINE t == [s EXCEPT ![i] = s[i + 1], ![i + 1] = s[i]]
<1>1. /\ Len(s) \in Nat /\ DOMAIN s = 1..Len(s) /\ DOMAIN t = 1..Len(s)
      /\ t[i] = s[i + 1] /\ t[i + 1] = s[i]
      /\ \A k \in 1..Len(s) : k # i /\ k # i + 1 => t[k] = s[k]
  OBVIOUS
<1>2. Swap(s, i, i + 1) = t
  BY DEF Swap
<1> HIDE DEF t
<1> SUFFICES ASSUME NEW u, NEW y, u # w, y # w, Ahead(t, u, y) PROVE Ahead(s, u, y)
  BY <1>2 DEF SameOrder
<1>3. PICK k \in DOMAIN t : t[k] = y /\ \A j \in 1..k : t[j] # u
  BY DEF Ahead
<1>4. CASE k # i /\ k # i + 1
  <2>1. ASSUME NEW j \in 1..k PROVE s[j] # u
    <3>1. j \in 1..Len(s)
      BY <1>1
    <3>2. k > i => k > i + 1
      BY <1>1, <1>4
    <3> QED BY <1>1, <1>3, <1>4, <3>1, <3>2
  <2> QED BY <1>1, <1>3, <1>4, <2>1 DEF Ahead
<1>5. CASE k = i
  <2>1. s[i] = w /\ s[i + 1] = y
    BY <1>1, <1>3, <1>5
  <2>2. ASSUME NEW j \in 1..i + 1 PROVE s[j] # u
    <3>1. CASE j = i
      BY <2>1, <3>1
    <3>2. CASE j = i + 1
      BY <1>3, <1>5, <2>1, <3>2
    <3>3. CASE j # i /\ j # i + 1
      <4>1. j \in 1..k /\ j \in 1..Len(s)
        BY <1>1, <1>5, <3>3
      <4> QED BY <1>1, <1>3, <3>3, <4>1
    <3> QED BY <3>1, <3>2, <3>3
  <2> QED BY <1>1, <2>1, <2>2 DEF Ahead
<1>6. CASE k = i + 1
  <2>1. s[i] = y
    BY <1>1, <1>3, <1>6
  <2>2. ASSUME NEW j \in 1..i PROVE s[j] # u
    BY <1>1, <1>3, <1>6
  <2> QED BY <1>1, <2>1, <2>2 DEF Ahead
<1> QED BY <1>4, <1>5, <1>6

(* Each way of restacking w leaves the others as they were. *)
LEMMA OrderRestacked ==
  ASSUME NEW kind \in Kinds, NEW s, NEW X, X \subseteq Windows, Lists(s, X), NEW w \in X
  PROVE  SameOrder(s, Restacked(kind, s, w), w)
<1>1. s \in Seq(Windows) /\ Index(s, w) \in 1..Len(s) /\ s[Index(s, w)] = w /\ w \in Windows
  BY IndexOf DEF Lists
<1>2. Without(s, w) \in Seq(Windows) /\ SameOrder(s, Without(s, w), w)
  BY ListsWithout, OrderWithout DEF Lists
<1>3. SameOrder(s, s, w)
  BY DEF SameOrder
<1>4. CASE kind = "raise"
  <2>1. SameOrder(s, Raised(s, w), w)
    <3> DEFINE n == Index(s, w)
    <3>1. n # 1 => n - 1 \in 1..Len(s) /\ (n - 1) + 1 = n
      BY <1>1
    <3>2. n # 1 => SameOrder(s, Swap(s, n - 1, (n - 1) + 1), w)
      BY <1>1, <3>1, OrderSwap
    <3>3. n # 1 => SameOrder(s, Swap(s, n - 1, n), w)
      BY <3>1, <3>2
    <3> QED BY <1>3, <3>3 DEF Raised
  <2> QED BY <1>4, <2>1 DEF Restacked
<1>5. CASE kind = "lower"
  <2>1. SameOrder(s, Lowered(s, w), w)
    <3> DEFINE n == Index(s, w)
    <3>1. n # Len(s) => n + 1 \in 1..Len(s)
      BY <1>1
    <3>2. n # Len(s) => SameOrder(s, Swap(s, n, n + 1), w)
      BY <1>1, <3>1, OrderSwap
    <3> QED BY <1>3, <3>2 DEF Lowered
  <2> QED BY <1>5, <2>1 DEF Restacked
<1>6. CASE kind = "raise_front"
  <2>1. SameOrder(Without(s, w), InsertFirst(Without(s, w), w), w)
    BY <1>1, <1>2, OrderFirst
  <2>2. SameOrder(s, InsertFirst(Without(s, w), w), w)
    BY <1>2, <2>1 DEF SameOrder
  <2> QED BY <1>6, <2>2 DEF Restacked
<1>7. CASE kind = "lower_back"
  <2>1. SameOrder(Without(s, w), InsertLast(Without(s, w), w), w)
    BY <1>1, <1>2, OrderLast
  <2>2. SameOrder(s, InsertLast(Without(s, w), w), w)
    BY <1>2, <2>1 DEF SameOrder
  <2> QED BY <1>7, <2>2 DEF Restacked
<1> QED BY <1>4, <1>5, <1>6, <1>7 DEF Kinds

-----------------------------------------------------------------------------
(* A step keeps what is seen on cell c: the windows reached there stay     *)
(* where they are and reached, and none of their children gets in front of *)
(* another that matters.                                                   *)

OnStack(u) == \E i \in DOMAIN stack : stack[i].win = u

Matters(u, c) == u = None \/ (u \in Windows /\ Reached(u, c)) \/ OnStack(u)

KeepsAt(c) ==
  \A a \in Windows : Reached(a, c) =>
    /\ a \in live' /\ parent'[a] = parent[a] /\ visible'[a] /\ c \in Cells(a)'
    /\ \A u : Matters(u, c) /\ ~Covered(a, u, c) => ~Covered(a, u, c)'

LEMMA KeepsReached ==
  ASSUME Forest, Forest', NEW c, KeepsAt(c)
  PROVE  \A x \in Windows :
           /\ Reached(x, c) => Reached(x, c)'
           /\ OnView(x, c) => OnView(x, c)'
<1> DEFINE in == {x \in Windows : Reached(x, c) => Reached(x, c)'}
<1>1. ASSUME NEW x \in Windows, parent[x] # None => parent[x] \in in PROVE x \in in
  <2> SUFFICES ASSUME Reached(x, c) PROVE Reached(x, c)'
    OBVIOUS
  <2>1. Clear(x, c) /\ (parent[x] # None => Reached(parent[x], c))
    BY ReachedUp
  <2>2. /\ x \in live' /\ parent'[x] = parent[x] /\ visible'[x] /\ c \in Cells(x)'
    BY DEF KeepsAt
  <2> DEFINE p == parent[x]
  <2>3. ASSUME p # None
        PROVE  /\ \A q : q = p => ~Covered(q, x, c)'
               /\ \A q : q = p => Reached(q, c)'
    <3>1. p \in Windows /\ Reached(p, c) /\ ~Covered(p, x, c) /\ p \in in
      BY <1>1, <2>1, <2>3 DEF Forest, Clear
    <3>2. ASSUME NEW q, q = p PROVE ~Covered(q, x, c)' /\ Reached(q, c)'
      BY <3>1, <3>2 DEF KeepsAt, Matters
    <3> QED BY <3>2
  <2>4. Clear(x, c)'
    BY <2>2, <2>3 DEF Clear
  <2>5. (parent[x] # None => Reached(parent[x], c))'
    BY <2>2, <2>3
  <2>6. (Reached(x, c) <=> Clear(x, c) /\ (parent[x] # None => Reached(parent[x], c)))'
    <3> HIDE DEF in, p
    <3> QED BY ReachedNext DEF ReachedWhen
  <2> QED BY ONLY <2>4, <2>5, <2>6
<1>2. \A x \in Windows : x \in in
  <2> HIDE DEF in
  <2> QED BY <1>1, Downward
<1>3. ASSUME NEW x \in Windows, OnView(x, c) PROVE OnView(x, c)'
  <2>1. Reached(x, c)' /\ ~Covered(x, None, c)'
    BY <1>2, <1>3 DEF OnView, KeepsAt, Matters
  <2> QED BY <2>1 DEF OnView
<1> QED BY <1>2, <1>3

(* Windows that keep their rectangles and links, all the way up, stay      *)
(* where they are.                                                         *)
LEMMA Unmoved ==
  ASSUME Forest, Forest', NEW K \in SUBSET Windows,
         \A x \in K : /\ parent'[x] = parent[x] /\ rect'[x] = rect[x]
                      /\ parent[x] # None => parent[x] \in K
  PROVE  \A x \in K : /\ Lineage(x)' = Lineage(x) /\ AbsRect(x)' = AbsRect(x)
                      /\ Cells(x)' = Cells(x)
<1> DEFINE in == {x \in Windows : x \in K =>
                    Lineage(x)' = Lineage(x) /\ AbsRect(x)' = AbsRect(x)}
<1>1. ASSUME NEW x \in Windows, parent[x] # None => parent[x] \in in PROVE x \in in
  <2> SUFFICES ASSUME x \in K PROVE Lineage(x)' = Lineage(x) /\ AbsRect(x)' = AbsRect(x)
    OBVIOUS
  <2> DEFINE p == parent[x]
  <2>1. parent'[x] = p /\ rect'[x] = rect[x]
    OBVIOUS
  <2>2. ASSUME p # None
        PROVE  Lineage(p)' = Lineage(p) /\ AbsRect(p)' = AbsRect(p)
    <3>1. p \in K /\ p \in in
      BY <1>1, <2>2
    <3>2. ASSUME NEW q \in in, q \in K PROVE Lineage(q)' = Lineage(q) /\ AbsRect(q)' = AbsRect(q)
      BY <3>2
    <3>3. \A q \in in : q \in K => Lineage(q)' = Lineage(q) /\ AbsRect(q)' = AbsRect(q)
      BY <3>2
    <3>4. PICK q : q = p
      OBVIOUS
    <3>5. Lineage(q)' = Lineage(q) /\ AbsRect(q)' = AbsRect(q)
      BY <3>1, <3>3, <3>4
    <3>6. p' = p
      BY <2>1
    <3> QED BY <3>4, <3>5, <3>6
  <2>3. /\ Lineage(x) = {x} \cup (IF p = None THEN {} ELSE Lineage(p))
        /\ AbsRect(x) = IF p = None THEN rect[x]
                        ELSE Translate(rect[x], AbsRect(p).top, AbsRect(p).left)
    BY Upward
  <2>4. (/\ Lineage(x) = {x} \cup (IF p = None THEN {} ELSE Lineage(p))
         /\ AbsRect(x) = IF p = None THEN rect[x]
                         ELSE Translate(rect[x], AbsRect(p).top, AbsRect(p).left))'
    <3> HIDE DEF in
    <3> QED BY UpwardNext DEF UpwardWhen
  <2> QED BY ONLY <2>1, <2>2, <2>3, <2>4
<1>2. \A x \in Windows : x \in in
  <2> HIDE DEF in
  <2> QED BY <1>1, Downward
<1> QED BY <1>2 DEF Cells

-----------------------------------------------------------------------------
(* The invariant.  No repaint of a settled cell is asked for: then what it *)
(* shows, or what is painted for it, is on view.                           *)

Settled(c) == c \in RootCells /\ visible[Root] /\ c \notin Owed

Painted(c) == IF rb[c] = None THEN OnView(screen[c], c) ELSE OnView(rb[c], c)

(* The calls of _do_expose under way lead down the tree from the root.     *)
Shape ==
  /\ \A i \in DOMAIN stack : stack[i].win \in live /\ stack[i].open \subseteq stack[i].area
  /\ stack # <<>> => stack[1].win = Root
  /\ \A i \in 1..Len(stack) - 1 :
       parent[stack[i + 1].win] = stack[i].win /\ stack[i].at = stack[i + 1].win
  /\ stack # <<>> /\ ~drawn =>
       Top.at = None \/ (Top.at \in live /\ parent[Top.at] = Top.win)

Unpainted(c) == phase # "paint" => OnView(screen[c], c)

Repainted(c) ==
  phase = "paint" => \/ c \in CellsOf(todo) \/ Painted(c)
                     \/ stack # <<>> /\ c \in stack[1].open

(* The window of a call under way is reached on the cells that are open,   *)
(* those no child it has passed covers; a child it has returned from has   *)
(* painted what it closed.                                                 *)
OpenReached(c) == \A k \in DOMAIN stack : c \in stack[k].open => Reached(stack[k].win, c)

Passed(c) ==
  \A k \in 1..Len(stack) - 1 : c \in stack[k].open =>
    /\ ~Covered(stack[k].win, stack[k].at, c)
    /\ c \in stack[k + 1].open \/ c \notin Cells(stack[k + 1].win) \/ Painted(c)

Standing(c) ==
  stack # <<>> /\ ~drawn /\ c \in Top.open /\ Top.at # None =>
    ~Covered(Top.win, Top.at, c) /\ ~(visible[Top.at] /\ c \in Cells(Top.at))

Filled(c) == drawn /\ c \in Top.open => rb[c] = Top.win /\ Painted(c)

CellRight(c) ==
  Unpainted(c) /\ Repainted(c) /\ OpenReached(c) /\ Passed(c) /\ Standing(c) /\ Filled(c)

ScreenInv ==
  /\ Shape
  /\ \A c \in Grid : Settled(c) => CellRight(c)

-----------------------------------------------------------------------------
(* What a call of the application does to the cells it does not damage.    *)

(* The windows of the calls under way stay, and stay where they are. *)
StackStays ==
  \A u : OnStack(u) => u \in live' /\ parent'[u] = parent[u] /\ Cells(u)' = Cells(u)

(* A cell stays uncovered when only w gets in front of anything, and w is  *)
(* not on that cell.                                                       *)
LEMMA StaysUncovered ==
  ASSUME NEW a, NEW X, Lists(children[a], X), NEW w, NEW u, NEW c,
         \A y : y # w /\ Ahead(children'[a], u, y) => Ahead(children[a], u, y),
         \A y \in X : y # w /\ visible'[y] /\ c \in Cells(y)' => visible[y] /\ c \in Cells(y),
         ~(Ahead(children'[a], u, w) /\ visible'[w] /\ c \in Cells(w)'),
         ~Covered(a, u, c)
  PROVE  ~Covered(a, u, c)'
<1> SUFFICES ASSUME Covered(a, u, c)' PROVE FALSE
  OBVIOUS
<1>1. PICK y : Ahead(children'[a], u, y) /\ visible'[y] /\ c \in Cells(y)'
  BY DEF Covered, Ahead
<1>2. y # w /\ Ahead(children[a], u, y)
  BY <1>1
<1>3. y \in X
  BY <1>2 DEF Ahead, Lists
<1>4. visible[y] /\ c \in Cells(y)
  BY <1>1, <1>2, <1>3
<1> QED BY <1>2, <1>4, CoveredAhead

(* A new window moves no other, and is where it was asked to be. *)
LEMMA NewStands ==
  ASSUME IInv, TypeOK', NEW w \in Windows, NEW p \in Under[w],
         NEW r \in Places[w], NEW hidden \in BOOLEAN, NEW lowest \in BOOLEAN,
         New(w, p, r, hidden, lowest)
  PROVE  /\ Forest /\ Forest'
         /\ \A x \in Windows : parent[x] # w
         /\ \A x \in Windows \ {w} : Lineage(x)' = Lineage(x) /\ Cells(x)' = Cells(x)
         /\ Cells(w)' = CellsIn(Translate(r, AbsRect(p).top, AbsRect(p).left))
<1> DEFINE K == Windows \ {w}
           news == CellsIn(Translate(r, AbsRect(p).top, AbsRect(p).left))
<1>1. /\ p \in live /\ p \in Windows /\ p # w
      /\ parent' = [parent EXCEPT ![w] = p]
      /\ rect' = [rect EXCEPT ![w] = r]
  BY DEF New, CanCall, IInv, TypeOK
<1>2. /\ parent \in [Windows -> Windows \cup {None}] /\ live \subseteq Windows
      /\ rect \in [Windows -> RectType]
  BY DEF IInv, TypeOK
<1>3. Ranked' /\ \A x \in Windows : parent[x] # w
  BY ForestNew
<1>4. Forest /\ Forest'
  BY <1>3, ForestNow DEF Forest, TypeOK
<1>5. \A x \in K : /\ Lineage(x)' = Lineage(x) /\ AbsRect(x)' = AbsRect(x)
                   /\ Cells(x)' = Cells(x)
  <2>1. \A x \in K : /\ parent'[x] = parent[x] /\ rect'[x] = rect[x]
                     /\ parent[x] # None => parent[x] \in K
    BY <1>1, <1>2, <1>3
  <2>2. K \in SUBSET Windows
    OBVIOUS
  <2> HIDE DEF K
  <2> QED BY <1>4, <2>1, <2>2, Unmoved
<1>6. Cells(w)' = news
  <2>1. AbsRect(w)' = (IF parent[w] = None THEN rect[w]
                      ELSE Translate(rect[w], AbsRect(parent[w]).top, AbsRect(parent[w]).left))'
    BY <1>4, UpwardNext DEF UpwardWhen
  <2>2. parent'[w] = p /\ rect'[w] = r /\ p # None
    BY <1>1, <1>2
  <2>3. AbsRect(p)' = AbsRect(p)
    BY <1>1, <1>5
  <2>4. AbsRect(w)' = Translate(r, AbsRect(p).top, AbsRect(p).left)
    BY <2>1, <2>2, <2>3
  <2> QED BY <2>4 DEF Cells
<1> QED BY <1>3, <1>4, <1>5, <1>6

LEMMA KeepsNew ==
  ASSUME IInv, TypeOK', Shape, NEW w \in Windows, NEW p \in Under[w],
         NEW r \in Places[w], NEW hidden \in BOOLEAN, NEW lowest \in BOOLEAN,
         New(w, p, r, hidden, lowest)
  PROVE  /\ StackStays
         /\ \A c \in Grid : Settled(c)' => Settled(c) /\ KeepsAt(c)
<1> DEFINE K == Windows \ {w}
           news == CellsIn(Translate(r, AbsRect(p).top, AbsRect(p).left))
<1>1. /\ w \notin live /\ p \in live /\ p \in Windows /\ p # w
      /\ live' = live \cup {w} /\ parent' = [parent EXCEPT ![w] = p]
      /\ visible' = [visible EXCEPT ![w] = ~hidden]
      /\ rect' = [rect EXCEPT ![w] = r]
      /\ children' = [children EXCEPT
           ![w] = <<>>,
           ![p] = IF lowest THEN InsertLast(@, w) ELSE InsertFirst(@, w)]
  BY DEF New, CanCall, IInv, TypeOK
<1>2. /\ parent \in [Windows -> Windows \cup {None}] /\ live \subseteq Windows
      /\ visible \in [Windows -> BOOLEAN] /\ rect \in [Windows -> RectType]
      /\ children \in [Windows -> Seq(Windows)]
  BY DEF IInv, TypeOK
<1>3. OwesAt(p, news)
  BY NewOwes
<1>4. /\ Forest /\ Forest'
      /\ \A x \in Windows : parent[x] # w
  BY NewStands
<1>5. \A x \in K : Lineage(x)' = Lineage(x) /\ Cells(x)' = Cells(x)
  BY NewStands
<1>6. Cells(w)' = news
  BY NewStands
<1>7. StackStays
  BY <1>1, <1>2, <1>5 DEF StackStays, OnStack, Shape
<1>8. ASSUME NEW c \in Grid, c \notin Owed' PROVE KeepsAt(c)
  <2> SUFFICES ASSUME NEW a \in Windows, Reached(a, c)
               PROVE  /\ a \in live' /\ parent'[a] = parent[a] /\ visible'[a] /\ c \in Cells(a)'
                      /\ \A u : Matters(u, c) /\ ~Covered(a, u, c) => ~Covered(a, u, c)'
    BY DEF KeepsAt
  <2>1. a \in live /\ visible[a] /\ c \in Cells(a) /\ a # w
    BY <1>1, <1>4, ClearNow DEF Clear
  <2>2. /\ a \in live' /\ parent'[a] = parent[a] /\ visible'[a] /\ c \in Cells(a)'
    BY <1>1, <1>2, <1>5, <2>1
  <2> SUFFICES ASSUME NEW u, Matters(u, c), ~Covered(a, u, c)
               PROVE  ~Covered(a, u, c)'
    BY <2>2
  <2>3. u # w
    BY <1>1, <1>4, ClearNow DEF Matters, OnStack, Shape, Clear
  <2>4. Lists(children[a], Kids(a)) /\ children[a] \in Seq(Windows)
    BY <1>2, <2>1 DEF IInv, ChildrenListed
  <2>5. a # p => children'[a] = children[a]
    BY <1>1, <1>2, <2>1
  <2>6. \A y : y # w /\ Ahead(children'[a], u, y) => Ahead(children[a], u, y)
    <3>1. CASE a = p
      <4>1. children'[a] = InsertLast(children[a], w) \/ children'[a] = InsertFirst(children[a], w)
        BY <1>1, <1>2, <3>1
      <4>2. SameOrder(children[a], children'[a], w)
        BY <2>4, <4>1, OrderFirst, OrderLast
      <4> QED BY <2>3, <4>2 DEF SameOrder
    <3> QED BY <2>5, <3>1
  <2>7. \A y \in Kids(a) : y # w /\ visible'[y] /\ c \in Cells(y)' => visible[y] /\ c \in Cells(y)
    BY <1>1, <1>2, <1>5 DEF Kids
  <2>8. ~(Ahead(children'[a], u, w) /\ visible'[w] /\ c \in Cells(w)')
    <3>1. CASE a = p
      BY <1>3, <1>6, <1>8, <3>1, ReachedUnclipped DEF OwesAt
    <3>2. CASE a # p
      <4>1. ~Ahead(children'[a], u, w)
        BY <1>1, <2>4, <2>5, <3>2 DEF Ahead, Lists, Kids
      <4> QED BY <4>1
    <3> QED BY <3>1, <3>2
  <2> QED BY <2>4, <2>6, <2>7, <2>8, StaysUncovered
<1>9. ASSUME NEW c, Settled(c)' PROVE Settled(c) /\ c \notin Owed'
  <2>1. Root # w
    BY <1>1 DEF IInv, TypeOK
  <2> QED BY <1>1, <1>2, <1>3, <1>9, <2>1 DEF Settled, RootCells, OwesAt
<1> QED BY <1>7, <1>8, <1>9

(* A call that changes no links and no rectangles moves nothing. *)
LEMMA TreeStands ==
  ASSUME IInv, TypeOK', UNCHANGED <<live, parent, rect>>
  PROVE  /\ Forest /\ Forest'
         /\ \A x \in Windows : Lineage(x)' = Lineage(x) /\ Cells(x)' = Cells(x)
<1>1. Forest /\ Forest'
  BY ForestNow DEF Forest, TypeOK, Ranked
<1>2. \A x \in Windows : parent[x] # None => parent[x] \in Windows
  BY DEF IInv, TypeOK
<1> QED BY <1>1, <1>2, Unmoved

LEMMA StackStands ==
  ASSUME IInv, TypeOK', Shape, UNCHANGED <<live, parent, rect>>
  PROVE  StackStays
<1>1. live \subseteq Windows
  BY DEF IInv, TypeOK
<1> QED BY <1>1, TreeStands DEF StackStays, OnStack, Shape

(* The window that shows or hides is damaged where its parent is reached. *)
LEMMA KeepsShow ==
  ASSUME IInv, TypeOK', Shape, NEW w \in Windows, Show(w)
  PROVE  /\ StackStays
         /\ \A c \in Grid : Settled(c)' => Settled(c) /\ KeepsAt(c)
<1>1. /\ w \in live /\ UNCHANGED <<live, parent, children, rect>>
      /\ visible' = [visible EXCEPT ![w] = TRUE]
  BY DEF Show, CanCall
<1>2. /\ parent \in [Windows -> Windows \cup {None}] /\ live \subseteq Windows
      /\ visible \in [Windows -> BOOLEAN] /\ children \in [Windows -> Seq(Windows)]
  BY DEF IInv, TypeOK
<1>3. /\ Forest /\ Forest'
      /\ \A x \in Windows : Lineage(x)' = Lineage(x) /\ Cells(x)' = Cells(x)
  BY <1>1, TreeStands
<1>3a. /\ w = Root => RootCells \subseteq Owed'
       /\ w # Root => OwesAt(parent[w], Cells(w))
  BY ShowOwes, ShowRootOwes
<1>4. ASSUME NEW c \in Grid, Settled(c)' PROVE Settled(c) /\ KeepsAt(c)
  <2>1. c \in RootCells /\ c \notin Owed'
    BY <1>1, <1>4 DEF Settled, RootCells
  <2>2. w # Root
    BY <1>3a, <2>1
  <2>3. Settled(c)
    BY <1>1, <1>2, <1>3a, <1>4, <2>1, <2>2 DEF Settled, OwesAt
  <2>4. ASSUME NEW a \in Windows, Reached(a, c)
        PROVE  /\ a \in live' /\ parent'[a] = parent[a] /\ visible'[a] /\ c \in Cells(a)'
               /\ \A u : Matters(u, c) /\ ~Covered(a, u, c) => ~Covered(a, u, c)'
    <3>1. a \in live /\ visible[a] /\ c \in Cells(a)
      BY <1>3, <2>4, ClearNow DEF Clear
    <3>2. /\ a \in live' /\ parent'[a] = parent[a] /\ visible'[a] /\ c \in Cells(a)'
      BY <1>1, <1>2, <1>3, <3>1
    <3>3. ASSUME NEW u, ~Covered(a, u, c) PROVE ~Covered(a, u, c)'
      <4>1. Lists(children[a], Kids(a))
        BY <3>1 DEF IInv, ChildrenListed
      <4>2. \A y \in Kids(a) : y # w /\ visible'[y] /\ c \in Cells(y)' => visible[y] /\ c \in Cells(y)
        BY <1>1, <1>2, <1>3 DEF Kids
      <4>3. ~(Ahead(children'[a], u, w) /\ visible'[w] /\ c \in Cells(w)')
        <5> SUFFICES ASSUME Ahead(children[a], u, w), c \in Cells(w) PROVE FALSE
          BY <1>1, <1>3
        <5>1. parent[w] = a
          BY <4>1 DEF Ahead, Lists, Kids
        <5> QED BY <1>3a, <2>1, <2>2, <2>4, <5>1, ReachedUnclipped DEF OwesAt
      <4>4. \A y : y # w /\ Ahead(children'[a], u, y) => Ahead(children[a], u, y)
        BY <1>1
      <4> QED BY <3>3, <4>1, <4>2, <4>3, <4>4, StaysUncovered
    <3> QED BY <3>2, <3>3
  <2> QED BY <2>3, <2>4 DEF KeepsAt
<1> QED BY <1>1, <1>4, StackStands

LEMMA KeepsHide ==
  ASSUME IInv, TypeOK', Shape, NEW w \in Windows, Hide(w)
  PROVE  /\ StackStays
         /\ \A c \in Grid : Settled(c)' => Settled(c) /\ KeepsAt(c)
<1>1. /\ w \in live /\ UNCHANGED <<live, parent, children, rect>>
      /\ visible' = [visible EXCEPT ![w] = FALSE]
  BY DEF Hide, CanCall
<1>2. /\ parent \in [Windows -> Windows \cup {None}] /\ live \subseteq Windows
      /\ visible \in [Windows -> BOOLEAN] /\ children \in [Windows -> Seq(Windows)]
      /\ w # Root => parent[w] # None
  BY <1>1 DEF IInv, TypeOK, OneRoot
<1>3. /\ Forest /\ Forest'
      /\ \A x \in Windows : Lineage(x)' = Lineage(x) /\ Cells(x)' = Cells(x)
  BY <1>1, TreeStands
<1>3a. w # Root => OwesAt(parent[w], Cells(w))
  BY ShowOwes
<1>4. ASSUME NEW c \in Grid, Settled(c)' PROVE Settled(c) /\ KeepsAt(c)
  <2>1. c \in RootCells /\ c \notin Owed' /\ w # Root
    BY <1>1, <1>2, <1>4 DEF Settled, RootCells
  <2>2. Settled(c)
    BY <1>1, <1>2, <1>3a, <1>4, <2>1 DEF Settled, OwesAt
  <2>3. ~Reached(w, c)
    <3> SUFFICES ASSUME Reached(w, c) PROVE FALSE
      OBVIOUS
    <3>1. c \in Cells(w) /\ Reached(parent[w], c)
      BY <1>2, <1>3, <2>1, ReachedUp DEF Clear
    <3> QED BY <1>3a, <2>1, <3>1, ReachedUnclipped DEF OwesAt
  <2>4. ASSUME NEW a \in Windows, Reached(a, c)
        PROVE  /\ a \in live' /\ parent'[a] = parent[a] /\ visible'[a] /\ c \in Cells(a)'
               /\ \A u : Matters(u, c) /\ ~Covered(a, u, c) => ~Covered(a, u, c)'
    <3>1. a \in live /\ visible[a] /\ c \in Cells(a)
      BY <1>3, <2>4, ClearNow DEF Clear
    <3>2. /\ a \in live' /\ parent'[a] = parent[a] /\ visible'[a] /\ c \in Cells(a)'
      BY <1>1, <1>2, <1>3, <2>3, <2>4, <3>1
    <3>3. ASSUME NEW u, ~Covered(a, u, c) PROVE ~Covered(a, u, c)'
      <4>1. Lists(children[a], Kids(a))
        BY <3>1 DEF IInv, ChildrenListed
      <4>2. \A y \in Kids(a) : y # w /\ visible'[y] /\ c \in Cells(y)' => visible[y] /\ c \in Cells(y)
        BY <1>1, <1>2, <1>3 DEF Kids
      <4>3. ~visible'[w]
        BY <1>1, <1>2
      <4>4. \A y : y # w /\ Ahead(children'[a], u, y) => Ahead(children[a], u, y)
        BY <1>1
      <4> QED BY <3>3, <4>1, <4>2, <4>3, <4>4, StaysUncovered
    <3> QED BY <3>2, <3>3
  <2> QED BY <2>2, <2>4 DEF KeepsAt
<1> QED BY <1>1, <1>4, StackStands

(* All that is freed lies under w. *)
LEMMA GoneBelow ==
  ASSUME Forest, NEW w, NEW gone, gone \subseteq Windows,
         \A x \in gone : x = w \/ parent[x] \in gone
  PROVE  \A x \in gone : w \in Lineage(x)
<1> DEFINE in == {x \in Windows : x \in gone => w \in Lineage(x)}
<1>1. ASSUME NEW x \in Windows, parent[x] # None => parent[x] \in in PROVE x \in in
  <2>1. Lineage(x) = {x} \cup (IF parent[x] = None THEN {} ELSE Lineage(parent[x]))
    BY Upward
  <2> QED BY <1>1, <2>1
<1>2. \A x \in Windows : x \in in
  <2> HIDE DEF in
  <2> QED BY <1>1, Downward
<1> QED BY <1>2

LEMMA StackLineage ==
  ASSUME IInv, Forest, Shape
  PROVE  \A u \in Windows : OnStack(u) => \A a \in Lineage(u) : OnStack(a)
<1> DEFINE in == {u \in Windows : OnStack(u) => \A a \in Lineage(u) : OnStack(a)}
<1>0. parent[Root] = None /\ DOMAIN stack = 1..Len(stack) /\ Len(stack) \in Nat
  BY DEF IInv, TypeOK
<1>1. ASSUME NEW u \in Windows, parent[u] # None => parent[u] \in in PROVE u \in in
  <2> SUFFICES ASSUME OnStack(u) PROVE \A a \in Lineage(u) : OnStack(a)
    OBVIOUS
  <2>1. Lineage(u) = {u} \cup (IF parent[u] = None THEN {} ELSE Lineage(parent[u]))
    BY Upward
  <2>2. ASSUME parent[u] # None PROVE OnStack(parent[u])
    <3>1. PICK i \in DOMAIN stack : stack[i].win = u
      BY DEF OnStack
    <3>2. i # 1
      BY <1>0, <2>2, <3>1 DEF Shape
    <3>3. i - 1 \in 1..Len(stack) - 1 /\ i - 1 \in DOMAIN stack /\ (i - 1) + 1 = i
      BY <1>0, <3>1, <3>2
    <3>4. parent[u] = stack[i - 1].win
      BY <3>1, <3>3 DEF Shape
    <3> QED BY <3>3, <3>4 DEF OnStack
  <2> QED BY <1>1, <2>1, <2>2
<1>2. \A x \in Windows : x \in in
  <2> HIDE DEF in
  <2> QED BY <1>1, Downward
<1> QED BY <1>2

LEMMA KeepsDestroy ==
  ASSUME IInv, TypeOK', Ranked', Shape, NEW w \in Windows, Destroy(w)
  PROVE  /\ StackStays
         /\ \A c \in Grid : Settled(c)' => Settled(c) /\ KeepsAt(c)
<1> DEFINE p == parent[w]
           K == {x \in Windows : w \notin Lineage(x)}
<1>0. PICK gone \in SUBSET live : Frees(w, gone)
  BY DestroyFrees
<1>1. /\ w \in gone /\ w # Root /\ p \in live /\ p \notin gone
      /\ \A x \in gone : x = w \/ parent[x] \in gone
      /\ live' = live \ gone
      /\ parent' = [x \in Windows |->
           IF x \in gone THEN None
           ELSE IF parent[x] \in gone THEN Dangling ELSE parent[x]]
      /\ rect' = [x \in Windows |-> IF x \in gone THEN rect[Root] ELSE rect[x]]
      /\ visible' = [x \in Windows |-> IF x \in gone THEN TRUE ELSE visible[x]]
      /\ children' = Freed([children EXCEPT ![p] = Without(@, w)], gone, <<>>)
      /\ \A i \in DOMAIN stack : stack[i].win \notin gone
  BY <1>0 DEF Frees, Freed
<1>2. /\ parent \in [Windows -> Windows \cup {None}] /\ live \subseteq Windows
      /\ visible \in [Windows -> BOOLEAN] /\ children \in [Windows -> Seq(Windows)]
      /\ rect \in [Windows -> RectType] /\ parent[Root] = None /\ p \in Windows
  BY <1>1 DEF IInv, TypeOK
<1>3. OwesAt(p, Cells(w))
  BY DestroyOwes
<1>4. Forest /\ Forest'
  BY ForestNow DEF Forest, TypeOK
<1>5. \A x \in gone : w \in Lineage(x)
  BY <1>1, <1>2, <1>4, GoneBelow
<1>6. \A x \in K : /\ x \notin gone /\ parent'[x] = parent[x]
                   /\ Lineage(x)' = Lineage(x) /\ Cells(x)' = Cells(x)
  <2>1. \A x \in K : x \notin gone /\ (parent[x] # None => parent[x] \in K)
    BY <1>2, <1>4, <1>5, Upward
  <2>2. \A x \in K : parent'[x] = parent[x] /\ rect'[x] = rect[x]
    <3>1. \A x \in K : parent[x] \notin gone
      BY <1>2, <2>1
    <3> QED BY <1>1, <3>1, <2>1
  <2>3. K \in SUBSET Windows
    OBVIOUS
  <2> HIDE DEF K
  <2> QED BY <1>4, <2>1, <2>2, <2>3, Unmoved
<1>7. StackStays
  <2> SUFFICES ASSUME NEW u, OnStack(u)
               PROVE  u \in live' /\ parent'[u] = parent[u] /\ Cells(u)' = Cells(u)
    BY DEF StackStays
  <2>1. u \in live /\ u \in Windows /\ u \notin gone
    BY <1>1, <1>2 DEF OnStack, Shape
  <2>2. u \in K
    <3>1. \A a \in Lineage(u) : a \notin gone
      BY <1>1, <1>4, <2>1, StackLineage DEF OnStack
    <3> QED BY <1>1, <2>1, <3>1
  <2> QED BY <1>1, <1>6, <2>1, <2>2
<1>8. ASSUME NEW c \in Grid, Settled(c)' PROVE Settled(c) /\ KeepsAt(c)
  <2>1. c \notin Owed'
    BY <1>8 DEF Settled
  <2>2. Settled(c)
    <3>1. Root \notin gone
      BY <1>1, <1>2
    <3> QED BY <1>1, <1>2, <1>3, <1>8, <3>1 DEF Settled, RootCells, OwesAt
  <2>3. ~Reached(w, c)
    <3> SUFFICES ASSUME Reached(w, c) PROVE FALSE
      OBVIOUS
    <3>1. c \in Cells(w) /\ Reached(p, c)
      BY <1>1, <1>2, <1>4, ReachedUp DEF Clear
    <3> QED BY <1>3, <2>1, <3>1, ReachedUnclipped DEF OwesAt
  <2>4. ASSUME NEW a \in Windows, Reached(a, c) PROVE a \in K /\ a \in live /\ Clear(a, c)
    BY <1>4, <2>3, <2>4, ClearNow DEF Clear
  <2>5. ASSUME NEW a \in Windows, Reached(a, c)
        PROVE  /\ a \in live' /\ parent'[a] = parent[a] /\ visible'[a] /\ c \in Cells(a)'
               /\ \A u : Matters(u, c) /\ ~Covered(a, u, c) => ~Covered(a, u, c)'
    <3>1. a \in K /\ a \in live /\ visible[a] /\ c \in Cells(a) /\ a \notin gone
      BY <1>6, <2>4, <2>5 DEF Clear
    <3>2. /\ a \in live' /\ parent'[a] = parent[a] /\ visible'[a] /\ c \in Cells(a)'
      BY <1>1, <1>2, <1>6, <3>1
    <3>3. ASSUME NEW u, Matters(u, c), ~Covered(a, u, c) PROVE ~Covered(a, u, c)'
      <4>1. Lists(children[a], Kids(a))
        BY <3>1 DEF IInv, ChildrenListed
      <4>2. u # w
        BY <1>1, <1>2, <2>3, <3>3 DEF Matters, OnStack
      <4>3. children'[a] = IF a = p THEN Without(children[a], w) ELSE children[a]
        BY <1>1, <1>2, <3>1 DEF Freed
      <4>4. a = p => w \in Kids(a)
        BY <1>0 DEF Kids, Frees
      <4>5. \A y : y # w /\ Ahead(children'[a], u, y) => Ahead(children[a], u, y)
        <5>1. CASE a = p
          BY <4>1, <4>2, <4>3, <4>4, <5>1, OrderWithout DEF SameOrder
        <5> QED BY <4>3, <5>1
      <4>6. \A y \in Kids(a) : y # w /\ visible'[y] /\ c \in Cells(y)' => visible[y] /\ c \in Cells(y)
        <5> SUFFICES ASSUME NEW y \in Kids(a), y # w PROVE visible'[y] = visible[y] /\ Cells(y)' = Cells(y)
          OBVIOUS
        <5>1. y \in Windows /\ parent[y] = a /\ y \notin gone
          BY <1>1, <1>2, <3>1 DEF Kids
        <5>2. y \in K
          BY <1>2, <1>4, <3>1, <5>1, Upward
        <5> QED BY <1>1, <1>6, <5>1, <5>2
      <4>7. ~Ahead(children'[a], u, w)
        <5>1. Lists(children'[a], Kids(a) \ {w})
          <6>1. CASE a = p
            BY <4>1, <4>3, <4>4, <6>1, ListsWithout
          <6>2. CASE a # p
            <7>1. Kids(a) \ {w} = Kids(a)
              BY <6>2 DEF Kids
            <7> QED BY <4>1, <4>3, <6>2, <7>1
          <6> QED BY <6>1, <6>2
        <5> QED BY <5>1 DEF Ahead, Lists
      <4> QED BY <3>3, <4>1, <4>5, <4>6, <4>7, StaysUncovered
    <3> QED BY <3>2, <3>3
  <2> QED BY <2>2, <2>5 DEF KeepsAt
<1> QED BY <1>7, <1>8

(* A restacked window gets in front of others only where it is damaged. *)
LEMMA KeepsApply ==
  ASSUME IInv, TypeOK', Shape, ApplyChange
  PROVE  /\ StackStays
         /\ \A c \in Grid : Settled(c)' => Settled(c) /\ KeepsAt(c)
<1>2. /\ parent \in [Windows -> Windows \cup {None}] /\ live \subseteq Windows
      /\ visible \in [Windows -> BOOLEAN] /\ children \in [Windows -> Seq(Windows)]
  BY DEF IInv, TypeOK
<1>0. PICK w \in live, p \in live, kind \in Kinds :
        /\ parent[w] = p
        /\ children' = [children EXCEPT ![p] = Restacked(kind, @, w)]
        /\ OwesAt(p, Cells(w))
  <2> DEFINE req == Head(changes)
  <2>1. req \in Change /\ req = changes[1] /\ 1 \in DOMAIN changes
    BY DEF ApplyChange, IInv, TypeOK
  <2>2. req.win \in live /\ req.parent \in live /\ parent[req.win] = req.parent
        /\ req.change \in Kinds
    BY <2>1 DEF IInv, ChangesParented, Change
  <2>3. /\ children' = [children EXCEPT ![req.parent] = Restacked(req.change, @, req.win)]
    BY DEF ApplyChange
  <2>4. OwesAt(req.parent, Cells(req.win))
    BY ApplyOwes
  <2> HIDE DEF req
  <2> QED BY <2>2, <2>3, <2>4
<1>1. /\ UNCHANGED <<live, parent, visible, rect>> /\ phase = "changes"
      /\ children' = [children EXCEPT ![p] = Restacked(kind, @, w)]
      /\ OwesAt(p, Cells(w))
  BY <1>0 DEF ApplyChange
<1>3. w \in live /\ p \in live /\ parent[w] = p /\ kind \in Kinds
  BY <1>0
<1>4. /\ Forest /\ Forest'
      /\ \A x \in Windows : Lineage(x)' = Lineage(x) /\ Cells(x)' = Cells(x)
  BY <1>1, TreeStands
<1>5. stack = <<>>
  BY <1>1 DEF IInv, Nested
<1>6. ASSUME NEW c \in Grid, Settled(c)' PROVE Settled(c) /\ KeepsAt(c)
  <2>1. Settled(c) /\ c \notin Owed'
    BY <1>1, <1>6 DEF Settled, RootCells, OwesAt
  <2>2. Reached(p, c) => c \notin Cells(w)
    BY <1>1, <2>1, ReachedUnclipped DEF OwesAt
  <2>3. ~Reached(w, c)
    BY <1>2, <1>3, <1>4, <2>2, ReachedUp DEF Clear
  <2>4. ASSUME NEW a \in Windows, Reached(a, c)
        PROVE  /\ a \in live' /\ parent'[a] = parent[a] /\ visible'[a] /\ c \in Cells(a)'
               /\ \A u : Matters(u, c) /\ ~Covered(a, u, c) => ~Covered(a, u, c)'
    <3>1. a \in live /\ visible[a] /\ c \in Cells(a)
      BY <1>4, <2>4, ClearNow DEF Clear
    <3>2. /\ a \in live' /\ parent'[a] = parent[a] /\ visible'[a] /\ c \in Cells(a)'
      BY <1>1, <1>2, <1>4, <3>1
    <3>3. ASSUME NEW u, Matters(u, c), ~Covered(a, u, c) PROVE ~Covered(a, u, c)'
      <4>1. Lists(children[a], Kids(a)) /\ Kids(a) \subseteq Windows
        BY <1>2, <3>1 DEF IInv, ChildrenListed, Kids
      <4>2. u # w
        BY <1>2, <1>3, <1>5, <2>3, <3>3 DEF Matters, OnStack
      <4>3. children'[a] = IF a = p THEN Restacked(kind, children[a], w) ELSE children[a]
        BY <1>1, <1>2
      <4>4. \A y : y # w /\ Ahead(children'[a], u, y) => Ahead(children[a], u, y)
        <5>1. CASE a = p
          <6>1. w \in Kids(a)
            BY <1>3, <5>1 DEF Kids
          <6>2. SameOrder(children[a], Restacked(kind, children[a], w), w)
            BY <1>3, <4>1, <6>1, OrderRestacked
          <6> QED BY <4>2, <4>3, <5>1, <6>2 DEF SameOrder
        <5> QED BY <4>3, <5>1
      <4>5. \A y \in Kids(a) : y # w /\ visible'[y] /\ c \in Cells(y)' => visible[y] /\ c \in Cells(y)
        BY <1>1, <1>2, <1>4 DEF Kids
      <4>6. ~(Ahead(children'[a], u, w) /\ visible'[w] /\ c \in Cells(w)')
        <5>1. CASE a = p
          BY <1>2, <1>3, <1>4, <2>2, <2>4, <5>1
        <5>2. CASE a # p
          BY <1>3, <4>1, <4>3, <5>2 DEF Ahead, Lists, Kids
        <5> QED BY <5>1, <5>2
      <4> QED BY <3>3, <4>1, <4>4, <4>5, <4>6, StaysUncovered
    <3> QED BY <3>2, <3>3
  <2> QED BY <2>1, <2>4 DEF KeepsAt
<1> QED BY <1>1, <1>6, StackStands

(* Steps that leave the tree alone. *)
LEMMA TreeSame ==
  ASSUME UNCHANGED tree
  PROVE  /\ \A x : Cells(x)' = Cells(x)
         /\ \A x, c : (Reached(x, c) <=> Reached(x, c)') /\ (OnView(x, c) <=> OnView(x, c)')
         /\ \A a, u, c : Covered(a, u, c) <=> Covered(a, u, c)'
<1>1. UNCHANGED <<live, parent, children, visible, rect>>
  BY DEF tree
<1>2. \A x : Lineage(x)' = Lineage(x)
  <2>1. parent' = parent
    BY <1>1
  <2> QED BY ONLY <2>1, Zenon DEF Lineage
<1>3. \A x : AbsRect(x)' = AbsRect(x)
  <2> SUFFICES ASSUME NEW x PROVE AbsRect(x)' = AbsRect(x)
    OBVIOUS
  <2>1. parent' = parent /\ rect' = rect
    BY <1>1
  <2> QED BY ONLY <2>1, Zenon DEF AbsRect
<1>4. \A x : Cells(x)' = Cells(x)
  BY <1>3 DEF Cells
<1>5. \A a, u, c : Covered(a, u, c) <=> Covered(a, u, c)'
  BY <1>1, <1>4 DEF Covered
<1>6. \A x, c : Clear(x, c) <=> Clear(x, c)'
  <2> SUFFICES ASSUME NEW x, NEW c PROVE Clear(x, c) <=> Clear(x, c)'
    OBVIOUS
  <2>1. Covered(parent[x], x, c) <=> Covered(parent[x], x, c)'
    BY <1>1, <1>5
  <2> QED BY <1>1, <1>4, <2>1 DEF Clear
<1>7. \A x, c : Reached(x, c) <=> Reached(x, c)'
  BY <1>2, <1>6 DEF Reached
<1> QED BY <1>4, <1>5, <1>7 DEF OnView

(* The root grows or shrinks in place: no other window moves.              *)
LEMMA KeepsResize ==
  ASSUME IInv, TypeOK', Shape, NEW r \in Sizes, Resize(r)
  PROVE  \A c \in Grid : Settled(c)' => Settled(c) /\ KeepsAt(c) /\ c \in CellsIn(r)
<1>1. /\ phase = "idle" /\ rect' = [rect EXCEPT ![Root] = r]
      /\ UNCHANGED <<live, parent, children, visible>>
  BY DEF Resize
<1>2. /\ parent \in [Windows -> Windows \cup {None}] /\ live \subseteq Windows
      /\ rect \in [Windows -> RectType] /\ parent[Root] = None /\ Root \in live
      /\ rect[Root] \in Sizes
  BY DEF IInv, TypeOK
<1>3. Forest /\ Forest'
  BY <1>1, ForestNow DEF Forest, TypeOK, Ranked
<1>4. rect[Root].top = 0 /\ rect[Root].left = 0 /\ r.top = 0 /\ r.left = 0
  BY <1>2
<1> DEFINE in == {x \in Windows : /\ Lineage(x)' = Lineage(x)
                                  /\ x # Root => AbsRect(x)' = AbsRect(x)}
<1>5. AbsRect(Root) = rect[Root] /\ AbsRect(Root)' = r
  <2>1. AbsRect(Root) = rect[Root]
    BY <1>2, <1>3, Upward
  <2>2. (AbsRect(Root) = IF parent[Root] = None THEN rect[Root]
           ELSE Translate(rect[Root], AbsRect(parent[Root]).top, AbsRect(parent[Root]).left))'
    BY <1>3, UpwardNext DEF UpwardWhen
  <2>3. parent'[Root] = None /\ rect'[Root] = r
    BY <1>1, <1>2
  <2> QED BY <2>1, <2>2, <2>3
<1>6. ASSUME NEW x \in Windows, parent[x] # None => parent[x] \in in PROVE x \in in
  <2> DEFINE p == parent[x]
  <2>1. parent'[x] = p /\ (x # Root => rect'[x] = rect[x]) /\ p' = p
    BY <1>1, <1>2
  <2>2. ASSUME p # None
        PROVE  /\ Lineage(p)' = Lineage(p)
               /\ AbsRect(p)'.top = AbsRect(p).top /\ AbsRect(p)'.left = AbsRect(p).left
    <3>1. p \in in
      BY <1>6, <2>2
    <3>2. \A q \in in : q # Root => AbsRect(q)' = AbsRect(q)
      OBVIOUS
    <3>3. \A q \in in : Lineage(q)' = Lineage(q)
      OBVIOUS
    <3>4. ASSUME NEW q, q = p
          PROVE  /\ Lineage(q)' = Lineage(q)
                 /\ AbsRect(q)'.top = AbsRect(q).top /\ AbsRect(q)'.left = AbsRect(q).left
      <4>1. q = Root => AbsRect(q) = rect[Root] /\ AbsRect(q)' = r
        BY <1>5
      <4> HIDE DEF in, p
      <4> QED BY <1>4, <3>1, <3>2, <3>3, <3>4, <4>1
    <3> QED BY <2>1, <3>4
  <2>3. /\ Lineage(x) = {x} \cup (IF p = None THEN {} ELSE Lineage(p))
        /\ AbsRect(x) = IF p = None THEN rect[x]
                        ELSE Translate(rect[x], AbsRect(p).top, AbsRect(p).left)
    BY <1>3, Upward
  <2>4. (/\ Lineage(x) = {x} \cup (IF p = None THEN {} ELSE Lineage(p))
         /\ AbsRect(x) = IF p = None THEN rect[x]
                         ELSE Translate(rect[x], AbsRect(p).top, AbsRect(p).left))'
    <3> HIDE DEF in
    <3> QED BY <1>3, UpwardNext DEF UpwardWhen
  <2>5. /\ Lineage(x)' = Lineage(x)
        /\ x # Root => AbsRect(x)' = AbsRect(x)
    <3> HIDE DEF p, in
    <3> QED BY ONLY <2>1, <2>2, <2>3, <2>4
  <2> QED BY <2>5
<1>7. \A x \in Windows : x \in in
  <2> HIDE DEF in
  <2> QED BY <1>3, <1>6, Downward
<1>8. /\ \A x \in Windows : x # Root => Cells(x)' = Cells(x)
      /\ Cells(Root) = CellsIn(rect[Root]) /\ Cells(Root)' = CellsIn(r)
  BY <1>5, <1>7 DEF Cells
<1>9. stack = <<>>
  BY <1>1 DEF IInv, Nested
<1>10. ASSUME NEW c \in Grid, Settled(c)' PROVE Settled(c) /\ KeepsAt(c) /\ c \in CellsIn(r)
  <2>1. c \in CellsIn(r) /\ visible[Root] /\ c \notin Owed'
    BY <1>1, <1>2, <1>10 DEF Settled, RootCells
  <2>2. c \in CellsIn(rect[Root])
    BY <2>1, ResizeOwes DEF RootCells
  <2>3. Settled(c)
    BY <1>1, <2>1, <2>2, ResizeOwes DEF Settled, RootCells
  <2>4. ASSUME NEW a \in Windows, Reached(a, c)
        PROVE  /\ a \in live' /\ parent'[a] = parent[a] /\ visible'[a] /\ c \in Cells(a)'
               /\ \A u : Matters(u, c) /\ ~Covered(a, u, c) => ~Covered(a, u, c)'
    <3>1. a \in live /\ visible[a] /\ c \in Cells(a)
      BY <1>3, <2>4, ClearNow DEF Clear
    <3>2. /\ a \in live' /\ parent'[a] = parent[a] /\ visible'[a] /\ c \in Cells(a)'
      BY <1>1, <1>8, <2>1, <3>1
    <3>3. ASSUME NEW u, ~Covered(a, u, c) PROVE ~Covered(a, u, c)'
      <4>1. Lists(children[a], Kids(a))
        BY <3>1 DEF IInv, ChildrenListed
      <4>2. \A y \in Kids(a) : y # Root /\ y \in Windows
        BY <1>2 DEF Kids
      <4>3. \A y \in Kids(a) : y # Root /\ visible'[y] /\ c \in Cells(y)' => visible[y] /\ c \in Cells(y)
        BY <1>1, <1>8, <4>2
      <4>4. ~Ahead(children'[a], u, Root)
        BY <1>1, <4>1, <4>2 DEF Ahead, Lists
      <4>5. \A y : y # Root /\ Ahead(children'[a], u, y) => Ahead(children[a], u, y)
        BY <1>1
      <4> QED BY <3>3, <4>1, <4>3, <4>4, <4>5, StaysUncovered
    <3> QED BY <3>2, <3>3
  <2> QED BY <2>1, <2>3, <2>4 DEF KeepsAt
<1> QED BY <1>10

-----------------------------------------------------------------------------
(* A call leaves the settled cells right. *)

LEMMA StackTyped ==
  ASSUME IInv
  PROVE  /\ stack \in Seq(Frame) /\ Len(stack) \in Nat /\ DOMAIN stack = 1..Len(stack)
         /\ \A i \in DOMAIN stack :
              /\ stack[i] \in Frame /\ stack[i].win \in Windows
              /\ stack[i].at \in Windows \cup {None}
         /\ stack # <<>> =>
              Top = stack[Len(stack)] /\ Len(stack) \in DOMAIN stack
<1>1. stack \in Seq(Frame)
  BY DEF IInv, TypeOK
<1>2. Len(stack) \in Nat /\ DOMAIN stack = 1..Len(stack) /\ \A i \in DOMAIN stack : stack[i] \in Frame
  BY <1>1
<1>3. \A f \in Frame : f.win \in Windows /\ f.at \in Windows \cup {None}
  BY DEF Frame
<1>4. stack # <<>> => Len(stack) \in DOMAIN stack
  BY <1>1
<1> QED BY <1>1, <1>2, <1>3, <1>4 DEF Top, Last

LEMMA ShapeStays ==
  ASSUME IInv, Shape, StackStays, UNCHANGED <<stack, drawn>>, stack = <<>> \/ drawn
  PROVE  Shape'
<1>1. \A i \in DOMAIN stack : OnStack(stack[i].win)
  BY DEF OnStack
<1>2. \A i \in 1..Len(stack) - 1 : i + 1 \in DOMAIN stack
  BY StackTyped
<1> QED BY <1>1, <1>2 DEF Shape, StackStays

LEMMA CellStays ==
  ASSUME IInv, Forest, Forest', Shape, StackStays, UNCHANGED flush, stack = <<>> \/ drawn,
         NEW c \in Grid, KeepsAt(c), CellRight(c),
         OnView(screen[c], c) => screen'[c] = screen[c],
         OnView(rb[c], c) => rb'[c] = rb[c],
         rb[c] = None => rb'[c] = None
  PROVE  CellRight(c)'
<1>1. UNCHANGED <<phase, todo, stack, drawn>>
  BY DEF flush
<1>2. \A x \in Windows : /\ Reached(x, c) => Reached(x, c)'
                         /\ OnView(x, c) => OnView(x, c)'
  BY KeepsReached
<1>3. OnView(screen[c], c) => OnView(screen[c], c)'
  BY <1>2 DEF OnView
<1>4. Painted(c) => Painted(c)'
  <2>1. CASE rb[c] = None
    BY <1>3, <2>1 DEF Painted
  <2>2. CASE rb[c] # None
    <3>1. OnView(rb[c], c) => OnView(rb[c], c)'
      BY <1>2 DEF OnView
    <3>2. Painted(c) => rb'[c] = rb[c] /\ rb'[c] # None /\ OnView(rb[c], c)'
      BY <2>2, <3>1 DEF Painted
    <3> QED BY <3>2 DEF Painted
  <2> QED BY <2>1, <2>2
<1>5. Unpainted(c)' /\ Repainted(c)'
  BY <1>1, <1>3, <1>4 DEF CellRight, Unpainted, Repainted
<1>6. OpenReached(c)'
  BY <1>1, <1>2, StackTyped DEF CellRight, OpenReached
<1>7. Passed(c)'
  <2> SUFFICES ASSUME NEW k \in 1..Len(stack) - 1, c \in stack[k].open
               PROVE  /\ ~Covered(stack[k].win, stack[k].at, c)'
                      /\ \/ c \in stack[k + 1].open \/ c \notin Cells(stack[k + 1].win)'
                         \/ Painted(c)'
    BY <1>1 DEF Passed
  <2>1. k \in DOMAIN stack /\ k + 1 \in DOMAIN stack
    BY StackTyped
  <2>2. /\ ~Covered(stack[k].win, stack[k].at, c) /\ Reached(stack[k].win, c)
        /\ c \in stack[k + 1].open \/ c \notin Cells(stack[k + 1].win) \/ Painted(c)
    BY <2>1 DEF CellRight, Passed, OpenReached
  <2>3. OnStack(stack[k + 1].win) /\ stack[k].at = stack[k + 1].win
    BY <2>1 DEF OnStack, Shape
  <2>4. \A a, u : a = stack[k].win /\ u = stack[k].at => ~Covered(a, u, c)'
    BY <2>1, <2>2, <2>3, StackTyped DEF KeepsAt, Matters
  <2>5. \A u : u = stack[k + 1].win => Cells(u)' = Cells(u)
    BY <2>3 DEF StackStays
  <2> QED BY <1>1, <1>4, <2>2, <2>4, <2>5
<1>8. Standing(c)'
  BY <1>1 DEF Standing
<1>9. Filled(c)'
  <2> SUFFICES ASSUME drawn, c \in Top.open PROVE rb'[c] = Top.win /\ Painted(c)'
    BY <1>1 DEF Filled, Top
  <2>1. rb[c] = Top.win /\ Painted(c) /\ stack # <<>>
    BY DEF CellRight, Filled, IInv, Nested
  <2>2. rb[c] # None
    BY <2>1, StackTyped
  <2> QED BY <1>4, <2>1, <2>2 DEF Painted
<1> QED BY <1>5, <1>6, <1>7, <1>8, <1>9 DEF CellRight

-----------------------------------------------------------------------------
(* The steps of the flush. *)

LEMMA FrontAt ==
  ASSUME NEW S, NEW s \in Seq(S), s # <<>>
  PROVE  \A i \in 1..Len(s) - 1 : Front(s)[i] = s[i]
<1> DEFINE n == Len(s) - 1
<1>1. n \in Nat /\ n \in Int /\ \A i \in 1..n : s[i] \in S
  OBVIOUS
<1>2. Front(s) = SubSeq(s, 1, n)
  BY DEF Front
<1> HIDE DEF n
<1>3. \A i \in 1..n : SubSeq(s, 1, n)[i] = s[i]
  BY <1>1
<1> QED BY <1>2, <1>3 DEF n

(* t is the stack s with its top replaced by x. *)
Retops(s, x, t) ==
  /\ t # <<>> /\ Len(t) = Len(s) /\ DOMAIN t = 1..Len(s)
  /\ Last(t) = x /\ t[Len(s)] = x
  /\ \A i \in 1..Len(s) - 1 : t[i] = s[i]

LEMMA Retopped ==
  ASSUME NEW S, NEW s \in Seq(S), s # <<>>, NEW x \in S
  PROVE  Append(Front(s), x) \in Seq(S) /\ Retops(s, x, Append(Front(s), x))
<1> DEFINE f == Front(s)
           n == Len(s) - 1
<1>0. PICK t : t = Append(f, x)
  OBVIOUS
<1>1. n \in Nat
  OBVIOUS
<1>2. f \in Seq(S) /\ Len(f) = n /\ \A i \in 1..n : f[i] = s[i]
  BY FrontLast, FrontAt
<1> HIDE DEF f, n
<1>3. /\ t \in Seq(S) /\ Len(t) = n + 1 /\ t[n + 1] = x
      /\ \A i \in 1..n : t[i] = f[i]
  BY ONLY <1>0, <1>1, <1>2, x \in S
<1>4. n + 1 = Len(s)
  BY DEF n
<1>5. Last(t) = x /\ t # <<>> /\ DOMAIN t = 1..Len(s)
  BY ONLY <1>1, <1>3, <1>4 DEF Last
<1> QED BY ONLY <1>0, <1>2, <1>3, <1>4, <1>5 DEF n, f, Retops

(* The steps that paint nothing and stand still in the tree. *)
LEMMA OwedSame ==
  ASSUME UNCHANGED damages
  PROVE  Owed' = Owed
BY DEF damages, Owed

LEMMA CellSame ==
  ASSUME IInv, Shape, UNCHANGED <<tree, damages, todo, stack, drawn, rb, screen>>,
         phase' = "paint" <=> phase = "paint"
  PROVE  /\ Shape'
         /\ \A c : Settled(c)' => Settled(c)
         /\ \A c : CellRight(c) => CellRight(c)'
<1>1. UNCHANGED <<live, parent, children, visible, rect>>
  BY DEF tree
<1>2. Top' = Top
  BY DEF Top
<1>3. Shape'
  BY <1>1, <1>2 DEF Shape
<1>4. \A c : Settled(c)' => Settled(c)
  BY <1>1, OwedSame DEF Settled, RootCells
<1>5. ASSUME NEW c, CellRight(c) PROVE CellRight(c)'
  <2>1. /\ \A x : Cells(x)' = Cells(x)
        /\ \A x : (Reached(x, c) <=> Reached(x, c)') /\ (OnView(x, c) <=> OnView(x, c)')
        /\ \A a, u : Covered(a, u, c) <=> Covered(a, u, c)'
    BY TreeSame
  <2>2. Painted(c) => Painted(c)'
    BY <2>1 DEF Painted
  <2>3. Unpainted(c)' /\ Repainted(c)' /\ Filled(c)'
    BY <1>2, <1>5, <2>1, <2>2 DEF CellRight, Unpainted, Repainted, Filled
  <2>4. OpenReached(c)' /\ Passed(c)'
    BY <1>5, <2>1, <2>2 DEF CellRight, OpenReached, Passed
  <2>5. Standing(c)'
    BY <1>1, <1>2, <1>5, <2>1 DEF CellRight, Standing
  <2> QED BY <2>3, <2>4, <2>5 DEF CellRight
<1> QED BY <1>3, <1>4, <1>5

LEMMA RightStart ==
  ASSUME IInv, ScreenInv, StartPaint
  PROVE  Shape' /\ \A c \in Grid : Settled(c)' => CellRight(c)'
<1>1. /\ phase = "changes" /\ todo' = damage /\ phase' = "paint"
      /\ Owed' \cup CellsOf(damage) = Owed
      /\ rb' = [c \in Grid |-> None]
      /\ UNCHANGED <<tree, stack, drawn, screen>>
  <2>1. CellsOf(<<>>) = {}
    BY DEF CellsOf
  <2>2. damage' = <<>> /\ lost' = lost
    BY DEF StartPaint
  <2>3. Owed' = lost
    BY <2>1, <2>2 DEF Owed
  <2> QED BY <2>3 DEF StartPaint, term, Owed
<1>2. stack' = <<>> /\ drawn' = FALSE
  BY <1>1 DEF IInv, Nested, TypeOK
<1>3. Shape'
  BY <1>2 DEF Shape
<1>4. ASSUME NEW c \in Grid, Settled(c)' PROVE CellRight(c)'
  <2>1. c \in CellsOf(damage) \/ Settled(c)
    BY <1>1, <1>4 DEF Settled, RootCells, tree
  <2>2. c \in CellsOf(damage) \/ Painted(c)'
    <3>1. Settled(c) => OnView(screen[c], c)
      BY <1>1 DEF ScreenInv, CellRight, Unpainted
    <3>2. \A x : OnView(x, c) <=> OnView(x, c)'
      BY <1>1, TreeSame
    <3>3. OnView(screen[c], c) => OnView(screen[c], c)'
      BY <1>1, <3>2
    <3>4. rb'[c] = None
      BY <1>1
    <3> QED BY <2>1, <3>1, <3>3, <3>4 DEF Painted
  <2>3. Unpainted(c)' /\ Repainted(c)'
    BY <1>1, <2>2 DEF Unpainted, Repainted
  <2>4. OpenReached(c)' /\ Passed(c)' /\ Standing(c)' /\ Filled(c)'
    <3>1. DOMAIN stack' = {} /\ 1..Len(stack') - 1 = {}
      BY <1>2
    <3> QED BY <1>2, <3>1 DEF OpenReached, Passed, Standing, Filled
  <2> QED BY <2>3, <2>4 DEF CellRight
<1> QED BY <1>3, <1>4

LEMMA CellsOfHead ==
  ASSUME NEW t \in Seq(RectType), t # <<>>
  PROVE  CellsOf(t) = CellsIn(Head(t)) \cup CellsOf(Tail(t))
<1>1. /\ Len(t) \in Nat \ {0} /\ DOMAIN t = 1..Len(t) /\ Head(t) = t[1]
      /\ DOMAIN Tail(t) = 1..Len(t) - 1 /\ \A i \in 1..Len(t) - 1 : Tail(t)[i] = t[i + 1]
  OBVIOUS
<1>2. \A i \in 1..Len(t) : i = 1 \/ (i - 1 \in 1..Len(t) - 1 /\ t[i] = Tail(t)[i - 1])
  BY <1>1
<1>3. \A i \in 1..Len(t) - 1 : i + 1 \in 1..Len(t)
  BY <1>1
<1>4. 1 \in 1..Len(t)
  BY <1>1
<1>5. /\ CellsOf(t) = UNION {CellsIn(t[i]) : i \in 1..Len(t)}
      /\ CellsOf(Tail(t)) = UNION {CellsIn(Tail(t)[i]) : i \in 1..Len(t) - 1}
  BY <1>1 DEF CellsOf
<1>6. ASSUME NEW c \in CellsOf(t) PROVE c \in CellsIn(Head(t)) \cup CellsOf(Tail(t))
  <2>1. PICK i \in 1..Len(t) : c \in CellsIn(t[i])
    BY <1>5
  <2>2. CASE i = 1
    BY <1>1, <2>1, <2>2
  <2>3. CASE i - 1 \in 1..Len(t) - 1 /\ t[i] = Tail(t)[i - 1]
    <3>1. c \in CellsIn(Tail(t)[i - 1])
      BY <2>1, <2>3
    <3>2. \E k \in 1..Len(t) - 1 : c \in CellsIn(Tail(t)[k])
      BY <2>3, <3>1
    <3> QED BY <1>5, <3>2
  <2> QED BY <1>2, <2>2, <2>3
<1>7. ASSUME NEW c \in CellsOf(Tail(t)) PROVE c \in CellsOf(t)
  <2>1. PICK i \in 1..Len(t) - 1 : c \in CellsIn(Tail(t)[i])
    BY <1>5
  <2> QED BY <1>1, <1>3, <1>5, <2>1
<1>8. CellsIn(Head(t)) \subseteq CellsOf(t)
  BY <1>1, <1>4, <1>5
<1> QED BY <1>6, <1>7, <1>8

LEMMA RightBegin ==
  ASSUME IInv, ScreenInv, BeginPass
  PROVE  Shape' /\ \A c \in Grid : Settled(c)' => CellRight(c)'
<1>1. /\ phase = "paint" /\ stack = <<>>
      /\ UNCHANGED <<tree, damages, phase, drawn, rb, screen>>
  BY DEF BeginPass, term
<1> DEFINE part == CellsIn(Head(todo))
<1>2. /\ stack' = <<[win |-> Root, at |-> None, area |-> part, open |-> part \cap RootCells]>>
      /\ CellsOf(todo) = part \cup CellsOf(todo')
  <2>1. todo \in Seq(RectType) /\ todo # <<>> /\ todo' = Tail(todo)
    BY DEF BeginPass, IInv, TypeOK
  <2>2. CellsOf(todo) = CellsIn(Head(todo)) \cup CellsOf(Tail(todo))
    BY <2>1, CellsOfHead
  <2>3. stack' = <<[win |-> Root, at |-> None, area |-> part, open |-> part \cap RootCells]>>
    BY Zenon DEF BeginPass
  <2> QED BY <2>1, <2>2, <2>3
<1> HIDE DEF part
<1>3. /\ Len(stack') = 1 /\ DOMAIN stack' = {1} /\ 1..Len(stack') - 1 = {}
      /\ stack'[1].win = Root /\ stack'[1].at = None
      /\ stack'[1].area = part /\ stack'[1].open = part \cap RootCells
      /\ Top' = stack'[1]
  BY <1>2 DEF Top, Last
<1>4. ~drawn /\ ~drawn'
  BY <1>1 DEF IInv, Nested
<1>5. Root \in live /\ parent[Root] = None /\ Root \in Windows
  BY DEF IInv, TypeOK
<1>6. Shape'
  BY <1>1, <1>3, <1>5 DEF Shape, tree
<1>7. ASSUME NEW c \in Grid, Settled(c)' PROVE CellRight(c)'
  <2>1. Settled(c) /\ CellRight(c)
    BY <1>1, <1>7, OwedSame DEF Settled, RootCells, tree, ScreenInv
  <2>2. Painted(c) => Painted(c)'
    BY <1>1, TreeSame DEF Painted
  <2>3. Unpainted(c)' /\ Repainted(c)'
    BY <1>1, <1>2, <1>3, <2>1, <2>2 DEF CellRight, Unpainted, Repainted, Settled
  <2>4. Reached(Root, c)'
    <3>1. Forest
      BY ForestNow
    <3>2. AbsRect(Root) = rect[Root]
      BY <1>5, <3>1, Upward
    <3>3. Clear(Root, c)
      BY <1>5, <2>1, <3>2 DEF Clear, Settled, RootCells, Cells
    <3>4. Reached(Root, c)
      BY <1>5, <3>1, <3>3, ReachedUp
    <3> QED BY <1>1, <3>4, TreeSame
  <2>5. OpenReached(c)' /\ Passed(c)' /\ Standing(c)' /\ Filled(c)'
    BY <1>3, <1>4, <2>4 DEF OpenReached, Passed, Standing, Filled
  <2> QED BY <2>3, <2>5 DEF CellRight
<1> QED BY <1>6, <1>7

(* No child in front of the next one covers an open cell; and once there   *)
(* is no next one, none of them does.                                      *)
LEMMA NextKid ==
  ASSUME IInv, Shape, stack # <<>>, ~drawn, NEW ch \in Windows, NextChild(Top, ch)
  PROVE  /\ ch \in live /\ parent[ch] = Top.win
         /\ \A c : Standing(c) /\ c \in Top.open => ~Covered(Top.win, ch, c)
<1> DEFINE s == children[Top.win]
<1>1. Top.win \in live
  BY StackTyped DEF Shape
<1>2. Lists(s, Kids(Top.win))
  BY <1>1 DEF IInv, ChildrenListed
<1>3. /\ s \in Seq(Windows) /\ DOMAIN s = 1..Len(s) /\ Len(s) \in Nat
      /\ \A i, j \in 1..Len(s) : s[i] = s[j] => i = j
  BY <1>2 DEF Lists, Distinct
<1>4. PICK i \in 1..Len(s) :
        /\ ch = s[i]
        /\ IF Top.at = None THEN i = 1 ELSE i > 1 /\ s[i - 1] = Top.at
  BY <1>3 DEF NextChild
<1>5. ch \in live /\ parent[ch] = Top.win
  BY <1>2, <1>3, <1>4 DEF Lists, Kids
<1> HIDE DEF s
<1>6. ASSUME NEW c, Standing(c), c \in Top.open PROVE ~Covered(Top.win, ch, c)
  <2> SUFFICES ASSUME NEW y, Ahead(s, ch, y), visible[y], c \in Cells(y) PROVE FALSE
    BY CoveredAhead DEF s
  <2>1. PICK m \in 1..Len(s) : s[m] = y /\ \A j \in 1..m : s[j] # ch
    BY <1>3 DEF Ahead
  <2>2. m < i
    BY <1>3, <1>4, <2>1
  <2>3. Top.at # None /\ s[i - 1] = Top.at
    BY <1>4, <2>1, <2>2
  <2>4. ~Covered(Top.win, Top.at, c) /\ ~(visible[Top.at] /\ c \in Cells(Top.at))
    BY <1>6, <2>3 DEF Standing
  <2>5. m # i - 1
    BY <2>1, <2>3, <2>4
  <2>6. ASSUME NEW j \in 1..m PROVE s[j] # Top.at
    <3>1. j \in 1..Len(s) /\ i - 1 \in 1..Len(s) /\ j # i - 1
      BY <1>3, <2>2, <2>5
    <3> QED BY <1>3, <2>3, <3>1
  <2>7. Ahead(s, Top.at, y)
    BY <1>3, <2>1, <2>6 DEF Ahead
  <2> QED BY <2>4, <2>7, CoveredAhead DEF s
<1> QED BY <1>5, <1>6

LEMMA LastKid ==
  ASSUME IInv, Shape, stack # <<>>, ~drawn, \A ch \in Windows : ~NextChild(Top, ch)
  PROVE  \A c : Standing(c) /\ c \in Top.open => ~Covered(Top.win, None, c)
<1> DEFINE s == children[Top.win]
<1>1. Top.win \in live
  BY StackTyped DEF Shape
<1>2. Lists(s, Kids(Top.win))
  BY <1>1 DEF IInv, ChildrenListed
<1>3. /\ s \in Seq(Windows) /\ DOMAIN s = 1..Len(s) /\ Len(s) \in Nat
      /\ \A i \in 1..Len(s) : s[i] \in Windows
  BY <1>2 DEF Lists
<1>4. \A i \in 1..Len(s) : ~(IF Top.at = None THEN i = 1 ELSE i > 1 /\ s[i - 1] = Top.at)
  BY <1>3 DEF NextChild
<1> HIDE DEF s
<1>5. ASSUME NEW c, Standing(c), c \in Top.open PROVE ~Covered(Top.win, None, c)
  <2> SUFFICES ASSUME NEW y, Ahead(s, None, y), visible[y], c \in Cells(y) PROVE FALSE
    BY CoveredAhead DEF s
  <2>1. PICK i \in 1..Len(s) : s[i] = y
    BY <1>3 DEF Ahead
  <2>2. Top.at # None
    <3>1. 1 \in 1..Len(s)
      BY <1>3, <2>1
    <3> QED BY <1>4, <3>1
  <2>3. ~Covered(Top.win, Top.at, c) /\ ~(visible[Top.at] /\ c \in Cells(Top.at))
    BY <1>5, <2>2 DEF Standing
  <2>4. ASSUME NEW j \in 1..i PROVE s[j] # Top.at
    <3> SUFFICES ASSUME s[j] = Top.at PROVE FALSE
      OBVIOUS
    <3>1. j # i
      BY <2>1, <2>3
    <3>2. j + 1 \in 1..Len(s) /\ j + 1 > 1 /\ (j + 1) - 1 = j
      BY <1>3, <3>1
    <3> QED BY <1>4, <2>2, <3>2
  <2>5. Ahead(s, Top.at, y)
    BY <1>3, <2>1, <2>4 DEF Ahead
  <2> QED BY <2>3, <2>5, CoveredAhead DEF s
<1> QED BY <1>5

LEMMA TopIs ==
  ASSUME IInv, stack # <<>>, NEW ch \in Windows
  PROVE  /\ Len(stack) \in DOMAIN stack /\ Top = stack[Len(stack)]
         /\ Top \in Frame /\ Moved(Top, ch) \in Frame
         /\ Moved(Top, ch).win = Top.win /\ Moved(Top, ch).at = ch
         /\ Moved(Top, ch).area = Top.area /\ Moved(Top, ch).open = Top.open
BY StackTyped, TopType DEF Moved, Frame

(* The loop goes on to child ch: the frame of the parent stands at it.     *)
LEMMA SkipStack ==
  ASSUME IInv, SkipChild
  PROVE  \E ch \in Windows :
           /\ NextChild(Top, ch) /\ ~Visits(Top, ch)
           /\ Len(stack') = Len(stack) /\ DOMAIN stack' = DOMAIN stack /\ stack' # <<>>
           /\ Top' = stack'[Len(stack)] /\ Top'.at = ch
           /\ \A i \in DOMAIN stack :
                /\ stack'[i].win = stack[i].win
                /\ stack'[i].area = stack[i].area /\ stack'[i].open = stack[i].open
                /\ i # Len(stack) => stack'[i].at = stack[i].at
<1>1. PICK ch \in Windows :
        /\ NextChild(Top, ch) /\ ~Visits(Top, ch)
        /\ stack' = Append(Front(stack), Moved(Top, ch))
  BY DEF SkipChild
<1>2. stack # <<>>
  BY DEF SkipChild
<1>3. /\ Len(stack) \in DOMAIN stack /\ Top = stack[Len(stack)] /\ Moved(Top, ch) \in Frame
      /\ Moved(Top, ch).win = Top.win /\ Moved(Top, ch).at = ch
      /\ Moved(Top, ch).area = Top.area /\ Moved(Top, ch).open = Top.open
  BY <1>2, TopIs
<1>4. /\ stack \in Seq(Frame) /\ Len(stack) \in Nat /\ DOMAIN stack = 1..Len(stack)
  BY StackTyped
<1>5. /\ Len(stack') = Len(stack) /\ DOMAIN stack' = 1..Len(stack) /\ stack' # <<>>
      /\ Last(stack') = Moved(Top, ch) /\ stack'[Len(stack)] = Moved(Top, ch)
      /\ \A i \in 1..Len(stack) - 1 : stack'[i] = stack[i]
  <2> DEFINE x == Moved(Top, ch)
  <2>1. x \in Frame /\ stack \in Seq(Frame) /\ stack # <<>> /\ stack' = Append(Front(stack), x)
    BY <1>1, <1>2, <1>3, <1>4
  <2> HIDE DEF x
  <2>2. Retops(stack, x, stack')
    BY ONLY <2>1, Retopped
  <2> QED BY <2>2 DEF x, Retops
<1>6. ASSUME NEW i \in DOMAIN stack
      PROVE  /\ stack'[i].win = stack[i].win
             /\ stack'[i].area = stack[i].area /\ stack'[i].open = stack[i].open
             /\ i # Len(stack) => stack'[i].at = stack[i].at
  <2>1. i = Len(stack) \/ i \in 1..Len(stack) - 1
    BY <1>4
  <2> QED BY <1>3, <1>5, <2>1
<1>7. Top' = stack'[Len(stack)] /\ Top'.at = ch
  BY <1>3, <1>5 DEF Top
<1> QED BY <1>1, <1>4, <1>5, <1>6, <1>7

LEMMA RightSkip ==
  ASSUME IInv, ScreenInv, SkipChild
  PROVE  Shape' /\ \A c \in Grid : Settled(c)' => CellRight(c)'
<1>1. PICK ch \in Windows :
        /\ NextChild(Top, ch) /\ ~Visits(Top, ch)
        /\ Len(stack') = Len(stack) /\ DOMAIN stack' = DOMAIN stack /\ stack' # <<>>
        /\ Top' = stack'[Len(stack)] /\ Top'.at = ch
        /\ \A i \in DOMAIN stack :
             /\ stack'[i].win = stack[i].win
             /\ stack'[i].area = stack[i].area /\ stack'[i].open = stack[i].open
             /\ i # Len(stack) => stack'[i].at = stack[i].at
  BY SkipStack
<1>2. /\ stack # <<>> /\ ~drawn
      /\ UNCHANGED <<tree, damages, phase, todo, drawn, rb, screen>>
      /\ UNCHANGED <<live, parent, visible, rect>>
  BY DEF SkipChild, term, tree
<1>3. /\ Len(stack) \in Nat /\ DOMAIN stack = 1..Len(stack) /\ Len(stack) \in DOMAIN stack
      /\ Top = stack[Len(stack)] /\ 1 \in DOMAIN stack
      /\ \A i \in 1..Len(stack) - 1 : i \in DOMAIN stack /\ i + 1 \in DOMAIN stack /\ i # Len(stack)
  <2>1. /\ Len(stack) \in Nat /\ DOMAIN stack = 1..Len(stack) /\ Len(stack) \in DOMAIN stack
        /\ Top = stack[Len(stack)]
    BY <1>2, StackTyped
  <2>2. \A n \in Nat : n \in 1..n => 1 \in 1..n /\ \A i \in 1..n - 1 : i \in 1..n /\ i + 1 \in 1..n /\ i # n
    OBVIOUS
  <2> QED BY ONLY <2>1, <2>2
<1>4. Shape /\ Shape'
  <2>1. Shape
    BY DEF ScreenInv
  <2>2. ch \in live /\ parent[ch] = Top.win
    BY <1>1, <1>2, <2>1, NextKid
  <2>3. Top'.win = Top.win
    BY <1>1, <1>3
  <2>4. /\ \A i \in DOMAIN stack' : stack'[i].win \in live' /\ stack'[i].open \subseteq stack'[i].area
        /\ stack'[1].win = Root
    BY <1>1, <1>2, <1>3, <2>1 DEF Shape
  <2>5. \A i \in 1..Len(stack') - 1 :
          parent'[stack'[i + 1].win] = stack'[i].win /\ stack'[i].at = stack'[i + 1].win
    BY <1>1, <1>2, <1>3, <2>1 DEF Shape
  <2> QED BY <1>1, <1>2, <2>1, <2>2, <2>3, <2>4, <2>5 DEF Shape
<1>5. ASSUME NEW c \in Grid, Settled(c)' PROVE CellRight(c)'
  <2>1. CellRight(c)
    BY <1>2, <1>5, OwedSame DEF Settled, RootCells, ScreenInv
  <2>2. /\ \A x : Cells(x)' = Cells(x)
        /\ \A x : Reached(x, c) <=> Reached(x, c)'
        /\ \A a, u : Covered(a, u, c) <=> Covered(a, u, c)'
        /\ Painted(c) <=> Painted(c)'
    BY <1>2, TreeSame DEF Painted
  <2>3. Unpainted(c)' /\ Repainted(c)'
    <3>1. OnView(screen[c], c) <=> OnView(screen[c], c)'
      BY <1>2, TreeSame
    <3> QED BY <1>1, <1>2, <1>3, <2>1, <2>2, <3>1 DEF CellRight, Unpainted, Repainted
  <2>4. OpenReached(c)' /\ Passed(c)'
    BY <1>1, <1>3, <2>1, <2>2 DEF CellRight, OpenReached, Passed
  <2>5. Standing(c)'
    <3> SUFFICES ASSUME c \in Top.open
                 PROVE  ~Covered(Top.win, ch, c) /\ ~(visible[ch] /\ c \in Cells(ch))
      <4>1. Top'.win = Top.win /\ Top'.open = Top.open
        BY <1>1, <1>3
      <4> QED BY <1>1, <1>2, <2>2, <4>1 DEF Standing
    <3>1. ~Covered(Top.win, ch, c)
      BY <1>1, <1>2, <1>4, <2>1, NextKid DEF CellRight
    <3>2. c \in Top.area
      BY <1>3, <1>4 DEF Shape
    <3> QED BY <1>1, <3>1, <3>2 DEF Visits
  <2>6. Filled(c)'
    BY <1>2 DEF Filled
  <2> QED BY <2>3, <2>4, <2>5, <2>6 DEF CellRight
<1> QED BY <1>4, <1>5

(* A call for the child is put on top. *)
LEMMA EnterStack ==
  ASSUME IInv, EnterChild
  PROVE  \E ch \in Windows :
           /\ NextChild(Top, ch) /\ Visits(Top, ch)
           /\ Len(stack') = Len(stack) + 1 /\ stack' # <<>>
           /\ DOMAIN stack' = 1..Len(stack) + 1
           /\ Top' = stack'[Len(stack) + 1]
           /\ stack'[Len(stack) + 1].win = ch /\ stack'[Len(stack) + 1].at = None
           /\ stack'[Len(stack) + 1].area = Top.area \cap Cells(ch)
           /\ stack'[Len(stack) + 1].open = Top.open \cap Cells(ch)
           /\ stack'[Len(stack)].at = ch
           /\ \A i \in DOMAIN stack :
                /\ stack'[i].win = stack[i].win
                /\ stack'[i].area = stack[i].area /\ stack'[i].open = stack[i].open
                /\ i # Len(stack) => stack'[i].at = stack[i].at
<1>1. PICK ch \in Windows :
        /\ NextChild(Top, ch) /\ Visits(Top, ch)
        /\ stack' = Append(Append(Front(stack), Moved(Top, ch)),
             [win |-> ch, at |-> None,
              area |-> Top.area \cap Cells(ch), open |-> Top.open \cap Cells(ch)])
  BY DEF EnterChild
<1>2. stack # <<>>
  BY DEF EnterChild
<1>3. /\ Len(stack) \in DOMAIN stack /\ Top = stack[Len(stack)] /\ Moved(Top, ch) \in Frame
      /\ Moved(Top, ch).win = Top.win /\ Moved(Top, ch).at = ch
      /\ Moved(Top, ch).area = Top.area /\ Moved(Top, ch).open = Top.open
  BY <1>2, TopIs
<1>4. /\ stack \in Seq(Frame) /\ Len(stack) \in Nat /\ DOMAIN stack = 1..Len(stack)
  BY StackTyped
<1> DEFINE x == Moved(Top, ch)
           s == Append(Front(stack), x)
           y == [win |-> ch, at |-> None,
                 area |-> Top.area \cap Cells(ch), open |-> Top.open \cap Cells(ch)]
<1>5. s \in Seq(Frame) /\ Retops(stack, x, s)
  <2>1. x \in Frame /\ stack \in Seq(Frame) /\ stack # <<>>
    BY <1>2, <1>3, <1>4
  <2> HIDE DEF x
  <2> QED BY ONLY <2>1, Retopped
<1>6. stack' = Append(s, y)
  BY <1>1
<1>7. /\ y.win = ch /\ y.at = None
      /\ y.area = Top.area \cap Cells(ch) /\ y.open = Top.open \cap Cells(ch)
  OBVIOUS
<1>8. x.win = Top.win /\ x.at = ch /\ x.area = Top.area /\ x.open = Top.open
  BY <1>3
<1> HIDE DEF x, y, s
<1>9. Len(s) = Len(stack) /\ s[Len(stack)] = x /\ \A i \in 1..Len(stack) - 1 : s[i] = stack[i]
  BY <1>5 DEF Retops
<1>10. /\ Len(stack') = Len(stack) + 1 /\ DOMAIN stack' = 1..Len(stack) + 1
       /\ stack'[Len(stack) + 1] = y
       /\ \A i \in 1..Len(stack) : stack'[i] = s[i]
  <2>1. Len(s) \in Nat /\ Len(s) = Len(stack)
    BY <1>4, <1>9
  <2> QED BY ONLY <1>5, <1>6, <2>1
<1>11. stack' # <<>> /\ Top' = stack'[Len(stack) + 1]
  <2>1. Last(stack') = stack'[Len(stack')]
    BY DEF Last
  <2>2. stack' # <<>>
    BY <1>4, <1>10
  <2> QED BY <1>10, <2>1, <2>2 DEF Top
<1>12. ASSUME NEW i \in DOMAIN stack
       PROVE  /\ stack'[i].win = stack[i].win
              /\ stack'[i].area = stack[i].area /\ stack'[i].open = stack[i].open
              /\ i # Len(stack) => stack'[i].at = stack[i].at
  <2>1. i = Len(stack) \/ i \in 1..Len(stack) - 1
    BY <1>4
  <2>2. i \in 1..Len(stack)
    BY <1>4
  <2> QED BY <1>3, <1>8, <1>9, <1>10, <2>1, <2>2
<1>13. stack'[Len(stack)].at = ch
  BY <1>3, <1>4, <1>8, <1>9, <1>10
<1> QED BY <1>1, <1>7, <1>10, <1>11, <1>12, <1>13

LEMMA RightEnter ==
  ASSUME IInv, ScreenInv, EnterChild
  PROVE  Shape' /\ \A c \in Grid : Settled(c)' => CellRight(c)'
<1>1. PICK ch \in Windows :
           /\ NextChild(Top, ch) /\ Visits(Top, ch)
           /\ Len(stack') = Len(stack) + 1 /\ stack' # <<>>
           /\ DOMAIN stack' = 1..Len(stack) + 1
           /\ Top' = stack'[Len(stack) + 1]
           /\ stack'[Len(stack) + 1].win = ch /\ stack'[Len(stack) + 1].at = None
           /\ stack'[Len(stack) + 1].area = Top.area \cap Cells(ch)
           /\ stack'[Len(stack) + 1].open = Top.open \cap Cells(ch)
           /\ stack'[Len(stack)].at = ch
           /\ \A i \in DOMAIN stack :
                /\ stack'[i].win = stack[i].win
                /\ stack'[i].area = stack[i].area /\ stack'[i].open = stack[i].open
                /\ i # Len(stack) => stack'[i].at = stack[i].at
  BY EnterStack
<1>2. /\ stack # <<>> /\ ~drawn
      /\ UNCHANGED <<tree, damages, phase, todo, drawn, rb, screen>>
      /\ UNCHANGED <<live, parent, visible, rect>>
  BY DEF EnterChild, term, tree
<1>3. /\ Len(stack) \in Nat /\ DOMAIN stack = 1..Len(stack) /\ Len(stack) \in DOMAIN stack
      /\ Top = stack[Len(stack)] /\ 1 \in DOMAIN stack
      /\ \A i \in 1..Len(stack) + 1 : i \in DOMAIN stack \/ i = Len(stack) + 1
      /\ \A i \in 1..Len(stack) :
           /\ i \in DOMAIN stack
           /\ \/ i = Len(stack)
              \/ i # Len(stack) /\ i \in 1..Len(stack) - 1 /\ i + 1 \in DOMAIN stack
  <2>1. /\ Len(stack) \in Nat /\ DOMAIN stack = 1..Len(stack) /\ Len(stack) \in DOMAIN stack
        /\ Top = stack[Len(stack)]
    BY <1>2, StackTyped
  <2>2. \A m \in Nat : m \in 1..m =>
          /\ 1 \in 1..m
          /\ \A i \in 1..m + 1 : i \in 1..m \/ i = m + 1
          /\ \A i \in 1..m : i = m \/ (i # m /\ i \in 1..m - 1 /\ i + 1 \in 1..m)
    OBVIOUS
  <2> QED BY ONLY <2>1, <2>2
<1>4. 1..Len(stack') - 1 = 1..Len(stack)
  <2>1. Len(stack) \in Nat /\ Len(stack') = Len(stack) + 1
    BY ONLY <1>1, <1>3, Zenon
  <2>2. \A m \in Nat : (m + 1) - 1 = m
    OBVIOUS
  <2> QED BY ONLY <2>1, <2>2
<1>5. Shape /\ ch \in live /\ parent[ch] = Top.win
  BY <1>1, <1>2, NextKid DEF ScreenInv
<1>6. Shape'
  <2>1. /\ \A i \in DOMAIN stack' : stack'[i].win \in live' /\ stack'[i].open \subseteq stack'[i].area
        /\ stack'[1].win = Root
    <3>1. \A i \in DOMAIN stack : stack'[i].win \in live' /\ stack'[i].open \subseteq stack'[i].area
      BY <1>1, <1>2, <1>5 DEF Shape
    <3>2. \A i : i = Len(stack) + 1 =>
            stack'[i].win \in live' /\ stack'[i].open \subseteq stack'[i].area
      <4>1. Top.open \subseteq Top.area
        BY <1>3, <1>5 DEF Shape
      <4> QED BY <1>1, <1>2, <1>5, <4>1
    <3>3. stack'[1].win = Root
      BY <1>1, <1>2, <1>3, <1>5 DEF Shape
    <3> QED BY <1>1, <1>3, <3>1, <3>2, <3>3
  <2>2. \A i \in 1..Len(stack') - 1 :
          parent'[stack'[i + 1].win] = stack'[i].win /\ stack'[i].at = stack'[i + 1].win
    <3> SUFFICES ASSUME NEW i \in 1..Len(stack)
                 PROVE  parent'[stack'[i + 1].win] = stack'[i].win
                        /\ stack'[i].at = stack'[i + 1].win
      BY <1>4
    <3>1. CASE i = Len(stack)
      BY <1>1, <1>2, <1>3, <1>5, <3>1
    <3>2. CASE i # Len(stack)
      BY <1>1, <1>2, <1>3, <1>5, <3>2 DEF Shape
    <3> QED BY <3>1, <3>2
  <2> QED BY <1>1, <2>1, <2>2 DEF Shape
<1>7. ASSUME NEW c \in Grid, Settled(c)' PROVE CellRight(c)'
  <2>1. CellRight(c)
    BY <1>2, <1>7, OwedSame DEF Settled, RootCells, ScreenInv
  <2>2. /\ \A x : Cells(x)' = Cells(x)
        /\ \A x : Reached(x, c) <=> Reached(x, c)'
        /\ \A a, u : Covered(a, u, c) <=> Covered(a, u, c)'
        /\ Painted(c) <=> Painted(c)'
    BY <1>2, TreeSame DEF Painted
  <2>3. Unpainted(c)' /\ Repainted(c)'
    <3>1. OnView(screen[c], c) <=> OnView(screen[c], c)'
      BY <1>2, TreeSame
    <3> QED BY <1>1, <1>2, <1>3, <2>1, <2>2, <3>1 DEF CellRight, Unpainted, Repainted
  <2>4. c \in Top.open => ~Covered(Top.win, ch, c)
    BY <1>1, <1>2, <1>5, <2>1, NextKid DEF CellRight
  <2>5. OpenReached(c)'
    <3>1. ASSUME c \in Top.open, c \in Cells(ch) PROVE Reached(ch, c)
      <4>1. Reached(Top.win, c)
        BY <1>3, <2>1, <3>1 DEF CellRight, OpenReached
      <4>2. Clear(ch, c)
        BY <1>1, <1>5, <2>4, <3>1 DEF Clear, Visits
      <4> QED BY <1>5, <4>1, <4>2, ReachedUp, ForestNow DEF ScreenInv
    <3> QED BY <1>1, <1>3, <2>1, <2>2, <3>1 DEF CellRight, OpenReached
  <2>6. Passed(c)'
    <3> SUFFICES ASSUME NEW k \in 1..Len(stack), c \in stack'[k].open
                 PROVE  /\ ~Covered(stack'[k].win, stack'[k].at, c)
                        /\ \/ c \in stack'[k + 1].open \/ c \notin Cells(stack'[k + 1].win)
                           \/ Painted(c)
      BY <1>4, <2>2 DEF Passed
    <3>1. CASE k = Len(stack)
      BY <1>1, <1>3, <2>4, <3>1
    <3>2. CASE k # Len(stack)
      BY <1>1, <1>3, <2>1, <3>2 DEF CellRight, Passed
    <3> QED BY <3>1, <3>2
  <2>7. Standing(c)' /\ Filled(c)'
    BY <1>1, <1>2 DEF Standing, Filled
  <2> QED BY <2>3, <2>5, <2>6, <2>7 DEF CellRight
<1> QED BY <1>6, <1>7

LEMMA RightDraw ==
  ASSUME IInv, ScreenInv, Draw
  PROVE  Shape' /\ \A c \in Grid : Settled(c)' => CellRight(c)'
<1>1. /\ stack # <<>> /\ ~drawn /\ drawn' = TRUE
      /\ \A ch \in Windows : ~NextChild(Top, ch)
      /\ rb' = [c \in Grid |-> IF c \in Top.open THEN Top.win ELSE rb[c]]
      /\ UNCHANGED <<tree, damages, phase, todo, stack, screen>>
      /\ UNCHANGED <<live, parent, visible, rect>>
  BY DEF Draw, term, tree
<1>2. /\ Len(stack) \in DOMAIN stack /\ Top = stack[Len(stack)] /\ Top' = Top
      /\ Top.win \in Windows
  BY <1>1, StackTyped DEF Top
<1>3. Shape /\ Shape'
  BY <1>1 DEF Shape, ScreenInv
<1>4. ASSUME NEW c \in Grid, Settled(c)' PROVE CellRight(c)'
  <2>1. CellRight(c)
    BY <1>1, <1>4, OwedSame DEF Settled, RootCells, ScreenInv
  <2>2. /\ \A x : Cells(x)' = Cells(x)
        /\ \A x : (Reached(x, c) <=> Reached(x, c)') /\ (OnView(x, c) <=> OnView(x, c)')
        /\ \A a, u : Covered(a, u, c) <=> Covered(a, u, c)'
    BY <1>1, TreeSame
  <2>3. ASSUME c \in Top.open PROVE rb'[c] = Top.win /\ Painted(c)'
    <3>1. rb'[c] = Top.win /\ Top.win # None
      BY <1>1, <1>2, <2>3
    <3>2. Reached(Top.win, c)
      BY <1>2, <2>1, <2>3 DEF CellRight, OpenReached
    <3>3. ~Covered(Top.win, None, c)
      BY <1>1, <1>3, <2>1, <2>3, LastKid DEF CellRight
    <3>4. OnView(Top.win, c)
      BY <1>2, <3>2, <3>3 DEF OnView
    <3>5. OnView(rb[c], c)'
      BY <2>2, <3>1, <3>4
    <3> QED BY <3>1, <3>5 DEF Painted
  <2>4. Painted(c) => Painted(c)'
    <3>1. c \notin Top.open => rb'[c] = rb[c]
      BY <1>1
    <3> QED BY <1>1, <2>2, <2>3, <3>1 DEF Painted
  <2>5. Unpainted(c)' /\ Repainted(c)'
    BY <1>1, <2>1, <2>2, <2>4 DEF CellRight, Unpainted, Repainted
  <2>6. OpenReached(c)' /\ Passed(c)'
    BY <1>1, <2>1, <2>2, <2>4 DEF CellRight, OpenReached, Passed
  <2>7. Standing(c)' /\ Filled(c)'
    BY <1>1, <1>2, <2>3 DEF Standing, Filled
  <2> QED BY <2>5, <2>6, <2>7 DEF CellRight
<1> QED BY <1>3, <1>4

(* The call for a child returns: its parent masks what the child covers. *)
LEMMA ReturnsTo ==
  ASSUME IInv, Return, Len(stack) # 1
  PROVE  \E n \in Nat :
           /\ n >= 1 /\ Len(stack) = n + 1 /\ stack # <<>>
           /\ Len(stack') = n /\ DOMAIN stack' = 1..n /\ stack' # <<>>
           /\ Top' = stack'[n]
           /\ \A i \in 1..n : /\ stack'[i].win = stack[i].win /\ stack'[i].at = stack[i].at
                               /\ stack'[i].area = stack[i].area
           /\ \A i \in 1..n - 1 : stack'[i].open = stack[i].open
           /\ stack'[n].open = stack[n].open \ Cells(stack[n].at)
<1> DEFINE n == Len(stack) - 1
           below == Front(stack)
           f == Last(below)
<1>1. stack # <<>>
  BY DEF Return, IInv, Nested
<1>2. stack \in Seq(Frame) /\ Len(stack) \in Nat
  BY StackTyped
<1>3. n \in Nat /\ n >= 1 /\ Len(stack) = n + 1
  <2>1. Len(stack) # 0
    BY <1>1, <1>2
  <2>2. \A m \in Nat : m # 0 /\ m # 1 => m - 1 \in Nat /\ m - 1 >= 1 /\ m = (m - 1) + 1
    OBVIOUS
  <2> QED BY ONLY <1>2, <2>1, <2>2, Len(stack) # 1
<1>4. stack' = Append(Front(below), Masked(f))
  BY DEF Return
<1>5. below \in Seq(Frame) /\ Len(below) = n /\ \A i \in 1..n : below[i] = stack[i]
  BY <1>1, <1>2, FrontLast, FrontAt
<1> HIDE DEF n, below
<1>6. below # <<>>
  BY <1>3, <1>5
<1>7. f = below[n] /\ f = stack[n]
  BY <1>3, <1>5, <1>6 DEF Last
<1>8. f \in Frame
  BY <1>5, <1>6, FrontLast
<1>9. /\ Masked(f) \in Frame /\ Masked(f).win = f.win /\ Masked(f).at = f.at
      /\ Masked(f).area = f.area /\ Masked(f).open = f.open \ Cells(f.at)
  BY <1>8 DEF Masked, Frame
<1>10. Retops(below, Masked(f), stack')
  BY ONLY <1>4, <1>5, <1>6, <1>9, Retopped
<1>11. /\ Len(stack') = n /\ DOMAIN stack' = 1..n /\ stack' # <<>>
       /\ Last(stack') = Masked(f) /\ stack'[n] = Masked(f)
       /\ \A i \in 1..n - 1 : stack'[i] = below[i]
  BY <1>5, <1>10 DEF Retops
<1> HIDE DEF f
<1>12. \A i \in 1..n - 1 : i \in 1..n
  BY <1>3
<1>13. \A i \in 1..n : i = n \/ i \in 1..n - 1
  BY <1>3
<1>14. Top' = stack'[n]
  BY <1>11 DEF Top
<1>15. \A i \in 1..n : /\ stack'[i].win = stack[i].win /\ stack'[i].at = stack[i].at
                       /\ stack'[i].area = stack[i].area
  BY <1>5, <1>7, <1>9, <1>11, <1>13
<1>16. \A i \in 1..n - 1 : stack'[i].open = stack[i].open
  BY <1>5, <1>11, <1>12
<1>17. stack'[n].open = stack[n].open \ Cells(stack[n].at)
  BY <1>7, <1>9, <1>11
<1> QED BY <1>1, <1>3, <1>11, <1>14, <1>15, <1>16, <1>17

LEMMA RightReturn ==
  ASSUME IInv, ScreenInv, Return
  PROVE  Shape' /\ \A c \in Grid : Settled(c)' => CellRight(c)'
<1>1. /\ drawn /\ drawn' = FALSE /\ stack # <<>>
      /\ UNCHANGED <<tree, damages, phase, todo, rb, screen>>
      /\ UNCHANGED <<live, parent, visible, rect>>
  BY DEF Return, term, tree, IInv, Nested
<1>2. Shape
  BY DEF ScreenInv
<1>3. Top = stack[Len(stack)] /\ DOMAIN stack = 1..Len(stack)
  BY <1>1, StackTyped
<1>4. ASSUME NEW c \in Grid, Settled(c)'
      PROVE  /\ CellRight(c)
             /\ \A x : Cells(x)' = Cells(x)
             /\ \A x : Reached(x, c) <=> Reached(x, c)'
             /\ \A a, u : Covered(a, u, c) <=> Covered(a, u, c)'
             /\ Painted(c) <=> Painted(c)'
             /\ OnView(screen[c], c) <=> OnView(screen[c], c)'
  <2>1. CellRight(c)
    BY <1>1, <1>4, OwedSame DEF Settled, RootCells, ScreenInv
  <2>2. Painted(c) <=> Painted(c)'
    BY <1>1, TreeSame DEF Painted
  <2>3. OnView(screen[c], c) <=> OnView(screen[c], c)'
    BY <1>1, TreeSame
  <2> QED BY <1>1, <2>1, <2>2, <2>3, TreeSame
<1>5. CASE Len(stack) = 1
  <2>1. stack' = <<>> /\ DOMAIN stack' = {} /\ 1..Len(stack') - 1 = {}
    BY <1>5 DEF Return
  <2>2. Shape'
    BY <2>1 DEF Shape
  <2>3. ASSUME NEW c \in Grid, Settled(c)' PROVE CellRight(c)'
    <3>1. Unpainted(c)' /\ Repainted(c)'
      BY <1>1, <1>3, <1>4, <1>5, <2>3 DEF CellRight, Unpainted, Repainted, Filled
    <3>2. OpenReached(c)' /\ Passed(c)' /\ Standing(c)' /\ Filled(c)'
      BY <1>1, <2>1 DEF OpenReached, Passed, Standing, Filled
    <3> QED BY <3>1, <3>2 DEF CellRight
  <2> QED BY <2>2, <2>3
<1>6. CASE Len(stack) # 1
  <2>1. PICK n \in Nat :
           /\ n >= 1 /\ Len(stack) = n + 1
           /\ Len(stack') = n /\ DOMAIN stack' = 1..n /\ stack' # <<>>
           /\ Top' = stack'[n]
           /\ \A i \in 1..n : /\ stack'[i].win = stack[i].win /\ stack'[i].at = stack[i].at
                               /\ stack'[i].area = stack[i].area
           /\ \A i \in 1..n - 1 : stack'[i].open = stack[i].open
           /\ stack'[n].open = stack[n].open \ Cells(stack[n].at)
    BY <1>6, ReturnsTo
  <2>2. /\ DOMAIN stack = 1..n + 1 /\ 1..Len(stack) - 1 = 1..n /\ Top = stack[n + 1]
        /\ 1 \in 1..n /\ n \in 1..n /\ n + 1 \in 1..n + 1 /\ 1 \in 1..n + 1
        /\ \A i \in 1..n : i \in 1..n + 1 /\ i + 1 \in 1..n + 1
        /\ \A i \in 1..n : i = n \/ (i \in 1..n - 1 /\ i + 1 \in 1..n)
        /\ \A i \in 1..n - 1 : i \in 1..n /\ i + 1 \in 1..n /\ i # n
    BY ONLY <1>3, <2>1
  <2>3. /\ \A i \in 1..n + 1 : stack[i].win \in live /\ stack[i].open \subseteq stack[i].area
        /\ stack[1].win = Root
        /\ \A i \in 1..n : /\ parent[stack[i + 1].win] = stack[i].win
                            /\ stack[i].at = stack[i + 1].win
    BY <1>1, <1>2, <2>2 DEF Shape
  <2>4. \A i \in 1..n : stack'[i].open \subseteq stack[i].open
    BY <2>1, <2>2
  <2>5. Shape'
    <3>1. /\ \A i \in 1..n : stack'[i].win \in live /\ stack'[i].open \subseteq stack'[i].area
          /\ stack'[1].win = Root
      <4>1. ASSUME NEW i \in 1..n PROVE stack'[i].open \subseteq stack'[i].area
        BY <2>1, <2>2, <2>3, <2>4
      <4> QED BY <2>1, <2>2, <2>3, <4>1
    <3>2. \A i \in 1..n - 1 : /\ parent[stack'[i + 1].win] = stack'[i].win
                              /\ stack'[i].at = stack'[i + 1].win
      BY <2>1, <2>2, <2>3
    <3>3. Top'.at \in live /\ parent[Top'.at] = Top'.win
      BY <2>1, <2>2, <2>3
    <3> QED BY <1>1, <2>1, <3>1, <3>2, <3>3 DEF Shape
  <2>6. ASSUME NEW c \in Grid, Settled(c)' PROVE CellRight(c)'
    <3>0. CellRight(c)
      BY <1>4, <2>6
    <3>1. \A k \in 1..n : c \in stack[k].open =>
            /\ ~Covered(stack[k].win, stack[k].at, c)
            /\ c \in stack[k + 1].open \/ c \notin Cells(stack[k + 1].win) \/ Painted(c)
      BY <2>2, <3>0 DEF CellRight, Passed
    <3>2. c \in stack[n].open /\ c \in Cells(stack[n].at) => Painted(c)
      BY <1>1, <2>2, <2>3, <3>0, <3>1 DEF CellRight, Filled
    <3>3. Unpainted(c)' /\ Repainted(c)'
      <4>1. c \in stack[1].open => c \in stack'[1].open \/ Painted(c)
        BY <2>1, <2>2, <3>2
      <4> QED BY <1>1, <1>4, <2>1, <2>6, <3>0, <4>1 DEF CellRight, Unpainted, Repainted
    <3>4. OpenReached(c)'
      <4>1. ASSUME NEW k \in 1..n, c \in stack'[k].open PROVE Reached(stack'[k].win, c)
        <5>1. k \in DOMAIN stack /\ c \in stack[k].open
          BY <2>2, <2>4, <4>1
        <5>2. stack'[k].win = stack[k].win
          BY <2>1
        <5> QED BY <3>0, <5>1, <5>2 DEF CellRight, OpenReached
      <4> QED BY <1>4, <2>1, <2>6, <4>1 DEF OpenReached
    <3>5. Passed(c)'
      <4> SUFFICES ASSUME NEW k \in 1..n - 1, c \in stack'[k].open
                   PROVE  /\ ~Covered(stack'[k].win, stack'[k].at, c)
                          /\ \/ c \in stack'[k + 1].open \/ c \notin Cells(stack'[k + 1].win)
                             \/ Painted(c)
        BY <1>4, <2>1, <2>6 DEF Passed
      <4>1. c \in stack[k].open /\ k \in 1..n /\ k + 1 \in 1..n
        BY <2>1, <2>2
      <4>2. c \in stack[k + 1].open => c \in stack'[k + 1].open \/ Painted(c)
        BY <2>1, <2>2, <3>2, <4>1
      <4> QED BY <2>1, <3>1, <4>1, <4>2
    <3>6. Standing(c)' /\ Filled(c)'
      <4>1. c \in Top'.open => ~Covered(Top'.win, Top'.at, c) /\ c \notin Cells(Top'.at)
        BY <2>1, <2>2, <3>1
      <4> QED BY <1>1, <1>4, <2>6, <4>1 DEF Standing, Filled
    <3> QED BY <3>3, <3>4, <3>5, <3>6 DEF CellRight
  <2> QED BY <2>5, <2>6
<1> QED BY <1>5, <1>6

LEMMA RightEnd ==
  ASSUME IInv, ScreenInv, EndPaint
  PROVE  Shape' /\ \A c \in Grid : Settled(c)' => CellRight(c)'
<1>1. /\ phase = "paint" /\ stack = <<>> /\ todo = <<>> /\ phase' = "idle"
      /\ screen' = [c \in Grid |-> IF rb[c] = None THEN screen[c] ELSE rb[c]]
      /\ UNCHANGED <<tree, damages, stack, drawn>>
  BY DEF EndPaint, Sent
<1>2. stack' = <<>> /\ ~drawn'
  BY <1>1 DEF IInv, Nested
<1>3. Shape'
  BY <1>2 DEF Shape
<1>4. ASSUME NEW c \in Grid, Settled(c)' PROVE CellRight(c)'
  <2>1. Painted(c)
    <3>1. CellsOf(todo) = {}
      BY <1>1 DEF CellsOf
    <3> QED BY <1>1, <1>4, <3>1, OwedSame DEF Settled, RootCells, tree, ScreenInv, CellRight,
                                        Repainted
  <2>2. OnView(screen'[c], c)
    BY <1>1, <2>1 DEF Painted
  <2>3. \A x : OnView(x, c) <=> OnView(x, c)'
    BY <1>1, TreeSame
  <2>4. Unpainted(c)' /\ Repainted(c)'
    BY <1>1, <2>2, <2>3 DEF Unpainted, Repainted
  <2>5. OpenReached(c)' /\ Passed(c)' /\ Standing(c)' /\ Filled(c)'
    <3>1. DOMAIN stack' = {} /\ 1..Len(stack') - 1 = {}
      BY <1>2
    <3> QED BY <1>2, <3>1 DEF OpenReached, Passed, Standing, Filled
  <2> QED BY <2>4, <2>5 DEF CellRight
<1> QED BY <1>3, <1>4

-----------------------------------------------------------------------------
(* The calls: between flushes none of _do_expose is under way, and in one  *)
(* the innermost has drawn.                                                *)

LEMMA CallRight ==
  ASSUME IInv, TypeOK', ScreenInv, Ranked', StackStays,
         \A c \in Grid : Settled(c)' => Settled(c) /\ KeepsAt(c),
         UNCHANGED <<flush, rb, screen>>, stack = <<>> \/ drawn
  PROVE  Shape' /\ \A c \in Grid : Settled(c)' => CellRight(c)'
<1>1. Forest /\ Forest' /\ Shape
  BY ForestNow DEF Forest, TypeOK, ScreenInv
<1>2. UNCHANGED <<stack, drawn>>
  BY DEF flush
<1>3. Shape'
  BY <1>1, <1>2, ShapeStays
<1>4. ASSUME NEW c \in Grid, Settled(c)' PROVE CellRight(c)'
  <2>1. KeepsAt(c) /\ CellRight(c)
    BY <1>4 DEF ScreenInv
  <2>2. rb' = rb /\ screen' = screen /\ UNCHANGED flush
    OBVIOUS
  <2> QED BY <1>1, <2>1, <2>2, CellStays
<1> QED BY <1>3, <1>4

LEMMA Calls ==
  ASSUME IInv, NEW w, CanCall(w)
  PROVE  stack = <<>> \/ drawn
BY DEF CanCall, IInv, Nested

LEMMA RightTree ==
  ASSUME IInv, TypeOK', ScreenInv, Ranked', NEW w \in Windows,
         \/ \E p \in Under[w], r \in Places[w], hidden, lowest \in BOOLEAN :
              New(w, p, r, hidden, lowest)
         \/ Destroy(w) \/ Show(w) \/ Hide(w)
  PROVE  Shape' /\ \A c \in Grid : Settled(c)' => CellRight(c)'
<1>0. Shape
  BY DEF ScreenInv
<1>1. CASE \E p \in Under[w], r \in Places[w], hidden, lowest \in BOOLEAN :
             New(w, p, r, hidden, lowest)
  <2>1. PICK p \in Under[w], r \in Places[w], hidden \in BOOLEAN, lowest \in BOOLEAN :
          New(w, p, r, hidden, lowest)
    BY <1>1
  <2>2. StackStays /\ \A c \in Grid : Settled(c)' => Settled(c) /\ KeepsAt(c)
    BY <1>0, <2>1, KeepsNew
  <2>3. UNCHANGED <<flush, rb, screen>> /\ (stack = <<>> \/ drawn)
    BY <2>1, Calls DEF New, term
  <2> QED BY <2>2, <2>3, CallRight
<1>2. CASE Destroy(w)
  <2>1. StackStays /\ \A c \in Grid : Settled(c)' => Settled(c) /\ KeepsAt(c)
    BY <1>0, <1>2, KeepsDestroy
  <2>2. UNCHANGED <<flush, rb, screen>> /\ (stack = <<>> \/ drawn)
    BY <1>2, Calls DEF Destroy, term
  <2> QED BY <2>1, <2>2, CallRight
<1>3. CASE Show(w)
  <2>1. StackStays /\ \A c \in Grid : Settled(c)' => Settled(c) /\ KeepsAt(c)
    BY <1>0, <1>3, KeepsShow
  <2>2. UNCHANGED <<flush, rb, screen>> /\ (stack = <<>> \/ drawn)
    BY <1>3, Calls DEF Show, term
  <2> QED BY <2>1, <2>2, CallRight
<1>4. CASE Hide(w)
  <2>1. StackStays /\ \A c \in Grid : Settled(c)' => Settled(c) /\ KeepsAt(c)
    BY <1>0, <1>4, KeepsHide
  <2>2. UNCHANGED <<flush, rb, screen>> /\ (stack = <<>> \/ drawn)
    BY <1>4, Calls DEF Hide, term
  <2> QED BY <2>1, <2>2, CallRight
<1> QED BY <1>1, <1>2, <1>3, <1>4

LEMMA RightApply ==
  ASSUME IInv, TypeOK', ScreenInv, Ranked', ApplyChange
  PROVE  Shape' /\ \A c \in Grid : Settled(c)' => CellRight(c)'
<1>1. StackStays /\ \A c \in Grid : Settled(c)' => Settled(c) /\ KeepsAt(c)
  BY KeepsApply DEF ScreenInv
<1>2. UNCHANGED <<flush, rb, screen>> /\ stack = <<>>
  BY DEF ApplyChange, term, IInv, Nested
<1> QED BY <1>1, <1>2, CallRight

(* A window on view that has something new to show is damaged there. *)
LEMMA RightUpdate ==
  ASSUME IInv, TypeOK', ScreenInv, Ranked', NEW w \in Windows, Update(w)
  PROVE  Shape' /\ \A c \in Grid : Settled(c)' => CellRight(c)'
<1>1. /\ UNCHANGED <<live, parent, children, visible, rect>> /\ UNCHANGED <<flush, tree>>
      /\ rb' = Outdate(rb, w) /\ screen' = Outdate(screen, w)
      /\ OwesAt(w, Cells(w))
      /\ stack = <<>> \/ drawn
  BY Calls, UpdateOwes DEF Update, tree
<1>2. Forest /\ Forest' /\ Shape /\ StackStays
  BY <1>1, TreeStands, StackStands DEF ScreenInv
<1>3. Shape'
  BY <1>1, <1>2, ShapeStays DEF flush
<1>4. ASSUME NEW c \in Grid, Settled(c)' PROVE CellRight(c)'
  <2>1. CellRight(c) /\ c \notin Owed'
    BY <1>1, <1>4 DEF Settled, RootCells, ScreenInv, OwesAt
  <2>2. KeepsAt(c)
    <3> SUFFICES ASSUME NEW a \in Windows, Reached(a, c)
                 PROVE  /\ a \in live' /\ parent'[a] = parent[a] /\ visible'[a] /\ c \in Cells(a)'
                        /\ \A u : Matters(u, c) /\ ~Covered(a, u, c) => ~Covered(a, u, c)'
      BY DEF KeepsAt
    <3>1. a \in live /\ visible[a] /\ c \in Cells(a)
      BY <1>2, ClearNow DEF Clear
    <3> QED BY <1>1, <3>1, TreeSame
  <2>3. ~OnView(w, c)
    <3> SUFFICES ASSUME OnView(w, c) PROVE FALSE
      OBVIOUS
    <3>1. Reached(w, c) /\ c \in Cells(w)
      BY <1>2, ClearNow DEF OnView, Clear
    <3> QED BY <1>1, <2>1, <3>1, ReachedUnclipped DEF OwesAt
  <2>4. /\ OnView(screen[c], c) => screen'[c] = screen[c]
        /\ OnView(rb[c], c) => rb'[c] = rb[c]
        /\ rb[c] = None => rb'[c] = None
    BY <1>1, <2>3 DEF Outdate
  <2> QED BY <1>1, <1>2, <2>1, <2>2, <2>4, CellStays
<1> QED BY <1>3, <1>4

LEMMA RightResize ==
  ASSUME IInv, TypeOK', ScreenInv, Ranked', NEW r \in Sizes, Resize(r)
  PROVE  Shape' /\ \A c \in Grid : Settled(c)' => CellRight(c)'
<1>1. /\ UNCHANGED <<flush, rb>>
      /\ screen' = [c \in Grid |->
           IF c \in RootCells \cap CellsIn(r) THEN screen[c] ELSE Old]
      /\ stack = <<>> /\ DOMAIN stack = {}
  BY DEF Resize, IInv, Nested
<1>2. Forest /\ Forest' /\ Shape
  BY ForestNow DEF Forest, TypeOK, ScreenInv
<1>3. StackStays
  BY <1>1 DEF StackStays, OnStack
<1>4. Shape'
  BY <1>1, <1>2, <1>3, ShapeStays DEF flush
<1>5. ASSUME NEW c \in Grid, Settled(c)' PROVE CellRight(c)'
  <2>1. Settled(c) /\ KeepsAt(c) /\ c \in CellsIn(r)
    BY <1>5, KeepsResize DEF ScreenInv
  <2>2. screen'[c] = screen[c] /\ rb'[c] = rb[c] /\ CellRight(c)
    BY <1>1, <2>1 DEF Settled, ScreenInv
  <2> QED BY <1>1, <1>2, <1>3, <2>1, <2>2, CellStays
<1> QED BY <1>4, <1>5

-----------------------------------------------------------------------------
LEMMA InitScreen == Init => ScreenInv
<1> SUFFICES ASSUME Init PROVE ScreenInv
  OBVIOUS
<1>3. Shape
  BY DEF Init, Shape
<1>4. \A c : ~Settled(c)
  <2>1. damage = <<rect[Root]>> /\ CellsOf(<<rect[Root]>>) = CellsIn(rect[Root])
    BY DEF Init, CellsOf
  <2> QED BY <2>1 DEF Settled, Owed, RootCells
<1> QED BY <1>3, <1>4 DEF ScreenInv

LEMMA NextScreen == IInv /\ ScreenInv /\ [Next]_vars => ScreenInv'
<1> SUFFICES ASSUME IInv, ScreenInv, [Next]_vars PROVE ScreenInv'
  OBVIOUS
<1>1. TypeOK' /\ Ranked'
  BY NextIInv DEF IInv
<1>2. Shape' /\ \A c \in Grid : Settled(c)' => CellRight(c)'
  <2>1. CASE /\ UNCHANGED <<tree, damages, todo, stack, drawn, rb, screen>>
             /\ phase' = "paint" <=> phase = "paint"
    BY <2>1, CellSame DEF ScreenInv
  <2>2. CASE Flush
    <3>1. CASE FlushBegin
      BY <2>1, <3>1 DEF FlushBegin, term
    <3>2. CASE NoPaint
      BY <2>1, <3>2 DEF NoPaint
    <3> QED BY <1>1, <2>2, <3>1, <3>2, RightApply, RightStart, RightBegin, RightSkip,
            RightEnter, RightDraw, RightReturn, RightEnd DEF Flush
  <2>3. CASE Call
    <3>1. PICK w \in Windows :
            \/ \E p \in Under[w], r \in Places[w], hidden, lowest \in BOOLEAN :
                 New(w, p, r, hidden, lowest)
            \/ Destroy(w) \/ Show(w) \/ Hide(w) \/ Update(w) \/ TakeFocus(w)
            \/ \E kind \in Kinds : Restack(kind, w)
            \/ \E c \in Cursor : SetCursor(w, c)
      BY <2>3, Zenon DEF Call
    <3>2. CASE TakeFocus(w)
      BY <2>1, <3>2 DEF TakeFocus, flush, term
    <3>3. CASE \E kind \in Kinds : Restack(kind, w)
      BY <2>1, <3>3 DEF Restack, flush, term
    <3>4. CASE \E c \in Cursor : SetCursor(w, c)
      BY <2>1, <3>4 DEF SetCursor, flush, term
    <3>5. CASE Update(w)
      BY <1>1, <3>5, RightUpdate
    <3> QED BY <1>1, <3>1, <3>2, <3>3, <3>4, <3>5, RightTree
  <2>4. CASE \E r \in Sizes : Resize(r)
    BY <1>1, <2>4, RightResize
  <2>5. CASE UNCHANGED vars
    BY <2>1, <2>5 DEF vars, flush, term
  <2> QED BY <2>2, <2>3, <2>4, <2>5 DEF Next
<1> QED BY <1>1, <1>2 DEF ScreenInv

(* Between flushes, once no damage waits and the root shows, each cell of  *)
(* the terminal shows what the window on view there has now, but for the   *)
(* cells the rectangle set of root->damage has dropped: whatever was       *)
(* created, destroyed, shown, hidden, restacked or resized, and whichever  *)
(* of these the EXPOSE handlers did in the middle of a flush, what         *)
(* tickit_window_expose (window.c:396) is called with and clips, and       *)
(* tickit_rectset_add keeps, is all that _do_expose (window.c:454) has to  *)
(* paint again.                                                            *)
THEOREM ScreenIsCurrent == Spec => []ScreenCurrent
<1>1. IInv /\ ScreenInv => ScreenCurrent
  <2> SUFFICES ASSUME IInv, ScreenInv, phase = "idle", damage = <<>>, visible[Root],
                      NEW c \in RootCells \ lost
               PROVE  screen[c] # Old /\ Shown(screen[c], c)
    BY DEF ScreenCurrent
  <2>1. c \in Grid
    BY RootOnGrid DEF IInv
  <2>2. Unpainted(c)
    <3>1. CellsOf(damage) = {}
      BY DEF CellsOf
    <3> QED BY <2>1, <3>1 DEF Settled, Owed, ScreenInv, CellRight
  <2>3. OnView(screen[c], c)
    BY <2>2 DEF Unpainted
  <2> QED BY <2>3, ViewShows
<1> QED BY <1>1, InitScreen, NextScreen, IInvariant, PTL DEF Spec

-----------------------------------------------------------------------------
(* The third part is about the cursor: CursorCurrent.  Where _do_restore   *)
(* puts it is settled by the chain of focused children and by the windows  *)
(* from its end up to the root, with their children.                       *)

DownOf(vis, fc, w) ==
  LET down[x \in Windows] ==
        IF vis[x] /\ fc[x] # None THEN down[fc[x]] ELSE x
  IN  down[w]

LEMMA DownUnfolds ==
  ASSUME NEW vis, NEW fc \in [Windows -> Windows \cup {None}],
         NEW rank, Ranks(rank, Windows, None, fc), NEW w \in Windows
  PROVE  /\ DownOf(vis, fc, w) =
              IF vis[w] /\ fc[w] # None THEN DownOf(vis, fc, fc[w]) ELSE w
         /\ DownOf(vis, fc, w) \in Windows
<1> DEFINE Body(f) == [x \in Windows |-> IF vis[x] /\ fc[x] # None THEN f[fc[x]] ELSE x]
           base == [x \in Windows |-> x]
           step == [xd \in Windows \X Windows |-> IF vis[xd[1]] THEN xd[2] ELSE xd[1]]
           down == CHOOSE f : f = Body(f)
<1>1. base \in [Windows -> Windows] /\ step \in [Windows \X Windows -> Windows]
  OBVIOUS
<1>2. PICK g \in [Windows -> Windows] :
        \A x \in Windows : g[x] = IF fc[x] = None THEN base[x] ELSE step[<<x, g[fc[x]]>>]
  <2>1. None \notin Windows
    OBVIOUS
  <2>2. TreeDefines(Windows, None, fc, Windows, base, step)
    <3> HIDE DEF base, step
    <3> QED BY <1>1, <2>1, TreeRecursion, Zenon
  <2> HIDE DEF base, step
  <2> QED BY <2>2 DEF TreeDefines
<1>3. g = Body(g)
  <2>1. ASSUME NEW x \in Windows PROVE g[x] = Body(g)[x]
    <3>1. fc[x] # None => g[fc[x]] \in Windows
      OBVIOUS
    <3>2. fc[x] # None => step[<<x, g[fc[x]]>>] = IF vis[x] THEN g[fc[x]] ELSE x
      BY <3>1
    <3> QED BY <1>2, <3>2
  <2> QED BY <1>2, <2>1
<1>4. down = Body(down)
  <2> HIDE DEF Body
  <2> QED BY <1>3
<1>5. \A x : DownOf(vis, fc, x) = down[x]
  BY Zenon DEF DownOf
<1> HIDE DEF down
<1>6. ASSUME NEW x \in Windows
      PROVE  down[x] = IF vis[x] /\ fc[x] # None THEN down[fc[x]] ELSE x
  BY <1>4
<1> DEFINE in == {x \in Windows : down[x] \in Windows}
<1>7. \A x \in Windows : (fc[x] # None => fc[x] \in in) => x \in in
  BY <1>6
<1>8. \A x \in Windows : x \in in
  <2> HIDE DEF in
  <2> QED BY <1>7, TreeInduction
<1> QED BY <1>5, <1>6, <1>8

(* A chain of focused children leads down the tree, whose depth is bounded. *)
FreeUnfocused == \A x \in Windows \ live : focusedChild[x] = None

Chained ==
  /\ focusedChild \in [Windows -> Windows \cup {None}]
  /\ \E rank : Ranks(rank, Windows, None, focusedChild)

Down(x) == DownOf(visible, focusedChild, x)

LEMMA ChainedNow ==
  ASSUME IInv, FreeUnfocused
  PROVE  Chained
<1>1. PICK rank : /\ Ranks(rank, Windows, None, parent)
                  /\ \E n \in Nat : \A x \in Windows : rank[x] <= n
  BY DEF IInv, Ranked
<1>2. PICK n \in Nat : \A x \in Windows : rank[x] <= n
  BY <1>1
<1>3. rank \in [Windows -> Nat]
      /\ \A x \in Windows : parent[x] # None => rank[parent[x]] < rank[x]
  BY <1>1 DEF Ranks
<1>4. /\ focusedChild \in [Windows -> Windows \cup {None}]
      /\ \A x \in Windows : focusedChild[x] # None => parent[focusedChild[x]] = x
  BY DEF IInv, TypeOK, FocusPathVisible, FreeUnfocused
<1> DEFINE height == [x \in Windows |-> n - rank[x]]
<1>5. \A x \in Windows : rank[x] \in Nat /\ rank[x] <= n /\ n - rank[x] \in Nat
  <2> SUFFICES ASSUME NEW x \in Windows PROVE rank[x] \in Nat /\ rank[x] <= n /\ n - rank[x] \in Nat
    OBVIOUS
  <2>1. rank[x] \in Nat /\ rank[x] <= n
    BY <1>2, <1>3
  <2> QED BY <2>1
<1>6. height \in [Windows -> Nat]
  BY <1>5
<1>7. ASSUME NEW x \in Windows, focusedChild[x] # None
      PROVE  height[focusedChild[x]] < height[x]
  <2>1. PICK y \in Windows : y = focusedChild[x]
    BY <1>4, <1>7
  <2>2. parent[y] = x /\ x # None
    BY <1>4, <1>7, <2>1
  <2>3. rank[x] < rank[y]
    BY <1>3, <2>2
  <2>4. height[y] = n - rank[y] /\ height[x] = n - rank[x]
    OBVIOUS
  <2>5. PICK i \in Nat, j \in Nat : i = rank[x] /\ j = rank[y]
    BY <1>5
  <2>6. n - j < n - i
    BY <2>3, <2>5
  <2> QED BY <2>1, <2>4, <2>5, <2>6
<1>8. Ranks(height, Windows, None, focusedChild)
  <2> HIDE DEF height
  <2> QED BY <1>6, <1>7 DEF Ranks
<1> QED BY <1>4, <1>8 DEF Chained

ChainedWhen == IInv /\ FreeUnfocused => Chained

LEMMA ChainedWhenAlways == ChainedWhen
BY ChainedNow DEF ChainedWhen

LEMMA ChainedNext == ChainedWhen'
BY ChainedWhenAlways, PTL

LEMMA DownIs ==
  ASSUME Chained
  PROVE  /\ FocusEnd = Down(Root)
         /\ \A x \in Windows :
              /\ Down(x) = IF visible[x] /\ focusedChild[x] # None
                           THEN Down(focusedChild[x]) ELSE x
              /\ Down(x) \in Windows
<1>1. FocusEnd = Down(Root)
  BY Zenon DEF FocusEnd, Down, DownOf
<1>2. PICK rank : Ranks(rank, Windows, None, focusedChild)
  BY DEF Chained
<1>3. focusedChild \in [Windows -> Windows \cup {None}]
  BY DEF Chained
<1>4. \A x \in Windows :
        /\ DownOf(visible, focusedChild, x) =
             IF visible[x] /\ focusedChild[x] # None
             THEN DownOf(visible, focusedChild, focusedChild[x]) ELSE x
        /\ DownOf(visible, focusedChild, x) \in Windows
  BY <1>2, <1>3, DownUnfolds
<1> QED BY <1>1, <1>4, Zenon DEF Down

DownWhen == Chained =>
  /\ FocusEnd = Down(Root)
  /\ \A x \in Windows :
       /\ Down(x) = IF visible[x] /\ focusedChild[x] # None
                    THEN Down(focusedChild[x]) ELSE x
       /\ Down(x) \in Windows

LEMMA DownWhenAlways == DownWhen
BY DownIs DEF DownWhen

LEMMA DownNext == DownWhen'
BY DownWhenAlways, PTL

(* x and the windows above it are allocated and show. *)
InSight(x) == \A a \in Lineage(x) : a \in live /\ visible[a]

LEMMA LineageClosed ==
  ASSUME Forest, NEW z \in Windows
  PROVE  \A y \in Lineage(z) :
           /\ y \in Windows /\ Lineage(y) \subseteq Lineage(z)
           /\ parent[y] # None => parent[y] \in Lineage(z)
<1> DEFINE in == {x \in Windows : \A y \in Lineage(x) : Lineage(y) \subseteq Lineage(x)}
<1>0. parent \in [Windows -> Windows \cup {None}]
  BY DEF Forest
<1>1. ASSUME NEW x \in Windows, parent[x] # None => parent[x] \in in PROVE x \in in
  <2>1. Lineage(x) = {x} \cup (IF parent[x] = None THEN {} ELSE Lineage(parent[x]))
    BY Upward
  <2> QED BY <1>1, <2>1
<1>2. \A x \in Windows : x \in in
  <2> HIDE DEF in
  <2> QED BY <1>1, Downward
<1>3. ASSUME NEW y \in Lineage(z)
      PROVE  y \in Windows /\ Lineage(y) \subseteq Lineage(z)
             /\ (parent[y] # None => parent[y] \in Lineage(z))
  <2>1. y \in Windows /\ Lineage(y) \subseteq Lineage(z)
    BY <1>2, Upward
  <2>2. /\ Lineage(y) = {y} \cup (IF parent[y] = None THEN {} ELSE Lineage(parent[y]))
        /\ parent[y] # None => parent[y] \in Lineage(parent[y])
    <3>1. \A q \in Windows : q \in Lineage(q)
      <4> SUFFICES ASSUME NEW q \in Windows PROVE q \in Lineage(q)
        OBVIOUS
      <4>1. Lineage(q) = {q} \cup (IF parent[q] = None THEN {} ELSE Lineage(parent[q]))
        BY Upward
      <4> QED BY ONLY <4>1
    <3> QED BY <1>0, <2>1, <3>1, Upward
  <2> QED BY <2>1, <2>2
<1> QED BY <1>3

LEMMA SightUp ==
  ASSUME IInv, Forest
  PROVE  \A x \in Windows :
           /\ x \in Lineage(x)
           /\ InSight(x) <=> x \in live /\ visible[x] /\ (parent[x] # None => InSight(parent[x]))
           /\ InSight(x) => Root \in Lineage(x)
<1>0. parent \in [Windows -> Windows \cup {None}]
  BY DEF Forest
<1>1. ASSUME NEW x \in Windows
      PROVE  Lineage(x) = {x} \cup (IF parent[x] = None THEN {} ELSE Lineage(parent[x]))
  BY Upward
<1>2. \A x \in Windows : InSight(x) <=>
        x \in live /\ visible[x] /\ (parent[x] # None => InSight(parent[x]))
  <2> SUFFICES ASSUME NEW x \in Windows
      PROVE InSight(x) <=> x \in live /\ visible[x] /\ (parent[x] # None => InSight(parent[x]))
    OBVIOUS
  <2>1. Lineage(x) = {x} \cup (IF parent[x] = None THEN {} ELSE Lineage(parent[x]))
    BY <1>1
  <2> QED BY ONLY <2>1 DEF InSight
<1> DEFINE in == {x \in Windows : InSight(x) => Root \in Lineage(x)}
<1>3. ASSUME NEW x \in Windows, parent[x] # None => parent[x] \in in PROVE x \in in
  BY <1>1, <1>2, <1>3 DEF IInv, OneRoot
<1>4. \A x \in Windows : x \in in
  <2> HIDE DEF in
  <2> QED BY <1>3, Downward
<1> QED BY <1>1, <1>2, <1>4

(* The chain from the root ends at a window in sight that lies under each  *)
(* window of the chain.                                                    *)
LEMMA ChainInSight ==
  ASSUME IInv, Forest, Chained
  PROVE  \A x \in Windows : InSight(x) =>
           Down(x) \in Windows /\ InSight(Down(x)) /\ x \in Lineage(Down(x))
<1> DEFINE in == {x \in Windows : InSight(x) =>
                    Down(x) \in Windows /\ InSight(Down(x)) /\ x \in Lineage(Down(x))}
<1>1. PICK rank : Ranks(rank, Windows, None, focusedChild)
  BY DEF Chained
<1>2. focusedChild \in [Windows -> Windows \cup {None}]
  BY DEF Chained
<1>3. ASSUME NEW x \in Windows, focusedChild[x] # None => focusedChild[x] \in in PROVE x \in in
  <2> SUFFICES ASSUME InSight(x)
               PROVE  Down(x) \in Windows /\ InSight(Down(x)) /\ x \in Lineage(Down(x))
    OBVIOUS
  <2>1. x \in live /\ visible[x] /\ x \in Lineage(x)
    BY SightUp
  <2>2. CASE focusedChild[x] = None
    <3>1. Down(x) = x
      BY <2>2, DownIs
    <3> QED BY <2>1, <3>1
  <2>3. CASE focusedChild[x] # None
    <3>1. PICK y \in Windows : y = focusedChild[x]
      BY <1>2, <2>3
    <3>2. y \in live /\ visible[y] /\ parent[y] = x
      BY <2>1, <2>3, <3>1 DEF IInv, FocusPathVisible
    <3>3. InSight(y)
      BY <3>2, SightUp
    <3>4. Down(y) \in Windows /\ InSight(Down(y)) /\ y \in Lineage(Down(y))
      BY <1>3, <2>3, <3>1, <3>3
    <3>5. Down(x) = Down(y)
      BY <2>1, <2>3, <3>1, DownIs
    <3>6. x \in Lineage(Down(y))
      <4>1. parent[y] # None
        BY <3>2
      <4> HIDE DEF in
      <4> QED BY <3>2, <3>4, <4>1, LineageClosed
    <3> QED BY <3>4, <3>5, <3>6
  <2> QED BY <2>2, <2>3
<1>4. \A x \in Windows : x \in in
  <2> HIDE DEF in
  <2> QED BY <1>1, <1>2, <1>3, TreeInduction
<1> QED BY <1>4

LEMMA EndInSight ==
  ASSUME IInv, Forest, Chained, visible[Root]
  PROVE  /\ FocusEnd \in Windows /\ InSight(FocusEnd) /\ Root \in Lineage(FocusEnd)
         /\ \A a \in Lineage(FocusEnd) : a \in Windows /\ a \in live /\ InSight(a)
<1>1. InSight(Root)
  BY SightUp DEF IInv, TypeOK
<1>2. FocusEnd \in Windows /\ InSight(FocusEnd) /\ Root \in Lineage(FocusEnd)
  BY <1>1, ChainInSight, DownIs
<1>3. PICK e \in Windows : e = FocusEnd
  BY <1>2
<1>4. \A a \in Lineage(e) : a \in Windows /\ a \in live /\ InSight(a)
  <2>1. \A a \in Lineage(e) : a \in Windows /\ Lineage(a) \subseteq Lineage(e)
    BY LineageClosed
  <2> QED BY <1>2, <1>3, <2>1 DEF InSight
<1> QED BY <1>2, <1>3, <1>4

(* The chain ends where it did when the windows above its end keep their   *)
(* links.                                                                  *)
LEMMA EndStays ==
  ASSUME IInv, Forest, Chained, Chained', visible[Root],
         \A a \in Lineage(FocusEnd) : focusedChild'[a] = focusedChild[a] /\ visible'[a] = visible[a]
  PROVE  FocusEnd' = FocusEnd
<1> DEFINE keeps(z) == \A a \in Lineage(z) :
             focusedChild'[a] = focusedChild[a] /\ visible'[a] = visible[a]
           in == {x \in Windows : InSight(x) /\ keeps(Down(x)) => Down(x)' = Down(x)}
<1>1. PICK rank : Ranks(rank, Windows, None, focusedChild)
  BY DEF Chained
<1>2. focusedChild \in [Windows -> Windows \cup {None}]
  BY DEF Chained
<1>3. /\ FocusEnd' = Down(Root)'
      /\ \A x \in Windows :
           Down(x)' = IF visible'[x] /\ focusedChild'[x] # None
                      THEN DownOf(visible', focusedChild', focusedChild'[x]) ELSE x
  BY DownNext DEF DownWhen, Down
<1>4. \A x : Down(x)' = DownOf(visible', focusedChild', x)
  BY DEF Down
<1>5. ASSUME NEW x \in Windows, focusedChild[x] # None => focusedChild[x] \in in PROVE x \in in
  <2> SUFFICES ASSUME InSight(x), keeps(Down(x)) PROVE Down(x)' = Down(x)
    OBVIOUS
  <2>1. x \in live /\ visible[x] /\ x \in Lineage(Down(x))
    BY ChainInSight, SightUp
  <2>2. focusedChild'[x] = focusedChild[x] /\ visible'[x] = visible[x]
    BY <2>1
  <2>3. CASE focusedChild[x] = None
    <3>1. Down(x) = x
      BY <2>3, DownIs
    <3>2. Down(x)' = x
      BY <1>3, <2>2, <2>3
    <3> QED BY <3>1, <3>2
  <2>4. CASE focusedChild[x] # None
    <3>1. PICK y \in Windows : y = focusedChild[x]
      BY <1>2, <2>4
    <3>2. y \in live /\ visible[y] /\ parent[y] = x
      BY <2>1, <2>4, <3>1 DEF IInv, FocusPathVisible
    <3>3. InSight(y)
      BY <3>2, SightUp
    <3>4. Down(x) = Down(y)
      BY <2>1, <2>4, <3>1, DownIs
    <3>5. y \in in /\ keeps(Down(y))
      BY <1>5, <2>4, <3>1, <3>4
    <3>6. DownOf(visible', focusedChild', y) = Down(y)
      BY <1>4, <3>3, <3>5
    <3>7. Down(x)' = DownOf(visible', focusedChild', y)
      <4>1. visible'[x] /\ focusedChild'[x] # None /\ focusedChild'[x] = y
        BY <2>1, <2>2, <2>4, <3>1
      <4> HIDE DEF in, keeps
      <4> QED BY <1>3, <4>1
    <3> QED BY <3>4, <3>6, <3>7
  <2> QED BY <2>3, <2>4
<1>6. \A x \in Windows : x \in in
  <2> HIDE DEF in
  <2> QED BY <1>1, <1>2, <1>5, TreeInduction
<1>7. Root \in Windows /\ InSight(Root) /\ FocusEnd = Down(Root)
  BY SightUp, DownIs DEF IInv, TypeOK
<1>8. keeps(Down(Root))
  BY <1>7
<1>9. Down(Root)' = Down(Root)
  <2>1. Root \in in
    BY <1>6, <1>7
  <2> QED BY <1>7, <1>8, <2>1
<1> QED BY <1>3, <1>7, <1>9

-----------------------------------------------------------------------------
(* Restoring the cursor once more could put it where it is. *)
CursorRight == \E prev \in Windows \cup {None} : termCursor = RestoredCursor(FocusEnd, prev)

(* It is right and stays so when a step leaves alone the windows from the  *)
(* end of the chain up, with their children.                               *)
Near(x) == x \in Lineage(FocusEnd) \/ (x \in live /\ parent[x] \in Lineage(FocusEnd))

LEMMA CursorStays ==
  ASSUME IInv, Forest, Forest', Chained, Chained', visible[Root], CursorRight,
         \A a \in Lineage(FocusEnd) :
           focusedChild'[a] = focusedChild[a] /\ children'[a] = children[a],
         \A x \in Windows : Near(x) =>
           parent'[x] = parent[x] /\ rect'[x] = rect[x] /\ visible'[x] = visible[x],
         isFocused'[FocusEnd] = isFocused[FocusEnd],
         isFocused[FocusEnd] => cursor'[FocusEnd] = cursor[FocusEnd],
         termCursor' = termCursor
  PROVE  CursorRight'
<1>1. PICK e \in Windows : e = FocusEnd
  BY EndInSight
<1>2. \A a \in Lineage(e) : a \in Windows /\ a \in live /\ Near(a)
  BY <1>1, EndInSight DEF Near
<1>3. FocusEnd' = e
  <2>1. \A a \in Lineage(FocusEnd) : focusedChild'[a] = focusedChild[a] /\ visible'[a] = visible[a]
    BY <1>1, <1>2
  <2> QED BY <1>1, <2>1, EndStays
<1> DEFINE K == {x \in Windows : Near(x)}
<1>4. K \in SUBSET Windows /\ \A x \in K :
        /\ parent'[x] = parent[x] /\ rect'[x] = rect[x]
        /\ parent[x] # None => parent[x] \in K
  <2>1. \A y \in Lineage(e) : parent[y] # None => parent[y] \in Lineage(e)
    BY LineageClosed
  <2> QED BY <1>1, <1>2, <2>1 DEF Near
<1>5. \A x \in K : Lineage(x)' = Lineage(x) /\ AbsRect(x)' = AbsRect(x) /\ Cells(x)' = Cells(x)
  <2> HIDE DEF K
  <2> QED BY <1>4, Unmoved
<1>6. \A a \in Lineage(e) : \A i \in DOMAIN children[a] : children[a][i] \in K
  <2>1. ASSUME NEW a \in Lineage(e) PROVE \A i \in DOMAIN children[a] : children[a][i] \in K
    <3>1. Lists(children[a], Kids(a)) /\ live \subseteq Windows
      BY <1>2 DEF IInv, TypeOK, ChildrenListed
    <3>2. \A y \in Kids(a) : y \in K
      BY <1>1, <3>1 DEF Kids, Near
    <3> HIDE DEF K
    <3> QED BY <3>1, <3>2 DEF Lists
  <2> QED BY <2>1
<1>7. \A a \in Lineage(e) : \A u, c : Covered(a, u, c)' <=> Covered(a, u, c)
  <2> SUFFICES ASSUME NEW a \in Lineage(e), NEW u, NEW c
               PROVE Covered(a, u, c)' <=> Covered(a, u, c)
    OBVIOUS
  <2>1. children'[a] = children[a]
    BY <1>1
  <2>2. \A i \in DOMAIN children[a] :
          /\ visible'[children[a][i]] = visible[children[a][i]]
          /\ c \in Cells(children[a][i])' <=> c \in Cells(children[a][i])
    <3>1. \A x \in K : visible'[x] = visible[x] /\ Cells(x)' = Cells(x)
      BY <1>5
    <3>2. ASSUME NEW i \in DOMAIN children[a]
          PROVE  /\ visible'[children[a][i]] = visible[children[a][i]]
                 /\ c \in Cells(children[a][i])' <=> c \in Cells(children[a][i])
      <4>1. PICK x : x = children[a][i]
        OBVIOUS
      <4>2. x \in K
        BY <1>6, <4>1
      <4>3. visible'[x] = visible[x] /\ Cells(x)' = Cells(x)
        BY <3>1, <4>2
      <4>4. children'[a][i] = x
        BY <2>1, <4>1
      <4> QED BY <4>1, <4>3, <4>4
    <3> QED BY <3>2
  <2> QED BY <2>1, <2>2 DEF Covered
<1>8. RootCells' = RootCells
  <2>1. Root \in Lineage(e) /\ Root \in Windows
    BY <1>1, EndInSight DEF IInv, TypeOK
  <2>2. rect'[Root] = rect[Root]
    BY <1>2, <2>1
  <2> QED BY <2>2 DEF RootCells
<1>9. e \in Lineage(e) /\ e \in K
  BY <1>1, <1>2, SightUp
<1>10. \A c, prev : CellVisible(e, c, prev)' <=> CellVisible(e, c, prev)
  <2> SUFFICES ASSUME NEW c, NEW prev
               PROVE CellVisible(e, c, prev)' <=> CellVisible(e, c, prev)
    OBVIOUS
  <2>1. Lineage(e)' = Lineage(e)
    BY <1>5, <1>9
  <2>2. \A a \in Lineage(e) :
          /\ parent'[a] = parent[a] /\ Cells(a)' = Cells(a)
          /\ parent[a] # None => (Covered(parent[a], a, c)' <=> Covered(parent[a], a, c))
    <3>1. ASSUME NEW a \in Lineage(e)
          PROVE  /\ parent'[a] = parent[a] /\ Cells(a)' = Cells(a)
                 /\ parent[a] # None => (Covered(parent[a], a, c)' <=> Covered(parent[a], a, c))
      <4>1. parent'[a] = parent[a] /\ Cells(a)' = Cells(a)
        BY <1>2, <1>4, <1>5
      <4>2. parent[a] # None => parent[a] \in Lineage(e)
        BY LineageClosed
      <4>3. ASSUME NEW q, q = parent[a], q # None
            PROVE  Covered(q, a, c)' <=> Covered(q, a, c)
        BY <1>7, <4>2, <4>3
      <4> QED BY <4>1, <4>3
    <3> QED BY <3>1
  <2>3. Covered(e, prev, c)' <=> Covered(e, prev, c)
    BY <1>7, <1>9
  <2> HIDE DEF K
  <2> QED BY ONLY <1>8, <2>1, <2>2, <2>3 DEF CellVisible
<1>11. /\ isFocused'[e] = isFocused[e]
       /\ isFocused[e] => cursor'[e] = cursor[e] /\ CursorCell(e)' = CursorCell(e)
  <2>1. AbsRect(e)' = AbsRect(e)
    BY <1>5, <1>9
  <2> QED BY <1>1, <2>1 DEF CursorCell
<1>12. \A prev : RestoredCursor(e, prev)' = RestoredCursor(e, prev)
  <2> SUFFICES ASSUME NEW prev PROVE RestoredCursor(e, prev)' = RestoredCursor(e, prev)
    OBVIOUS
  <2>1. CASE ~isFocused[e]
    BY <1>11, <2>1 DEF RestoredCursor
  <2>2. CASE isFocused[e]
    <3>1. PICK c : c = CursorCell(e)
      OBVIOUS
    <3>2. CursorCell(e)' = c /\ cursor'[e] = cursor[e] /\ isFocused'[e]
      BY <1>11, <2>2, <3>1
    <3>3. CellVisible(e, c, prev)' <=> CellVisible(e, c, prev)
      BY <1>10
    <3>4. RestoredCursor(e, prev) = IF cursor[e].visible /\ CellVisible(e, c, prev) THEN c ELSE None
      BY <2>2, <3>1 DEF RestoredCursor
    <3>5. RestoredCursor(e, prev)' = IF cursor[e].visible /\ CellVisible(e, c, prev)' THEN c ELSE None
      <4>1. RestoredCursor(e, prev)' =
              IF isFocused'[e] /\ cursor'[e].visible /\ CellVisible(e, CursorCell(e), prev)'
              THEN CursorCell(e)' ELSE None
        BY DEF RestoredCursor
      <4>2. CellVisible(e, CursorCell(e), prev)' <=> CellVisible(e, c, prev)'
        BY <3>2 DEF CellVisible
      <4> QED BY <3>2, <4>1, <4>2
    <3> QED BY <3>3, <3>4, <3>5
  <2> QED BY <2>1, <2>2
<1>13. PICK prev \in Windows \cup {None} : termCursor = RestoredCursor(e, prev)
  BY <1>1 DEF CursorRight
<1>14. termCursor' = RestoredCursor(e, prev)'
  BY <1>12, <1>13
<1>15. (\E z \in Windows \cup {None} : termCursor = RestoredCursor(FocusEnd, z))'
  <2>1. RestoredCursor(FocusEnd, prev)' = RestoredCursor(e, prev)'
    BY <1>3 DEF RestoredCursor, CursorCell, CellVisible
  <2> QED BY <1>14, <2>1
<1> QED BY <1>15 DEF CursorRight

-----------------------------------------------------------------------------
(* No window lies wholly outside the windows above it.                     *)
InView ==
  \A w \in live : Attached(w) => \E c \in RootCells : \A a \in Lineage(w) : c \in Cells(a)

(* What happens to a window right under the chain asks for a repaint.      *)
LEMMA Repaints ==
  ASSUME IInv, Forest, Chained, visible[Root], NEW p \in Lineage(FocusEnd),
         NEW cells, NEW c \in cells, \A a \in Lineage(p) : c \in Cells(a),
         OwesAt(p, cells)
  PROVE  needsExpose'
<1>1. InSight(p)
  BY EndInSight
<1>2. Unclipped(p, c)
  BY <1>1 DEF InSight, Unclipped
<1> QED BY <1>2 DEF OwesAt

LEMMA ViewOf ==
  ASSUME IInv, Forest, Chained, visible[Root], InView,
         NEW w \in live, parent[w] \in Lineage(FocusEnd), OwesAt(parent[w], Cells(w))
  PROVE  needsExpose'
<1>1. PICK p : p = parent[w]
  OBVIOUS
<1>2. /\ w \in Windows /\ parent \in [Windows -> Windows \cup {None}]
      /\ p \in Windows /\ p \in live /\ InSight(p)
  BY <1>1, EndInSight DEF IInv, TypeOK
<1>3. Lineage(w) = {w} \cup Lineage(p)
  <2>1. Lineage(w) = {w} \cup (IF p = None THEN {} ELSE Lineage(p))
    BY <1>1, <1>2, Upward
  <2> QED BY <1>2, <2>1
<1>4. Attached(w)
  BY <1>1, <1>2, <1>3 DEF Attached, InSight
<1>5. PICK c \in RootCells : \A a \in Lineage(w) : c \in Cells(a)
  BY <1>4 DEF InView
<1>6. c \in Cells(w) /\ \A a \in Lineage(p) : c \in Cells(a)
  BY <1>3, <1>5
<1> QED BY <1>1, <1>6, Repaints

-----------------------------------------------------------------------------
(* Taking the focus. *)

GainsOf(vis, par, w) ==
  LET up[x \in Windows] ==
        {x} \cup (IF vis[x] /\ par[x] # None THEN up[par[x]] ELSE {})
  IN  up[w]

LosesOf(fc, w) ==
  LET down[x \in Windows] ==
        {x} \cup (IF fc[x] = None THEN {} ELSE down[fc[x]])
  IN  down[w]

LEMMA GainsUnfolds ==
  ASSUME NEW vis, NEW par \in [Windows -> Windows \cup {None}],
         NEW rank, Ranks(rank, Windows, None, par), NEW w \in Windows
  PROVE  GainsOf(vis, par, w) =
           {w} \cup (IF vis[w] /\ par[w] # None THEN GainsOf(vis, par, par[w]) ELSE {})
<1> DEFINE Body(f) == [x \in Windows |->
             {x} \cup (IF vis[x] /\ par[x] # None THEN f[par[x]] ELSE {})]
           base == [x \in Windows |-> {x}]
           step == [xd \in Windows \X SUBSET Windows |->
             {xd[1]} \cup (IF vis[xd[1]] THEN xd[2] ELSE {})]
           up == CHOOSE f : f = Body(f)
<1>1. base \in [Windows -> SUBSET Windows]
      /\ step \in [Windows \X SUBSET Windows -> SUBSET Windows]
  OBVIOUS
<1>2. PICK g \in [Windows -> SUBSET Windows] :
        \A x \in Windows : g[x] = IF par[x] = None THEN base[x] ELSE step[<<x, g[par[x]]>>]
  <2>1. None \notin Windows
    OBVIOUS
  <2>2. TreeDefines(Windows, None, par, SUBSET Windows, base, step)
    <3> HIDE DEF base, step
    <3> QED BY <1>1, <2>1, TreeRecursion, Zenon
  <2> HIDE DEF base, step
  <2> QED BY <2>2 DEF TreeDefines
<1>3. g = Body(g)
  <2>1. ASSUME NEW x \in Windows PROVE g[x] = Body(g)[x]
    <3>1. par[x] # None => g[par[x]] \in SUBSET Windows
      OBVIOUS
    <3>2. par[x] # None => step[<<x, g[par[x]]>>] = {x} \cup (IF vis[x] THEN g[par[x]] ELSE {})
      BY <3>1
    <3> QED BY <1>2, <3>2
  <2> QED BY <1>2, <2>1
<1>4. up = Body(up)
  <2> HIDE DEF Body
  <2> QED BY <1>3
<1>5. \A x : GainsOf(vis, par, x) = up[x]
  BY Zenon DEF GainsOf
<1> HIDE DEF up
<1>6. ASSUME NEW x \in Windows
      PROVE  up[x] = {x} \cup (IF vis[x] /\ par[x] # None THEN up[par[x]] ELSE {})
  BY <1>4
<1> QED BY <1>5, <1>6

LEMMA GainsUp ==
  ASSUME Forest
  PROVE  \A w \in Windows :
           /\ w \in Gains(w) /\ Gains(w) \subseteq Lineage(w)
           /\ \A a \in Gains(w) : visible[a] /\ parent[a] # None => parent[a] \in Gains(w)
<1>1. PICK rank : Ranks(rank, Windows, None, parent)
  BY DEF Forest, Ranked
<1>2. parent \in [Windows -> Windows \cup {None}]
  BY DEF Forest
<1>3. \A w : Gains(w) = GainsOf(visible, parent, w)
  BY Zenon DEF Gains, GainsOf
<1>4. ASSUME NEW w \in Windows
      PROVE  Gains(w) = {w} \cup (IF visible[w] /\ parent[w] # None THEN Gains(parent[w]) ELSE {})
  <2>1. GainsOf(visible, parent, w) =
          {w} \cup (IF visible[w] /\ parent[w] # None
                    THEN GainsOf(visible, parent, parent[w]) ELSE {})
    BY <1>1, <1>2, GainsUnfolds, Zenon
  <2>2. Gains(w) = GainsOf(visible, parent, w)
        /\ Gains(parent[w]) = GainsOf(visible, parent, parent[w])
    BY <1>3, Zenon
  <2> QED BY ONLY <2>1, <2>2
<1> DEFINE in == {w \in Windows :
             /\ Gains(w) \subseteq Lineage(w)
             /\ \A a \in Gains(w) : visible[a] /\ parent[a] # None => parent[a] \in Gains(w)}
<1>5. ASSUME NEW w \in Windows, parent[w] # None => parent[w] \in in PROVE w \in in
  <2>1. Lineage(w) = {w} \cup (IF parent[w] = None THEN {} ELSE Lineage(parent[w]))
    BY Upward
  <2>2. parent[w] # None => parent[w] \in Gains(parent[w])
    BY <1>2, <1>4
  <2>3. Gains(w) = {w} \cup (IF visible[w] /\ parent[w] # None THEN Gains(parent[w]) ELSE {})
    BY <1>4
  <2>4. CASE visible[w] /\ parent[w] # None
    <3>1. PICK q : q = parent[w]
      OBVIOUS
    <3>2. /\ Gains(q) \subseteq Lineage(q) /\ q \in Gains(q)
          /\ \A a \in Gains(q) : visible[a] /\ parent[a] # None => parent[a] \in Gains(q)
      BY <1>5, <2>2, <2>4, <3>1
    <3>3. Gains(w) = {w} \cup Gains(q) /\ Lineage(w) = {w} \cup Lineage(q)
      BY <2>1, <2>3, <2>4, <3>1
    <3> QED BY <3>1, <3>2, <3>3
  <2>5. CASE ~(visible[w] /\ parent[w] # None)
    <3>1. Gains(w) = {w} /\ w \in Lineage(w)
      BY <2>1, <2>3, <2>5
    <3> QED BY <2>5, <3>1
  <2> QED BY <2>4, <2>5
<1>6. \A w \in Windows : w \in in
  <2> HIDE DEF in
  <2> QED BY <1>5, Downward
<1> QED BY <1>4, <1>6

LEMMA LosesUnfolds ==
  ASSUME NEW fc \in [Windows -> Windows \cup {None}],
         NEW rank, Ranks(rank, Windows, None, fc), NEW w \in Windows
  PROVE  LosesOf(fc, w) = {w} \cup (IF fc[w] = None THEN {} ELSE LosesOf(fc, fc[w]))
<1>1. \A x : LosesOf(fc, x) = LineageOf(fc, x)
  BY Zenon DEF LosesOf, LineageOf
<1>2. LineageOf(fc, w) = {w} \cup (IF fc[w] = None THEN {} ELSE LineageOf(fc, fc[w]))
  BY LineageUp
<1> QED BY ONLY <1>1, <1>2, Zenon

(* The windows that lose the focus lie under the first of them. *)
LEMMA LosesBelow ==
  ASSUME IInv, Forest, Chained
  PROVE  \A x \in live : \A y \in Loses(x) : y \in Windows /\ x \in Lineage(y)
<1>1. PICK rank : Ranks(rank, Windows, None, focusedChild)
  BY DEF Chained
<1>2. focusedChild \in [Windows -> Windows \cup {None}] /\ live \subseteq Windows
  BY DEF Chained, IInv, TypeOK
<1>3. \A w : Loses(w) = LosesOf(focusedChild, w)
  BY Zenon DEF Loses, LosesOf
<1>4. ASSUME NEW x \in Windows
      PROVE  Loses(x) = {x} \cup (IF focusedChild[x] = None THEN {} ELSE Loses(focusedChild[x]))
  <2>1. LosesOf(focusedChild, x) =
          {x} \cup (IF focusedChild[x] = None THEN {} ELSE LosesOf(focusedChild, focusedChild[x]))
    BY <1>1, <1>2, LosesUnfolds, Zenon
  <2>2. Loses(x) = LosesOf(focusedChild, x)
        /\ Loses(focusedChild[x]) = LosesOf(focusedChild, focusedChild[x])
    BY <1>3, Zenon
  <2> QED BY ONLY <2>1, <2>2
<1> DEFINE in == {x \in Windows : x \in live => \A y \in Loses(x) : y \in Windows /\ x \in Lineage(y)}
<1>5. ASSUME NEW x \in Windows, focusedChild[x] # None => focusedChild[x] \in in PROVE x \in in
  <2> SUFFICES ASSUME x \in live, NEW y \in Loses(x) PROVE y \in Windows /\ x \in Lineage(y)
    OBVIOUS
  <2>1. CASE y = x
    BY <2>1, SightUp
  <2>2. CASE y # x
    <3>1. focusedChild[x] # None /\ y \in Loses(focusedChild[x])
      BY <1>4, <2>2
    <3>2. PICK z \in Windows : z = focusedChild[x]
      BY <1>2, <3>1
    <3>3. z \in live /\ parent[z] = x
      BY <3>1, <3>2 DEF IInv, FocusPathVisible
    <3>4. y \in Windows /\ z \in Lineage(y)
      BY <1>5, <3>1, <3>2, <3>3
    <3>5. parent[z] # None
      BY <3>3
    <3> HIDE DEF in
    <3> QED BY <3>3, <3>4, <3>5, LineageClosed
  <2> QED BY <2>1, <2>2
<1>6. \A x \in Windows : x \in in
  <2> HIDE DEF in
  <2> QED BY <1>1, <1>2, <1>5, TreeInduction
<1> QED BY <1>2, <1>6

(* A window in sight gains the focus only when the root does. *)
LEMMA RootGains ==
  ASSUME IInv, Forest, NEW w \in Windows, NEW x \in Gains(w), InSight(x)
  PROVE  Root \in Gains(w)
<1> DEFINE in == {y \in Windows : y \in Gains(w) /\ InSight(y) => Root \in Gains(w)}
<1>1. ASSUME NEW y \in Windows, parent[y] # None => parent[y] \in in PROVE y \in in
  <2> SUFFICES ASSUME y \in Gains(w), InSight(y) PROVE Root \in Gains(w)
    OBVIOUS
  <2>1. y \in live /\ visible[y] /\ (parent[y] # None => InSight(parent[y]))
    BY SightUp
  <2>2. parent[y] = None => y = Root
    BY <2>1 DEF IInv, OneRoot
  <2>3. parent[y] # None => parent[y] \in Gains(w)
    BY <2>1, GainsUp
  <2> QED BY <1>1, <2>1, <2>2, <2>3
<1>2. \A y \in Windows : y \in in
  <2> HIDE DEF in
  <2> QED BY <1>1, Downward
<1>3. x \in Windows
  BY GainsUp, Upward
<1> QED BY <1>2, <1>3

LEMMA CursorTake ==
  ASSUME IInv, Forest, Forest', Chained, Chained', visible[Root], CursorRight,
         NEW w \in Windows, TakeFocus(w), ~needsRestore'
  PROVE  CursorRight'
<1> DEFINE next(x, a) == a \in Gains(w) /\ visible[a] /\ parent[a] = x
<1>1. /\ UNCHANGED <<live, parent, children, visible, rect, cursor, termCursor>>
      /\ focusedChild' = [x \in Windows |->
           IF x = w THEN None
           ELSE IF \E a \in live : a \in Gains(w) /\ visible[a] /\ parent[a] = x
           THEN CHOOSE a \in live : a \in Gains(w) /\ visible[a] /\ parent[a] = x
           ELSE focusedChild[x]]
      /\ isFocused' = [x \in Windows |-> x = w \/ (isFocused[x] /\ x \notin Losers(w))]
      /\ Root \notin Gains(w)
      /\ w \in live /\ Attached(w)
  BY DEF TakeFocus, CanCall, RequestRestore, tree, term
<1>2. PICK e \in Windows : e = FocusEnd
  BY EndInSight
<1>3. \A a \in Lineage(e) : a \in Windows /\ a \in live /\ InSight(a) /\ a \notin Gains(w)
  BY <1>1, <1>2, EndInSight, RootGains
<1>4. e \in Lineage(e) /\ w \in Gains(w)
  BY GainsUp, SightUp
<1>5. /\ focusedChild \in [Windows -> Windows \cup {None}] /\ live \subseteq Windows
      /\ isFocused \in [Windows -> BOOLEAN]
  BY DEF IInv, TypeOK
<1>6. ASSUME NEW a \in Lineage(e) PROVE focusedChild'[a] = focusedChild[a]
  <2>1. a \in Windows /\ a # w /\ a \notin Gains(w)
    BY <1>3, <1>4
  <2>2. ASSUME NEW b \in live, next(a, b) PROVE FALSE
    <3>1. parent[b] = a /\ a # None /\ b \in Gains(w) /\ visible[b]
      BY <2>1, <2>2
    <3>2. a \in Gains(w)
      BY <3>1, GainsUp
    <3> QED BY <2>1, <3>2
  <2> QED BY <1>1, <2>1, <2>2
<1>7. e \notin Losers(w)
  <2> SUFFICES ASSUME NEW b \in Gains(w) \ {w}, focusedChild[b] \notin Gains(w) \cup {None},
                      e \in Loses(focusedChild[b])
               PROVE  FALSE
    BY DEF Losers
  <2>1. b \in Lineage(w) /\ b \in Windows
    BY GainsUp, Upward
  <2>2. b \in live
    BY <1>1, <1>5, <2>1 DEF Attached
  <2>3. PICK z \in Windows : z = focusedChild[b]
    BY <1>5, <2>1
  <2>4. z \in live /\ parent[z] = b /\ b # None
    BY <2>1, <2>2, <2>3 DEF IInv, FocusPathVisible
  <2>5. z \in Lineage(e)
    BY <2>3, <2>4, LosesBelow
  <2>6. b \in Lineage(e)
    BY <2>4, <2>5, LineageClosed
  <2> QED BY <1>3, <2>6
<1>8. isFocused'[e] = isFocused[e]
  <2>1. e # w
    BY <1>3, <1>4
  <2> QED BY <1>1, <1>5, <1>7, <2>1
<1>9. /\ \A a \in Lineage(FocusEnd) :
           focusedChild'[a] = focusedChild[a] /\ children'[a] = children[a]
      /\ \A x \in Windows : Near(x) =>
           parent'[x] = parent[x] /\ rect'[x] = rect[x] /\ visible'[x] = visible[x]
      /\ isFocused'[FocusEnd] = isFocused[FocusEnd]
      /\ isFocused[FocusEnd] => cursor'[FocusEnd] = cursor[FocusEnd]
      /\ termCursor' = termCursor
  BY <1>1, <1>2, <1>6, <1>8
<1> QED BY <1>9, CursorStays

LEMMA CursorSet ==
  ASSUME IInv, Forest, Forest', Chained, Chained', visible[Root], CursorRight,
         NEW w \in Windows, NEW c \in Cursor, SetCursor(w, c), ~needsRestore'
  PROVE  CursorRight'
<1>1. /\ UNCHANGED <<live, parent, children, visible, rect, focusedChild, isFocused, termCursor>>
      /\ cursor' = [cursor EXCEPT ![w] = c] /\ ~isFocused[w]
      /\ cursor \in [Windows -> Cursor]
  BY DEF SetCursor, RequestRestore, tree, term, IInv, TypeOK
<1>2. FocusEnd \in Windows
  BY EndInSight
<1>3. isFocused[FocusEnd] => cursor'[FocusEnd] = cursor[FocusEnd]
  BY <1>1, <1>2
<1> QED BY <1>1, <1>3, CursorStays

(* A step that changes no window leaves the cursor right. *)
LEMMA CursorSame ==
  ASSUME UNCHANGED <<tree, focus>>
  PROVE  /\ FocusEnd' = FocusEnd
         /\ \A w, prev : RestoredCursor(w, prev)' = RestoredCursor(w, prev)
         /\ CursorRight /\ UNCHANGED termCursor => CursorRight'
<1>1. UNCHANGED <<live, parent, children, visible, rect, focusedChild, isFocused, cursor>>
  BY DEF tree, focus
<1>2. FocusEnd' = FocusEnd
  <2>1. visible' = visible /\ focusedChild' = focusedChild
    BY <1>1
  <2> QED BY ONLY <2>1, Zenon DEF FocusEnd
<1>3. \A x : Lineage(x)' = Lineage(x)
  <2>1. parent' = parent
    BY <1>1
  <2> QED BY ONLY <2>1, Zenon DEF Lineage
<1>4. \A x : AbsRect(x)' = AbsRect(x)
  <2>1. parent' = parent /\ rect' = rect
    BY <1>1
  <2> QED BY ONLY <2>1, Zenon DEF AbsRect
<1>5. (\A x : Cells(x)' = Cells(x)) /\ (\A a, u, c : Covered(a, u, c) <=> Covered(a, u, c)')
  BY TreeSame
<1>6. ASSUME NEW w, NEW prev PROVE RestoredCursor(w, prev)' = RestoredCursor(w, prev)
  <2>1. PICK c : c = CursorCell(w)
    OBVIOUS
  <2>2. CursorCell(w)' = c
    BY <1>1, <1>4, <2>1 DEF CursorCell
  <2>3. CellVisible(w, c, prev)' <=> CellVisible(w, c, prev)
    <3>1. RootCells' = RootCells
      BY <1>1 DEF RootCells
    <3>2. \A a : Covered(parent[a], a, c)' <=> Covered(parent[a], a, c)
      BY <1>1, <1>5
    <3>3. parent' = parent
      BY <1>1
    <3> QED BY ONLY <1>3, <1>5, <3>1, <3>2, <3>3 DEF CellVisible
  <2>4. RestoredCursor(w, prev) =
          IF isFocused[w] /\ cursor[w].visible /\ CellVisible(w, c, prev) THEN c ELSE None
    BY <2>1 DEF RestoredCursor
  <2>5. RestoredCursor(w, prev)' =
          IF isFocused[w] /\ cursor[w].visible /\ CellVisible(w, c, prev)' THEN c ELSE None
    <3>1. RestoredCursor(w, prev)' =
            IF isFocused'[w] /\ cursor'[w].visible /\ CellVisible(w, CursorCell(w), prev)'
            THEN CursorCell(w)' ELSE None
      BY DEF RestoredCursor
    <3>2. CellVisible(w, CursorCell(w), prev)' <=> CellVisible(w, c, prev)'
      BY <2>2 DEF CellVisible
    <3> QED BY <1>1, <2>2, <3>1, <3>2
  <2> QED BY <2>3, <2>4, <2>5
<1>7. ASSUME CursorRight, UNCHANGED termCursor PROVE CursorRight'
  <2>1. PICK prev \in Windows \cup {None} : termCursor = RestoredCursor(FocusEnd, prev)
    BY <1>7 DEF CursorRight
  <2>2. PICK e : e = FocusEnd
    OBVIOUS
  <2>3. RestoredCursor(FocusEnd, prev)' = RestoredCursor(e, prev)'
    BY <1>2, <2>2 DEF RestoredCursor, CursorCell, CellVisible
  <2>4. termCursor' = RestoredCursor(FocusEnd, prev)'
    BY <1>6, <1>7, <2>1, <2>2, <2>3
  <2> QED BY <2>4 DEF CursorRight
<1> QED BY <1>2, <1>6, <1>7

LEMMA CursorRestored ==
  ASSUME UNCHANGED <<tree, focus>>, Restore
  PROVE  CursorRight'
<1>1. PICK w \in Windows, prev \in Windows \cup {None} :
        w = FocusEnd /\ termCursor' = RestoredCursor(w, prev)
  BY DEF Restore
<1>2. FocusEnd' = w /\ RestoredCursor(w, prev)' = RestoredCursor(w, prev)
  BY <1>1, CursorSame
<1>3. RestoredCursor(FocusEnd, prev)' = RestoredCursor(w, prev)'
  BY <1>2 DEF RestoredCursor, CursorCell, CellVisible
<1>4. termCursor' = RestoredCursor(FocusEnd, prev)'
  BY <1>1, <1>2, <1>3
<1> QED BY <1>4 DEF CursorRight

-----------------------------------------------------------------------------
(* Windows that come, go, show or hide. *)

LEMMA CursorNew ==
  ASSUME IInv, TypeOK', Chained, Chained', InView', visible[Root],
         CursorRight, NEW w \in Windows, NEW p \in Under[w], NEW r \in Places[w],
         NEW hidden \in BOOLEAN, NEW lowest \in BOOLEAN,
         New(w, p, r, hidden, lowest), ~needsExpose'
  PROVE  CursorRight'
<1> DEFINE news == CellsIn(Translate(r, AbsRect(p).top, AbsRect(p).left))
<1>1. /\ w \notin live /\ p \in live /\ p \in Windows /\ p # w
      /\ live' = live \cup {w} /\ parent' = [parent EXCEPT ![w] = p]
      /\ visible' = [visible EXCEPT ![w] = ~hidden]
      /\ rect' = [rect EXCEPT ![w] = r]
      /\ focusedChild' = [focusedChild EXCEPT ![w] = None]
      /\ isFocused' = [isFocused EXCEPT ![w] = FALSE]
      /\ cursor' = [cursor EXCEPT ![w] = [at |-> <<0, 0>>, visible |-> TRUE]]
      /\ children' = [children EXCEPT
           ![w] = <<>>,
           ![p] = IF lowest THEN InsertLast(@, w) ELSE InsertFirst(@, w)]
      /\ OwesAt(p, news)
      /\ termCursor' = termCursor
  <2>1. OwesAt(p, news)
    BY NewOwes
  <2>2. /\ w \notin live /\ p \in live /\ p \in Windows /\ p # w
        /\ live' = live \cup {w} /\ parent' = [parent EXCEPT ![w] = p]
        /\ visible' = [visible EXCEPT ![w] = ~hidden]
        /\ rect' = [rect EXCEPT ![w] = r]
        /\ focusedChild' = [focusedChild EXCEPT ![w] = None]
        /\ isFocused' = [isFocused EXCEPT ![w] = FALSE]
        /\ cursor' = [cursor EXCEPT ![w] = [at |-> <<0, 0>>, visible |-> TRUE]]
        /\ children' = [children EXCEPT
             ![w] = <<>>,
             ![p] = IF lowest THEN InsertLast(@, w) ELSE InsertFirst(@, w)]
        /\ termCursor' = termCursor
    BY DEF New, CanCall, IInv, TypeOK, term
  <2> QED BY ONLY <2>1, <2>2
<1>2. /\ parent \in [Windows -> Windows \cup {None}] /\ live \subseteq Windows
      /\ visible \in [Windows -> BOOLEAN] /\ rect \in [Windows -> RectType]
      /\ children \in [Windows -> Seq(Windows)] /\ parent[Root] = None /\ Root \in live
      /\ focusedChild \in [Windows -> Windows \cup {None}]
      /\ isFocused \in [Windows -> BOOLEAN] /\ cursor \in [Windows -> Cursor]
  BY DEF IInv, TypeOK
<1>3. /\ Forest /\ Forest'
      /\ \A x \in Windows : parent[x] # w
      /\ \A x \in Windows \ {w} : Lineage(x)' = Lineage(x) /\ Cells(x)' = Cells(x)
      /\ Cells(w)' = news
  BY NewStands
<1>4. PICK e \in Windows : e = FocusEnd
  BY <1>3, EndInSight
<1>5. \A a \in Lineage(e) : a \in Windows /\ a \in live /\ a # w
  BY <1>1, <1>3, <1>4, EndInSight
<1>6. p \notin Lineage(e)
  <2> SUFFICES ASSUME p \in Lineage(e) PROVE FALSE
    OBVIOUS
  <2>1. InSight(p)
    BY <1>3, <1>4, EndInSight
  <2>2. \A a \in Lineage(p) : a \in live /\ a \in Windows \ {w}
    BY <1>1, <1>2, <2>1 DEF InSight
  <2>3. Lineage(w)' = {w} \cup Lineage(p)
    <3>1. Lineage(w)' = ({w} \cup (IF parent[w] = None THEN {} ELSE Lineage(parent[w])))'
      BY <1>3, UpwardNext DEF UpwardWhen
    <3>2. parent'[w] = p /\ p # None
      BY <1>1, <1>2
    <3>3. Lineage(p)' = Lineage(p)
      BY <1>1, <1>3
    <3> QED BY <3>1, <3>2, <3>3
  <2>4. Attached(w)'
    <3>1. parent'[w] = p
      BY <1>1, <1>2
    <3> QED BY <1>1, <2>2, <2>3, <3>1 DEF Attached
  <2>5. RootCells' = RootCells
    BY <1>1, <1>2 DEF RootCells
  <2>6. PICK c \in RootCells : \A a \in Lineage(w)' : c \in Cells(a)'
    <3>1. w \in live'
      BY <1>1
    <3>2. \E c \in RootCells' : \A a \in Lineage(w)' : c \in Cells(a)'
      BY <2>4, <3>1 DEF InView
    <3> QED BY <2>5, <3>2
  <2>7. c \in news /\ \A a \in Lineage(p) : c \in Cells(a)
    BY <1>3, <2>2, <2>3, <2>6
  <2> HIDE DEF news
  <2> QED BY <1>1, <1>3, <1>4, <2>6, <2>7, Repaints
<1>7. \A a \in Lineage(e) : focusedChild'[a] = focusedChild[a] /\ children'[a] = children[a]
  BY <1>1, <1>2, <1>5, <1>6
<1>8. \A x \in Windows : Near(x) =>
        parent'[x] = parent[x] /\ rect'[x] = rect[x] /\ visible'[x] = visible[x]
  BY <1>1, <1>2, <1>4, <1>5 DEF Near
<1>9. isFocused'[e] = isFocused[e] /\ cursor'[e] = cursor[e]
  <2>1. e # w
    BY <1>3, <1>5, SightUp
  <2> QED BY <1>1, <1>2, <2>1
<1> QED BY <1>1, <1>3, <1>4, <1>7, <1>8, <1>9, CursorStays

LEMMA CursorShowHide ==
  ASSUME IInv, TypeOK', Chained, Chained', InView, visible[Root], CursorRight,
         NEW w \in Windows, Show(w) \/ Hide(w), w # Root, ~needsExpose'
  PROVE  CursorRight'
<1>1. /\ w \in live /\ UNCHANGED <<live, parent, children, rect, isFocused, cursor, termCursor>>
      /\ \A x \in Windows : x # w => visible'[x] = visible[x]
      /\ \A x \in Windows : x # parent[w] => focusedChild'[x] = focusedChild[x]
      /\ OwesAt(parent[w], Cells(w))
  <2>1. OwesAt(parent[w], Cells(w))
    BY ShowOwes
  <2>2. /\ w \in live /\ UNCHANGED <<live, parent, children, rect, isFocused, cursor, termCursor>>
        /\ \A x \in Windows : x # w => visible'[x] = visible[x]
        /\ \A x \in Windows : x # parent[w] => focusedChild'[x] = focusedChild[x]
    <3>1. /\ visible \in [Windows -> BOOLEAN]
          /\ focusedChild \in [Windows -> Windows \cup {None}]
      BY DEF IInv, TypeOK
    <3>2. CASE Show(w)
      BY <3>1, <3>2 DEF Show, CanCall, term
    <3>3. CASE Hide(w)
      BY <3>1, <3>3 DEF Hide, CanCall, Unfocus, term
    <3> QED BY <3>2, <3>3
  <2> QED BY ONLY <2>1, <2>2
<1>2. Forest /\ Forest'
  BY <1>1, TreeStands
<1>3. PICK e \in Windows : e = FocusEnd
  BY <1>2, EndInSight
<1>4. parent[w] \notin Lineage(e)
  BY <1>1, <1>2, <1>3, ViewOf
<1>5. w \notin Lineage(e)
  <2>1. parent[w] # None
    BY <1>1 DEF IInv, OneRoot
  <2> QED BY <1>2, <1>4, <2>1, LineageClosed
<1>6. \A a \in Lineage(e) : focusedChild'[a] = focusedChild[a] /\ children'[a] = children[a]
  BY <1>1, <1>2, <1>4, LineageClosed
<1>7. \A x \in Windows : Near(x) =>
        parent'[x] = parent[x] /\ rect'[x] = rect[x] /\ visible'[x] = visible[x]
  BY <1>1, <1>3, <1>4, <1>5 DEF Near
<1> QED BY <1>1, <1>2, <1>3, <1>6, <1>7, CursorStays

LEMMA CursorDestroy ==
  ASSUME IInv, TypeOK', Ranked', Chained, Chained', InView, visible[Root], CursorRight,
         NEW w \in Windows, Destroy(w), ~needsExpose'
  PROVE  CursorRight'
<1>1. PICK gone \in SUBSET live : Frees(w, gone)
  BY DestroyFrees
<1>1a. \A x \in Windows \ gone : parent'[x] = IF parent[x] \in gone THEN Dangling ELSE parent[x]
  BY <1>1 DEF Frees, Freed
<1>2. /\ w \in gone /\ w \in live /\ w # Root /\ parent[w] \in live /\ parent[w] \notin gone
      /\ \A x \in gone : x = w \/ parent[x] \in gone
      /\ \A x \in Windows \ gone :
           /\ rect'[x] = rect[x] /\ visible'[x] = visible[x]
           /\ isFocused'[x] = isFocused[x] /\ cursor'[x] = cursor[x]
           /\ x # parent[w] => focusedChild'[x] = focusedChild[x] /\ children'[x] = children[x]
  BY <1>1 DEF Frees, Freed, Unfocus, IInv, TypeOK
<1>3. termCursor' = termCursor /\ OwesAt(parent[w], Cells(w))
  BY DestroyOwes, Zenon DEF Destroy, term
<1>4. Forest /\ Forest'
  BY ForestNow DEF Forest, TypeOK
<1>5. PICK e \in Windows : e = FocusEnd
  BY <1>4, EndInSight
<1>6. parent[w] \notin Lineage(e)
  BY <1>2, <1>3, <1>4, <1>5, ViewOf
<1>7. \A x \in gone : x \notin Lineage(e)
  <2>1. \A x \in gone : w \in Lineage(x)
    <3>1. gone \subseteq Windows
      BY DEF IInv, TypeOK
    <3> QED BY <1>2, <1>4, <3>1, GoneBelow
  <2>2. w \notin Lineage(e)
    <3>1. parent[w] # None
      BY <1>2 DEF IInv, OneRoot
    <3> QED BY <1>4, <1>6, <3>1, LineageClosed
  <2>3. \A x \in Lineage(e) : Lineage(x) \subseteq Lineage(e)
    BY <1>4, LineageClosed
  <2> QED BY <2>1, <2>2, <2>3
<1>8. \A a \in Lineage(e) : focusedChild'[a] = focusedChild[a] /\ children'[a] = children[a]
  <2>1. \A a \in Lineage(e) : a \in Windows \ gone /\ a # parent[w]
    BY <1>4, <1>6, <1>7, LineageClosed
  <2> QED BY <1>2, <2>1
<1>9. \A x \in Windows : Near(x) =>
        parent'[x] = parent[x] /\ rect'[x] = rect[x] /\ visible'[x] = visible[x]
  <2>1. \A x \in Windows : Near(x) => x \in Windows \ gone
    BY <1>2, <1>5, <1>6, <1>7 DEF Near
  <2>2. ASSUME NEW x \in Windows, Near(x) PROVE parent[x] \notin gone
    <3>1. parent[x] # None /\ x \in Lineage(e) => parent[x] \in Lineage(e)
      BY <1>4, LineageClosed
    <3>2. None \notin gone
      BY DEF IInv, TypeOK
    <3> QED BY <1>5, <1>7, <2>2, <3>1, <3>2 DEF Near
  <2> QED BY <1>1a, <1>2, <2>1, <2>2
<1>10. isFocused'[e] = isFocused[e] /\ cursor'[e] = cursor[e]
  <2>1. e \in Windows \ gone
    BY <1>4, <1>7, SightUp
  <2> QED BY <1>2, <2>1
<1> QED BY <1>3, <1>4, <1>5, <1>8, <1>9, <1>10, CursorStays

LEMMA CursorApply ==
  ASSUME IInv, TypeOK', Chained, Chained', InView, visible[Root], CursorRight,
         ApplyChange, ~needsExpose'
  PROVE  CursorRight'
<1> DEFINE req == Head(changes)
<1>1. /\ UNCHANGED <<live, parent, visible, rect, focusedChild, isFocused, cursor, termCursor>>
      /\ children' = [children EXCEPT ![req.parent] = Restacked(req.change, @, req.win)]
      /\ OwesAt(req.parent, Cells(req.win))
  BY ApplyOwes DEF ApplyChange, focus, term
<1>2. req.win \in live /\ req.parent \in live /\ parent[req.win] = req.parent
  <2>1. req = changes[1] /\ 1 \in DOMAIN changes
    BY DEF ApplyChange, IInv, TypeOK
  <2> QED BY <2>1 DEF IInv, ChangesParented
<1> HIDE DEF req
<1>3. Forest /\ Forest'
  BY <1>1, TreeStands
<1>4. PICK e \in Windows : e = FocusEnd
  BY <1>3, EndInSight
<1>5. req.parent \notin Lineage(e)
  BY <1>1, <1>2, <1>3, <1>4, ViewOf
<1>6. \A a \in Lineage(e) : focusedChild'[a] = focusedChild[a] /\ children'[a] = children[a]
  BY <1>1, <1>5 DEF IInv, TypeOK
<1> QED BY <1>1, <1>3, <1>4, <1>6, CursorStays

LEMMA RootInView ==
  ASSUME IInv, Forest, InView
  PROVE  RootCells # {}
<1>1. Root \in live /\ Root \in Windows /\ parent[Root] = None
  BY DEF IInv, TypeOK
<1>2. Lineage(Root) = {Root}
  <2>1. Lineage(Root) = {Root} \cup (IF parent[Root] = None THEN {} ELSE Lineage(parent[Root]))
    BY <1>1, Upward
  <2> QED BY <1>1, <2>1
<1>3. Attached(Root)
  BY <1>1, <1>2 DEF Attached
<1> QED BY <1>1, <1>3 DEF InView

(* The terminal does not shrink. *)
Grows == RootCells \subseteq RootCells'

LEMMA Larger ==
  ASSUME NEW old \in RectType, NEW r \in RectType, old # r,
         old.top = 0, old.left = 0, r.top = 0, r.left = 0,
         CellsIn(old) # {}, CellsIn(old) \subseteq CellsIn(r)
  PROVE  CellsIn(r) \ CellsIn(old) # {}
<1>1. PICK h \in Int, w \in Int, k \in Int, v \in Int :
        h = old.lines /\ w = old.cols /\ k = r.lines /\ v = r.cols
  BY DEF RectType
<1>2. CellsIn(old) = (0..h - 1) \X (0..w - 1) /\ CellsIn(r) = (0..k - 1) \X (0..v - 1)
  <2>1. Bottom(old) = h /\ Right(old) = w /\ Bottom(r) = k /\ Right(r) = v
    BY <1>1 DEF Bottom, Right
  <2> QED BY <2>1 DEF CellsIn
<1>3. h >= 1 /\ w >= 1
  <2>1. PICK y \in 0..h - 1, x \in 0..w - 1 : TRUE
    BY <1>2
  <2> QED BY <2>1
<1>4. h - 1 \in 0..h - 1 /\ w - 1 \in 0..w - 1 /\ 0 \in 0..h - 1 /\ 0 \in 0..w - 1
  BY <1>3
<1>5. <<h - 1, w - 1>> \in CellsIn(old)
  BY <1>2, <1>4
<1>6. h - 1 \in 0..k - 1 /\ w - 1 \in 0..v - 1
  BY <1>2, <1>5
<1>7. h <= k /\ w <= v
  BY <1>6
<1>8. h # k \/ w # v
  <2>1. /\ old = [top |-> old.top, left |-> old.left, lines |-> old.lines, cols |-> old.cols]
        /\ r = [top |-> r.top, left |-> r.left, lines |-> r.lines, cols |-> r.cols]
    BY DEF RectType
  <2> QED BY <1>1, <2>1
<1>9. CASE h # k
  <2>1. k - 1 \in 0..k - 1 /\ 0 \in 0..v - 1 /\ k - 1 \notin 0..h - 1
    BY <1>3, <1>7, <1>9
  <2>2. <<k - 1, 0>> \in CellsIn(r) /\ <<k - 1, 0>> \notin CellsIn(old)
    BY <1>2, <2>1
  <2> QED BY <2>2
<1>10. CASE w # v
  <2>1. v - 1 \in 0..v - 1 /\ 0 \in 0..k - 1 /\ v - 1 \notin 0..w - 1
    BY <1>3, <1>7, <1>10
  <2>2. <<0, v - 1>> \in CellsIn(r) /\ <<0, v - 1>> \notin CellsIn(old)
    BY <1>2, <2>1
  <2> QED BY <2>2
<1> QED BY <1>8, <1>9, <1>10

(* A terminal that gets larger is repainted where it is new. *)
LEMMA CursorResize ==
  ASSUME IInv, Forest, InView, visible[Root], NEW r \in Sizes, Resize(r), Grows
  PROVE  needsExpose'
<1>1. /\ r # rect[Root] /\ rect' = [rect EXCEPT ![Root] = r]
  BY DEF Resize
<1>2. /\ rect[Root] \in Sizes /\ rect[Root] \in RectType /\ r \in RectType
      /\ rect[Root].top = 0 /\ rect[Root].left = 0 /\ r.top = 0 /\ r.left = 0
      /\ CellsIn(r) \subseteq Grid
  BY DEF IInv, TypeOK, CellsIn
<1>3. CellsIn(rect[Root]) # {} /\ CellsIn(rect[Root]) \subseteq CellsIn(r)
  <2>1. rect'[Root] = r
    BY <1>1 DEF IInv, TypeOK
  <2> QED BY <2>1, RootInView DEF RootCells, Grows
<1>4. PICK c \in CellsIn(r) : c \notin RootCells
  BY <1>1, <1>2, <1>3, Larger DEF RootCells
<1> QED BY <1>4, ResizeOwes

-----------------------------------------------------------------------------
(* The invariant: unless a repaint or a restore is asked for, or under way, *)
(* the cursor is right.                                                    *)
CursorDue == phase # "paint" /\ ~needsExpose /\ ~needsRestore /\ visible[Root]

CursorInv == FreeUnfocused /\ (CursorDue => CursorRight)

LEMMA FreeStep ==
  ASSUME IInv, Forest, FreeUnfocused, [Next]_vars
  PROVE  FreeUnfocused'
<1>0. /\ live \subseteq Windows /\ parent \in [Windows -> Windows \cup {None}]
      /\ focusedChild \in [Windows -> Windows \cup {None}]
  BY DEF IInv, TypeOK
<1>1. CASE UNCHANGED <<live, focusedChild>>
  BY <1>1 DEF FreeUnfocused
<1>2. CASE Flush
  BY <1>1, <1>2 DEF Flush, FlushBegin, ApplyChange, StartPaint, NoPaint, BeginPass, SkipChild,
                    EnterChild, Draw, Return, EndPaint, tree, focus
<1>3. CASE Call
  <2> PICK w \in Windows :
        \/ \E p \in Under[w], r \in Places[w], hidden, lowest \in BOOLEAN :
             New(w, p, r, hidden, lowest)
        \/ Destroy(w) \/ Show(w) \/ Hide(w) \/ Update(w) \/ TakeFocus(w)
        \/ \E kind \in Kinds : Restack(kind, w)
        \/ \E c \in Cursor : SetCursor(w, c)
    BY <1>3, Zenon DEF Call
  <2>1. CASE Update(w) \/ (\E kind \in Kinds : Restack(kind, w)) \/ \E c \in Cursor : SetCursor(w, c)
    BY <1>1, <2>1 DEF Update, Restack, SetCursor, tree, focus
  <2>2. CASE \E p \in Under[w], r \in Places[w], hidden, lowest \in BOOLEAN :
               New(w, p, r, hidden, lowest)
    <3>1. live' = live \cup {w} /\ focusedChild' = [focusedChild EXCEPT ![w] = None]
      BY <2>2 DEF New
    <3> QED BY <1>0, <3>1 DEF FreeUnfocused
  <2>3. CASE Destroy(w)
    <3>1. PICK gone \in SUBSET live : Frees(w, gone)
      BY <2>3, DestroyFrees
    <3>2. live' = live \ gone /\ focusedChild' = Freed(Unfocus(parent[w], w), gone, None)
      BY <3>1 DEF Frees
    <3>3. \A x \in Windows : focusedChild[x] = None => Unfocus(parent[w], w)[x] = None
      BY <1>0 DEF Unfocus
    <3> QED BY <3>2, <3>3 DEF FreeUnfocused, Freed
  <2>4. CASE Show(w)
    <3>1. /\ live' = live
          /\ w # Root => parent[w] \in live
          /\ \A x \in Windows : focusedChild'[x] # focusedChild[x] => w # Root /\ x = parent[w]
      BY <1>0, <2>4 DEF Show, CanCall, Attached, IInv, OneRoot
    <3> QED BY <1>0, <3>1 DEF FreeUnfocused
  <2>5. CASE Hide(w)
    <3>1. /\ live' = live
          /\ \A x \in Windows : focusedChild'[x] = focusedChild[x] \/ focusedChild'[x] = None
      BY <1>0, <2>5 DEF Hide, Unfocus
    <3> QED BY <3>1 DEF FreeUnfocused
  <2>6. CASE TakeFocus(w)
    <3>1. /\ live' = live /\ Lineage(w) \subseteq live \cup {None}
          /\ focusedChild' = [x \in Windows |->
               IF x = w THEN None
               ELSE IF \E a \in live : a \in Gains(w) /\ visible[a] /\ parent[a] = x
               THEN CHOOSE a \in live : a \in Gains(w) /\ visible[a] /\ parent[a] = x
               ELSE focusedChild[x]]
      BY <2>6 DEF TakeFocus, CanCall, Attached, tree
    <3>2. ASSUME NEW x \in Windows \ live', focusedChild'[x] # None PROVE FALSE
      <4>1. x # w /\ x \in Windows /\ x \notin live /\ focusedChild[x] = None
        BY <3>1, <3>2 DEF FreeUnfocused
      <4>2. PICK a \in live : a \in Gains(w) /\ visible[a] /\ parent[a] = x
        BY <3>1, <3>2, <4>1
      <4>3. x \in Gains(w)
        BY <4>1, <4>2, GainsUp
      <4> QED BY <3>1, <4>1, <4>3, GainsUp
    <3> QED BY <3>2 DEF FreeUnfocused
  <2> QED BY <2>1, <2>2, <2>3, <2>4, <2>5, <2>6
<1>4. CASE \E r \in Sizes : Resize(r)
  BY <1>1, <1>4 DEF Resize, focus
<1>5. CASE UNCHANGED vars
  BY <1>1, <1>5 DEF vars, tree, focus
<1> QED BY <1>2, <1>3, <1>4, <1>5 DEF Next

(* What the lemmas above need of a step. *)
LEMMA CursorReady ==
  ASSUME IInv, ScreenInv, FreeUnfocused, [Next]_vars
  PROVE  /\ Forest /\ Chained
         /\ IInv' /\ TypeOK' /\ Ranked' /\ Forest' /\ FreeUnfocused' /\ Chained'
<1>2. Forest
  BY ForestNow
<1>3. IInv' /\ TypeOK'
  BY NextIInv DEF IInv
<1>4. Ranked'
  BY <1>3 DEF IInv
<1>5. Forest'
  BY <1>3, <1>4 DEF Forest, TypeOK
<1>6. FreeUnfocused'
  BY <1>2, FreeStep
<1>7. Chained'
  BY <1>3, <1>4, <1>6, ChainedNext DEF ChainedWhen
<1>8. Chained
  BY ChainedNow
<1> QED BY <1>2, <1>3, <1>4, <1>5, <1>6, <1>7, <1>8

LEMMA InitCursor == Init => CursorInv
BY DEF Init, CursorInv, FreeUnfocused, CursorDue

LEMMA NextCursor ==
  IInv /\ ScreenInv /\ CursorInv /\ InView /\ InView' /\ [Next]_vars /\ [Grows]_vars => CursorInv'
<1> SUFFICES ASSUME IInv, ScreenInv, CursorInv, InView, InView', [Next]_vars, [Grows]_vars
             PROVE  CursorInv'
  OBVIOUS
<1>1. /\ Forest /\ Chained
      /\ IInv' /\ TypeOK' /\ Ranked' /\ Forest' /\ FreeUnfocused' /\ Chained'
  BY CursorReady DEF CursorInv
<1>2. SUFFICES ASSUME CursorDue' PROVE CursorRight'
  BY <1>1 DEF CursorInv
<1>3. phase' # "paint" /\ ~needsExpose' /\ ~needsRestore' /\ visible'[Root]
  BY <1>2 DEF CursorDue
<1>4. CursorDue => CursorRight
  BY DEF CursorInv
<1>5. CASE UNCHANGED <<tree, focus, termCursor>> /\ CursorDue
  BY <1>4, <1>5, CursorSame
<1>6. CASE Flush
  <2>1. CASE FlushBegin
    <3>1. UNCHANGED <<tree, focus, termCursor, needsExpose, needsRestore>> /\ phase # "paint"
      BY <2>1 DEF FlushBegin, term
    <3> QED BY <1>3, <1>5, <3>1 DEF CursorDue, tree
  <2>2. CASE ApplyChange
    <3>1. UNCHANGED <<visible, needsRestore, phase>> /\ (needsExpose => needsExpose')
      BY <2>2, ApplyOwes DEF ApplyChange, flush, OwesAt
    <3>2. CursorDue
      BY <1>3, <3>1 DEF CursorDue
    <3> QED BY <1>1, <1>3, <1>4, <2>2, <3>2, CursorApply DEF CursorDue
  <2>3. CASE StartPaint
    BY <1>3, <2>3 DEF StartPaint
  <2>4. CASE NoPaint
    <3>1. UNCHANGED <<tree, focus, needsExpose>> /\ phase # "paint"
          /\ (IF needsRestore THEN Restore ELSE UNCHANGED termCursor)
      BY <2>4 DEF NoPaint
    <3>2. CASE needsRestore
      BY <3>1, <3>2, CursorRestored
    <3>3. CASE ~needsRestore
      BY <1>3, <1>5, <3>1, <3>3 DEF CursorDue, tree
    <3> QED BY <3>2, <3>3
  <2>5. CASE BeginPass \/ SkipChild \/ EnterChild \/ Draw \/ Return
    <3>1. phase = "paint" /\ phase' = phase
      BY <2>5 DEF BeginPass, SkipChild, EnterChild, Draw, Return, IInv, Nested
    <3> QED BY <1>3, <3>1
  <2>6. CASE EndPaint
    <3>1. UNCHANGED <<tree, focus>> /\ Restore
      BY <2>6 DEF EndPaint
    <3> QED BY <3>1, CursorRestored
  <2> QED BY <1>6, <2>1, <2>2, <2>3, <2>4, <2>5, <2>6 DEF Flush
<1>7. CASE Call
  <2> PICK w \in Windows :
        \/ \E p \in Under[w], r \in Places[w], hidden, lowest \in BOOLEAN :
             New(w, p, r, hidden, lowest)
        \/ Destroy(w) \/ Show(w) \/ Hide(w) \/ Update(w) \/ TakeFocus(w)
        \/ \E kind \in Kinds : Restack(kind, w)
        \/ \E c \in Cursor : SetCursor(w, c)
    BY <1>7, Zenon DEF Call
  <2>1. CASE \E p \in Under[w], r \in Places[w], hidden, lowest \in BOOLEAN :
               New(w, p, r, hidden, lowest)
    <3>1. PICK p \in Under[w], r \in Places[w], hidden \in BOOLEAN, lowest \in BOOLEAN :
            New(w, p, r, hidden, lowest)
      BY <2>1
    <3>2. /\ w # Root /\ visible' = [visible EXCEPT ![w] = ~hidden]
          /\ UNCHANGED <<needsRestore, phase>> /\ (needsExpose => needsExpose')
      BY <3>1, NewOwes DEF New, flush, OwesAt, IInv, TypeOK
    <3>3. CursorDue
      BY <1>3, <3>2 DEF CursorDue, IInv, TypeOK
    <3> QED BY <1>1, <1>3, <1>4, <3>1, <3>3, CursorNew DEF CursorDue
  <2>2. CASE Destroy(w)
    <3>1. PICK gone \in SUBSET live : Frees(w, gone)
      BY <2>2, DestroyFrees
    <3>2. UNCHANGED <<needsRestore, phase>>
      BY <2>2, Zenon DEF Destroy, flush
    <3>3. needsExpose => needsExpose'
      BY <2>2, DestroyOwes DEF OwesAt
    <3>4. visible'[Root] = visible[Root]
      <4>1. Root \notin gone
        BY <3>1 DEF Frees, IInv, TypeOK
      <4> QED BY <3>1, <4>1 DEF Frees, Freed
    <3>5. CursorDue
      BY <1>3, <3>2, <3>3, <3>4 DEF CursorDue
    <3> QED BY <1>1, <1>3, <1>4, <2>2, <3>5, CursorDestroy DEF CursorDue
  <2>3. CASE Show(w) \/ Hide(w)
    <3>1. /\ UNCHANGED <<needsRestore, phase>>
          /\ \A x \in Windows : x # w => visible'[x] = visible[x]
      BY <2>3 DEF Show, Hide, flush, IInv, TypeOK
    <3>2. CASE w # Root
      <4>1. CursorDue
        BY <1>3, <2>3, <3>1, <3>2, ShowOwes DEF CursorDue, OwesAt
      <4> QED BY <1>1, <1>3, <1>4, <2>3, <3>2, <4>1, CursorShowHide DEF CursorDue
    <3>3. CASE w = Root /\ Show(w)
      <4>1. RootCells # {}
        BY <1>1, RootInView
      <4>2. needsExpose'
        BY <3>3, <4>1, ShowRootOwes
      <4> QED BY <1>3, <4>2
    <3>4. CASE w = Root /\ Hide(w)
      BY <1>3, <3>4 DEF Hide, IInv, TypeOK
    <3> QED BY <2>3, <3>2, <3>3, <3>4
  <2>4. CASE Update(w)
    <3>1. UNCHANGED <<tree, focus, termCursor, needsRestore, phase>> /\ (needsExpose => needsExpose')
      BY <2>4, UpdateOwes DEF Update, flush, OwesAt
    <3> QED BY <1>3, <1>5, <3>1 DEF CursorDue, tree
  <2>5. CASE TakeFocus(w)
    <3>1. /\ UNCHANGED <<tree, needsExpose, phase>>
          /\ needsRestore => needsRestore'
      BY <2>5 DEF TakeFocus, flush, RequestRestore
    <3>2. CursorDue
      BY <1>3, <3>1 DEF CursorDue, tree
    <3> QED BY <1>1, <1>3, <1>4, <2>5, <3>2, CursorTake DEF CursorDue
  <2>6. CASE \E kind \in Kinds : Restack(kind, w)
    <3>1. UNCHANGED <<tree, focus, termCursor, needsExpose, needsRestore, phase>>
      BY <2>6 DEF Restack, flush, term
    <3> QED BY <1>3, <1>5, <3>1 DEF CursorDue, tree
  <2>7. CASE \E c \in Cursor : SetCursor(w, c)
    <3>1. PICK c \in Cursor : SetCursor(w, c)
      BY <2>7
    <3>2. /\ UNCHANGED <<tree, needsExpose, phase>>
          /\ needsRestore => needsRestore'
      BY <3>1 DEF SetCursor, flush, RequestRestore
    <3>3. CursorDue
      BY <1>3, <3>2 DEF CursorDue, tree
    <3> QED BY <1>1, <1>3, <1>4, <3>1, <3>3, CursorSet DEF CursorDue
  <2> QED BY <2>1, <2>2, <2>3, <2>4, <2>5, <2>6, <2>7
<1>8. CASE \E r \in Sizes : Resize(r)
  <2>1. PICK r \in Sizes : Resize(r)
    BY <1>8
  <2>2. visible[Root]
    BY <1>3, <2>1 DEF Resize
  <2>3. Grows
    <3>1. rect' # rect
      BY <2>1 DEF Resize, IInv, TypeOK
    <3> QED BY <3>1 DEF vars, tree
  <2> QED BY <1>1, <1>3, <2>1, <2>2, <2>3, CursorResize
<1>9. CASE UNCHANGED vars
  <2>1. UNCHANGED <<tree, focus, termCursor, needsExpose, needsRestore, phase>>
    BY <1>9 DEF vars, needs, flush, term
  <2> QED BY <1>3, <1>5, <2>1 DEF CursorDue, tree
<1> QED BY <1>6, <1>7, <1>8, <1>9 DEF Next

(* Whenever nothing waits to be processed and the root shows, the cursor of *)
(* the terminal is where _do_restore (window.c:531) could put it now: each  *)
(* call that changes the chain of focused children, the cursor at its end,  *)
(* or the windows around asks for a restore or for a repaint, which ends in *)
(* one; and a call that asks for neither changes none of these.  So it is   *)
(* while every window has a cell in common with all the windows above it:   *)
(* destroying, showing or hiding one that has none exposes nothing and asks *)
(* for nothing.  And while the terminal does not shrink: on_term            *)
(* (window.c:80) asks for nothing then.                                     *)
THEOREM CursorIsCurrent == Spec /\ []InView /\ [][Grows]_vars => []CursorCurrent
<1>1. IInv /\ CursorInv => CursorCurrent
  BY DEF CursorInv, CursorDue, CursorRight, CursorCurrent, IInv, NothingForgotten
<1>2. Spec => []IInv
  BY IInvariant
<1>3. Spec => []ScreenInv
  BY InitScreen, NextScreen, IInvariant, PTL DEF Spec
<1> QED BY <1>1, <1>2, <1>3, InitCursor, NextCursor, PTL DEF Spec
=============================================================================
