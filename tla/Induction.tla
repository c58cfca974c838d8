------------------------------- MODULE Induction -------------------------------
(***************************************************************************)
(* Induction over the natural numbers, stated with sets.  The theorems of  *)
(* NaturalsInduction take the predicate as a parameter, which the provers  *)
(* cannot instantiate; the set of the numbers that have the predicate they *)
(* can, as they can every constant.  The same of trees, given by the       *)
(* parent of each node and a rank that parents have less of, and of loops, *)
(* which the models write as folds from the left: Pass is the body of one, *)
(* which a module that has a loop to reason about instantiates.  It takes  *)
(* three things that the loop works with, what the passes before have      *)
(* made, and the element of this pass.                                     *)
(***************************************************************************)
EXTENDS Integers, FiniteSetsExt, WellFoundedInduction, TLAPS

CONSTANT Pass(_, _, _, _, _)

(* A set of natural numbers has a least one.                               *)
LEMMA LeastOf ==
  ASSUME NEW S \in SUBSET Nat, S # {}
  PROVE  \E x \in S : \A y \in S : x <= y
<1>1. PICK x \in S : \A y \in S : ~ (<<y, x>> \in OpToRel(<, Nat))
  <2>1. IsWellFoundedOn(OpToRel(<, Nat), Nat)
    BY NatLessThanWellFounded
  <2> QED BY ONLY <2>1, WFMin, S # {}, S \subseteq Nat, Zenon
<1>2. \A y \in S : ~(y < x)
  BY <1>1 DEF OpToRel
<1> QED BY <1>2

(* What has 0, and the successor of each of its numbers, has them all.     *)
LEMMA SetInduction ==
  ASSUME NEW S, 0 \in S, \A n \in Nat : n \in S => n + 1 \in S
  PROVE  \A n \in Nat : n \in S
<1> DEFINE rest == {n \in Nat : n \notin S}
<1> SUFFICES ASSUME rest # {} PROVE FALSE
  OBVIOUS
<1>1. PICK x \in rest : \A y \in rest : x <= y
  BY LeastOf
<1>2. x # 0 /\ x - 1 \in Nat /\ x - 1 < x
  OBVIOUS
<1>3. x - 1 \in S
  BY <1>1, <1>2
<1> QED BY <1>2, <1>3

(* The same up to a bound.                                                 *)
LEMMA BoundedInduction ==
  ASSUME NEW m \in Nat, NEW S, 0 \in S, \A n \in 0..m - 1 : n \in S => n + 1 \in S
  PROVE  \A n \in 0..m : n \in S
<1> DEFINE U == {n \in Nat : n <= m => n \in S}
<1>1. 0 \in U
  OBVIOUS
<1>2. \A n \in Nat : n \in U => n + 1 \in U
  OBVIOUS
<1>3. \A n \in Nat : n \in U
  <2> HIDE DEF U
  <2> QED BY <1>1, <1>2, SetInduction
<1> QED BY <1>3

-----------------------------------------------------------------------------
(* Trees.  none is the parent of a node that has no parent.                *)

Ranks(rank, W, none, par) ==
  /\ rank \in [W -> Nat]
  /\ \A x \in W : par[x] # none => rank[par[x]] < rank[x]

(* From the roots down to all nodes.                                       *)
LEMMA TreeInduction ==
  ASSUME NEW W, NEW none, NEW par \in [W -> W \cup {none}],
         NEW rank, Ranks(rank, W, none, par), NEW S,
         \A x \in W : (par[x] # none => par[x] \in S) => x \in S
  PROVE  \A x \in W : x \in S
<1> DEFINE rest == {x \in W : x \notin S}
           least == {rank[x] : x \in rest}
<1> SUFFICES ASSUME rest # {} PROVE FALSE
  OBVIOUS
<1>1. least \in SUBSET Nat /\ least # {}
  BY DEF Ranks
<1>2. PICK n \in least : \A m \in least : n <= m
  BY <1>1, LeastOf
<1>3. PICK x \in rest : rank[x] = n
  OBVIOUS
<1>4. par[x] # none /\ par[x] \in rest
  OBVIOUS
<1>5. rank[par[x]] \in least /\ rank[par[x]] < rank[x] /\ n \in Nat
      /\ rank[par[x]] \in Nat
  BY <1>1, <1>4 DEF Ranks
<1>6. n <= rank[par[x]]
  BY <1>2, <1>5
<1> QED BY <1>3, <1>5, <1>6

(* A function of the nodes is defined from its values for their parents:   *)
(* what it is of a root, and the step down from a parent.                  *)
TreeDefines(W, none, par, D, base, step) ==
  \E f \in [W -> D] :
    \A x \in W : f[x] = IF par[x] = none THEN base[x] ELSE step[<<x, f[par[x]]>>]

LEMMA TreeRecursion ==
  ASSUME NEW W, NEW none, none \notin W, NEW par \in [W -> W \cup {none}],
         NEW rank, Ranks(rank, W, none, par),
         NEW D, NEW base \in [W -> D], NEW step \in [W \X D -> D]
  PROVE  TreeDefines(W, none, par, D, base, step)
<1> DEFINE Body(h, x) == IF par[x] = none THEN base[x] ELSE step[<<x, h[par[x]]>>]
           Upto(h, n) == /\ h \in [W -> D]
                         /\ \A x \in W : rank[x] < n => h[x] = Body(h, x)
           some == {n \in Nat : \E h : Upto(h, n)}
<1>0. \A x \in W : /\ rank[x] \in Nat
                   /\ par[x] # none => par[x] \in W /\ rank[par[x]] < rank[x]
  BY DEF Ranks
<1>1. \A h \in [W -> D], x \in W : Body(h, x) \in D
  BY <1>0
<1>2. ASSUME NEW g, NEW h, NEW x \in W, par[x] # none => g[par[x]] = h[par[x]]
      PROVE  Body(g, x) = Body(h, x)
  BY <1>2
<1> HIDE DEF Body
<1>3. 0 \in some
  <2>1. Upto(base, 0)
    BY <1>0
  <2> QED BY <2>1
<1>4. ASSUME NEW n \in Nat, n \in some PROVE n + 1 \in some
  <2>1. PICK f : Upto(f, n)
    BY <1>4
  <2> DEFINE g == [x \in W |-> IF rank[x] = n THEN Body(f, x) ELSE f[x]]
  <2>2. g \in [W -> D]
    BY <1>1, <2>1
  <2>3. ASSUME NEW x \in W, rank[x] < n + 1 PROVE g[x] = Body(g, x)
    <3>1. par[x] # none => g[par[x]] = f[par[x]]
      BY <1>0, <2>3
    <3>2. Body(g, x) = Body(f, x)
      <4> HIDE DEF g
      <4> QED BY <1>2, <3>1
    <3>3. rank[x] # n => f[x] = Body(f, x)
      BY <1>0, <2>1, <2>3
    <3> QED BY <3>2, <3>3
  <2>4. Upto(g, n + 1)
    BY <2>2, <2>3
  <2>5. n + 1 \in Nat /\ \E h : Upto(h, n + 1)
    <3> HIDE DEF Upto, g
    <3> QED BY <2>4
  <2> HIDE DEF Upto
  <2> QED BY <2>5
<1>5. \A n \in Nat : n \in some
  <2> HIDE DEF some
  <2> QED BY <1>3, <1>4, SetInduction
<1>6. ASSUME NEW f, NEW n \in Nat, Upto(f, n), NEW g, NEW m \in Nat, Upto(g, m)
      PROVE  \A x \in W : rank[x] < n /\ rank[x] < m => f[x] = g[x]
  <2> DEFINE same == {x \in W : rank[x] < n /\ rank[x] < m => f[x] = g[x]}
  <2>1. ASSUME NEW x \in W, par[x] # none => par[x] \in same PROVE x \in same
    <3> SUFFICES ASSUME rank[x] < n, rank[x] < m PROVE f[x] = g[x]
      OBVIOUS
    <3>1. par[x] # none => f[par[x]] = g[par[x]]
      BY <1>0, <2>1
    <3>2. Body(f, x) = Body(g, x)
      BY <1>2, <3>1
    <3> QED BY <1>6, <3>2
  <2>2. \A x \in W : x \in same
    <3> HIDE DEF same
    <3> QED BY <2>1, TreeInduction
  <2> QED BY <2>2
<1> DEFINE F(n) == CHOOSE h : Upto(h, n)
           G == [x \in W |-> F(rank[x] + 1)[x]]
<1>7. ASSUME NEW n \in Nat PROVE Upto(F(n), n)
  <2>1. \E h : Upto(h, n)
    BY <1>5
  <2> HIDE DEF Upto
  <2> QED BY <2>1
<1> HIDE DEF F
<1>8. G \in [W -> D]
  <2>1. \A x \in W : F(rank[x] + 1) \in [W -> D]
    BY <1>0, <1>7
  <2> QED BY <2>1
<1>9. ASSUME NEW x \in W PROVE G[x] = Body(G, x)
  <2> DEFINE n == rank[x] + 1
  <2>1. n \in Nat /\ rank[x] < n /\ Upto(F(n), n)
    BY <1>0, <1>7
  <2>2. F(n)[x] = Body(F(n), x)
    BY <2>1
  <2>3. ASSUME par[x] # none PROVE G[par[x]] = F(n)[par[x]]
    <3> DEFINE p == par[x]
               m == rank[p] + 1
    <3>1. p \in W /\ m \in Nat /\ rank[p] < m /\ rank[p] < n
      BY <1>0, <2>1, <2>3
    <3>2. Upto(F(m), m)
      BY <1>7, <3>1
    <3>3. F(m)[p] = F(n)[p]
      <4> HIDE DEF Upto, m, n, p
      <4> QED BY <1>6, <2>1, <3>1, <3>2
    <3> QED BY <3>1, <3>3
  <2>4. Body(G, x) = Body(F(n), x)
    <3> HIDE DEF G, n
    <3> QED BY <1>2, <2>3
  <2> QED BY <2>2, <2>4
<1> QED BY <1>8, <1>9 DEF Body, TreeDefines

-----------------------------------------------------------------------------
(* Loops.                                                                  *)

(* FoldLeft with this body, as its definition unfolds.                     *)
Passes(p, q, r, base, seq) ==
  CHOOSE iter : iter = [s \in SUBSET DOMAIN seq |->
    IF s = {} THEN base
    ELSE Pass(p, q, r, iter[s \ {Max(s)}], seq[Max(s)])]

Loop(p, q, r, base, seq) == Passes(p, q, r, base, seq)[DOMAIN seq]

LEMMA MaxIs ==
  ASSUME NEW S \in SUBSET Int, NEW x \in S, \A y \in S : y <= x
  PROVE  Max(S) = x
<1>1. \E m \in S : \A y \in S : m >= y
  OBVIOUS
<1>2. Max(S) \in S /\ \A y \in S : Max(S) >= y
  BY <1>1, Zenon DEF Max
<1>3. Max(S) \in Int /\ x \in Int
  BY <1>2
<1> QED BY <1>2, <1>3

(* The largest of the first numbers is one of them.                        *)
LEMMA MaxUpto ==
  ASSUME NEW n \in Nat, NEW S \in SUBSET (0..n), S # {}
  PROVE  Max(S) \in S /\ \A x \in S : x <= Max(S)
<1> DEFINE rest == {n - x : x \in S}
<1>1. rest \in SUBSET Nat /\ rest # {}
  <2>1. PICK x \in S : TRUE
    OBVIOUS
  <2>2. n - x \in rest
    BY <2>1
  <2>3. \A y \in S : n - y \in Nat
    OBVIOUS
  <2> QED BY <2>2, <2>3
<1>2. PICK d \in rest : \A e \in rest : d <= e
  BY <1>1, LeastOf
<1>3. PICK x \in S : d = n - x
  OBVIOUS
<1>4. \A y \in S : x >= y
  <2> SUFFICES ASSUME NEW y \in S PROVE x >= y
    OBVIOUS
  <2>1. n - y \in rest
    OBVIOUS
  <2>2. d <= n - y
    <3> HIDE DEF rest
    <3> QED BY <1>2, <2>1
  <2>3. x \in Int /\ y \in Int
    OBVIOUS
  <2> QED BY <1>3, <2>2, <2>3
<1> QED BY <1>3, <1>4 DEF Max

(* The function that the definition of a fold chooses exists.              *)
Unfolds(iter, p, q, r, base, seq, n) ==
  iter = [s \in SUBSET (1..n) |->
    IF s = {} THEN base
    ELSE Pass(p, q, r, iter[s \ {Max(s)}], seq[Max(s)])]

LEMMA PassesExist ==
  ASSUME NEW p, NEW q, NEW r, NEW base, NEW seq, NEW m \in Nat
  PROVE  \E iter : Unfolds(iter, p, q, r, base, seq, m)
<1> DEFINE some == {n \in Nat : \E iter : Unfolds(iter, p, q, r, base, seq, n)}
<1>1. 0 \in some
  <2> DEFINE h == [s \in SUBSET (1..0) |-> base]
  <2>1. Unfolds(h, p, q, r, base, seq, 0)
    BY DEF Unfolds
  <2> QED BY <2>1
<1>2. ASSUME NEW n \in Nat, n \in some PROVE n + 1 \in some
  <2>1. PICK h : Unfolds(h, p, q, r, base, seq, n)
    BY <1>2
  <2> DEFINE g == [s \in SUBSET (1..n + 1) |->
                     IF n + 1 \in s THEN Pass(p, q, r, h[s \ {n + 1}], seq[n + 1])
                     ELSE h[s]]
             U(s) == IF s = {} THEN base
                     ELSE Pass(p, q, r, g[s \ {Max(s)}], seq[Max(s)])
  <2>2. ASSUME NEW s \in SUBSET (1..n + 1) PROVE g[s] = U(s)
    <3>1. CASE n + 1 \in s
      <4>1. Max(s) = n + 1
        BY <3>1, MaxIs
      <4>2. s \ {n + 1} \in SUBSET (1..n + 1) /\ n + 1 \notin s \ {n + 1}
        OBVIOUS
      <4>3. g[s \ {n + 1}] = h[s \ {n + 1}]
        BY <4>2
      <4> QED BY <3>1, <4>1, <4>3
    <3>2. CASE n + 1 \notin s
      <4>1. s \in SUBSET (1..n)
        BY <3>2
      <4>2. g[s] = h[s]
        BY <3>2
      <4>3. h[s] = IF s = {} THEN base
                   ELSE Pass(p, q, r, h[s \ {Max(s)}], seq[Max(s)])
        BY <2>1, <4>1 DEF Unfolds
      <4>4. ASSUME s # {} PROVE g[s \ {Max(s)}] = h[s \ {Max(s)}]
        <5>1. s \ {Max(s)} \in SUBSET (1..n + 1) /\ n + 1 \notin s \ {Max(s)}
          BY <3>2
        <5> QED BY <5>1
      <4> QED BY <4>2, <4>3, <4>4
    <3> QED BY <3>1, <3>2
  <2>3. Unfolds(g, p, q, r, base, seq, n + 1)
    <3>1. g = [s \in SUBSET (1..n + 1) |-> g[s]]
      OBVIOUS
    <3>2. [s \in SUBSET (1..n + 1) |-> g[s]] = [s \in SUBSET (1..n + 1) |-> U(s)]
      <4> HIDE DEF g, U
      <4> QED BY <2>2
    <3> HIDE DEF g
    <3> QED BY <3>1, <3>2 DEF Unfolds
  <2> HIDE DEF g
  <2> QED BY <2>3
<1>3. \A n \in Nat : n \in some
  <2> HIDE DEF some
  <2> QED BY <1>1, <1>2, SetInduction
<1> QED BY <1>3

(* What holds at the start and is kept by each pass holds in the end.  kept *)
(* has the pairs of a number of passes and what they may have made.        *)
LEMMA LoopKeeps ==
  ASSUME NEW n \in Nat, NEW p, NEW q, NEW r, NEW base, NEW seq, DOMAIN seq = 1..n,
         NEW kept, <<0, base>> \in kept,
         \A k \in 1..n : \A made : <<k - 1, made>> \in kept =>
           <<k, Pass(p, q, r, made, seq[k])>> \in kept
  PROVE  <<n, Loop(p, q, r, base, seq)>> \in kept
<1> DEFINE iter == Passes(p, q, r, base, seq)
<1>1. Unfolds(iter, p, q, r, base, seq, n)
  <2>1. \E h : Unfolds(h, p, q, r, base, seq, n)
    BY PassesExist
  <2> QED BY <2>1, Zenon DEF Passes, Unfolds
<1>2. iter[{}] = base
  BY <1>1 DEF Unfolds
<1>3. ASSUME NEW k \in 1..n PROVE iter[1..k] = Pass(p, q, r, iter[1..k - 1], seq[k])
  <2>1. Max(1..k) = k
    <3>1. 1..k \in SUBSET Int /\ k \in 1..k /\ \A y \in 1..k : y <= k
      OBVIOUS
    <3> QED BY <3>1, MaxIs
  <2>2. 1..k \in SUBSET (1..n) /\ k \in 1..k
    OBVIOUS
  <2>3. (1..k) \ {k} = 1..k - 1
    OBVIOUS
  <2> HIDE DEF iter
  <2> QED BY <1>1, <2>1, <2>2, <2>3 DEF Unfolds
<1> DEFINE S == {k \in 0..n : <<k, iter[1..k]>> \in kept}
<1> HIDE DEF iter
<1>4. 0 \in S
  <2>1. 1..0 = {}
    OBVIOUS
  <2> QED BY <1>2, <2>1
<1>5. \A k \in 0..n - 1 : k \in S => k + 1 \in S
  <2> SUFFICES ASSUME NEW k \in 0..n - 1, k \in S PROVE k + 1 \in S
    OBVIOUS
  <2>1. k + 1 \in 1..n /\ (k + 1) - 1 = k
    OBVIOUS
  <2>2. iter[1..k + 1] = Pass(p, q, r, iter[1..k], seq[k + 1])
    BY <1>3, <2>1
  <2> QED BY <2>1, <2>2
<1>6. \A k \in 0..n : k \in S
  <2> HIDE DEF S
  <2> QED BY <1>4, <1>5, BoundedInduction
<1> QED BY <1>6 DEF Loop, iter
=============================================================================
