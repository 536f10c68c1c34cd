----------------------------- MODULE FoldLemmas -----------------------------
(****************************************************************************)
(* A loop over a list is a fold: a function of sets of places that takes    *)
(* the last place of a set last.  These lemmas say that the fold exists and *)
(* what it computes for the first k places of the list.                     *)
(****************************************************************************)
EXTENDS Integers, FiniteSetsExt, FiniteSetTheorems, WellFoundedInduction, TLAPS

(* The last of the places of a list, and those before it.                   *)
LEMMA LastPlace ==
    ASSUME NEW k \in Nat, k # 0
    PROVE  1..k # {} /\ Max(1..k) = k /\ (1..k) \ {Max(1..k)} = 1..(k - 1)
<1>1. Max(1..k) = k
  BY DEF Max
<1> QED  BY <1>1

(* A set of numbers with an upper bound has a greatest one.                 *)
LEMMA BoundedHasMax ==
    ASSUME NEW n \in Nat, NEW T, T \subseteq 0..n, T # {}
    PROVE  Max(T) \in T /\ \A y \in T : y <= Max(T)
<1> DEFINE R == OpToRel(<, Nat)
           U == {n - x : x \in T}
<1>1. IsWellFoundedOn(R, Nat)
  BY NatLessThanWellFounded
<1> HIDE DEF R
<1>2. U \subseteq Nat /\ U # {}
  <2>1. PICK x \in T : TRUE
    OBVIOUS
  <2>2. n - x \in U
    OBVIOUS
  <2>3. \A y \in T : n - y \in Nat
    OBVIOUS
  <2> QED BY <2>2, <2>3
<1> HIDE DEF U
<1>3. PICK u \in U : \A v \in U : ~(<<v, u>> \in R)
  BY <1>1, <1>2, WFMin
<1>4. \A v \in U : ~(v < u)
  BY <1>2, <1>3 DEF R, OpToRel
<1>5. PICK x \in T : u = n - x
  BY DEF U
<1>6. \A y \in T : x >= y
  <2> SUFFICES ASSUME NEW y \in T
               PROVE  x >= y
    OBVIOUS
  <2>1. n - y \in U
    BY DEF U
  <2> QED BY <1>4, <1>5, <2>1
<1>7. Max(T) \in T /\ \A y \in T : Max(T) >= y
  BY <1>6 DEF Max
<1> QED BY <1>7

(* Of finitely many things with a rank one has the greatest.                *)
LEMMA GreatestExists ==
    ASSUME NEW S, IsFiniteSet(S), S # {}, NEW f \in [S -> Nat]
    PROVE  \E x \in S : \A y \in S : f[y] <= f[x]
<1> DEFINE HasMax(U) == \E x \in U : \A y \in U : f[y] <= f[x]
           T == {k \in Nat : \E U \in SUBSET S :
                                 IsFiniteSet(U) /\ U # {} /\ Cardinality(U) = k /\ ~HasMax(U)}
<1> SUFFICES ASSUME ~HasMax(S) PROVE FALSE
  OBVIOUS
<1> HIDE DEF HasMax
<1>1. Cardinality(S) \in T
  BY FS_CardinalityType
<1>2. PICK k \in T : \A j \in T : ~(<<j, k>> \in OpToRel(<, Nat))
  BY <1>1, NatLessThanWellFounded, WFMin
<1>3. PICK U \in SUBSET S :
          IsFiniteSet(U) /\ U # {} /\ Cardinality(U) = k /\ ~HasMax(U)
  OBVIOUS
<1>4. PICK x \in U : TRUE
  BY <1>3
<1>5. \A y \in U : f[y] \in Nat
  OBVIOUS
<1> DEFINE V == U \ {x}
<1>6. V \in SUBSET S /\ IsFiniteSet(V) /\ Cardinality(V) = k - 1 /\ k \in Nat
  BY <1>3, <1>4, FS_RemoveElement
<1>7. Cardinality(V) \in Nat
  BY <1>6, FS_CardinalityType
<1>8. V # {}
  <2>1. SUFFICES ASSUME V = {} PROVE FALSE
    OBVIOUS
  <2>2. \A y \in U : y = x
    BY <2>1
  <2>3. HasMax(U)
    BY <1>4, <1>5, <2>2 DEF HasMax
  <2> QED  BY <1>3, <2>3
<1>9. HasMax(V)
  <2>1. SUFFICES ASSUME ~HasMax(V) PROVE FALSE
    OBVIOUS
  <2>2. k - 1 \in T
    BY <1>6, <1>7, <1>8, <2>1
  <2>3. <<k - 1, k>> \in OpToRel(<, Nat)
    BY <1>6, <1>7 DEF OpToRel
  <2> QED  BY <1>2, <2>2, <2>3
<1>10. PICK m \in V : \A y \in V : f[y] <= f[m]
  BY <1>9 DEF HasMax
<1>11. \A y \in U : y = x \/ y \in V
  OBVIOUS
<1>12. HasMax(U)
  <2>1. CASE f[x] <= f[m]
    BY <1>10, <1>11, <2>1 DEF HasMax
  <2>2. CASE ~(f[x] <= f[m])
    <3>1. \A y \in U : f[y] <= f[x]
      BY <1>5, <1>10, <1>11, <2>2
    <3> QED  BY <1>4, <3>1 DEF HasMax
  <2> QED  BY <2>1, <2>2
<1> QED  BY <1>3, <1>12

(* What the loop does at each of some places.                               *)
Steps(S, A) == [S -> [A -> A]]

(* f is the fold of the steps h[i] over the places S.                       *)
IsFold(f, S, A, base, h) ==
    /\ f \in [SUBSET S -> A]
    /\ \A d \in SUBSET S : f[d] = IF d = {} THEN base ELSE h[Max(d)][f[d \ {Max(d)}]]

(* acc[k] is what was computed after the first k places.                    *)
IsRun(acc, n, A, base, h) ==
    /\ acc \in [0..n -> A]
    /\ acc[0] = base
    /\ \A k \in 1..n : acc[k] = h[k][acc[k - 1]]

(* A fold exists, whatever a step of the loop makes of what was computed    *)
(* before.                                                                  *)
LEMMA FoldExists ==
    ASSUME NEW n \in Nat, NEW S \in SUBSET (0..n), NEW A, NEW base \in A, NEW h \in Steps(S, A)
    PROVE  \E f : IsFold(f, S, A, base, h)
<1> DEFINE Below(m) == {x \in S : x < m}
           Fold(f, m) == IsFold(f, Below(m), A, base, h)
           T == {m \in Nat : ~\E f : Fold(f, m)}
<1>0. h \in [S -> [A -> A]]
  BY DEF Steps
<1> SUFFICES ASSUME ~\E f : IsFold(f, S, A, base, h) PROVE FALSE
  OBVIOUS
<1>1. n + 1 \in T
  <2>1. Below(n + 1) = S
    <3>1. \A y \in S : y \in 0..n
      OBVIOUS
    <3>2. \A y \in S : y < n + 1
      BY <3>1
    <3> HIDE DEF Fold, T
    <3> QED  BY <3>2
  <2> HIDE DEF Below
  <2>2. ~\E f : Fold(f, n + 1)
    BY <2>1
  <2> HIDE DEF Fold
  <2> QED  BY <2>2
<1> HIDE DEF Fold
<1>2. PICK m \in T : \A k \in T : ~(<<k, m>> \in OpToRel(<, Nat))
  BY <1>1, NatLessThanWellFounded, WFMin
<1>3. m \in Nat /\ ~\E f : Fold(f, m)
  OBVIOUS
<1>4. m # 0
  <2>1. SUFFICES ASSUME m = 0 PROVE FALSE
    OBVIOUS
  <2>2. Below(m) = {}
    <3>1. \A y \in S : y \in 0..n
      OBVIOUS
    <3>2. \A y \in S : ~(y < 0)
      BY <3>1
    <3> HIDE DEF T
    <3> QED  BY <2>1, <3>2
  <2> HIDE DEF Below
  <2>3. \A d \in SUBSET Below(m) : d = {}
    BY <2>2
  <2>4. Fold([d \in SUBSET Below(m) |-> base], m)
    BY <2>3 DEF Fold, IsFold
  <2> QED  BY <1>3, <2>4
<1> DEFINE x == m - 1
<1>5. x \in Nat /\ x < m
  BY <1>3, <1>4
<1>6. PICK f : Fold(f, x)
  <2>1. <<x, m>> \in OpToRel(<, Nat)
    BY <1>3, <1>5 DEF OpToRel
  <2> QED  BY <1>2, <1>5, <2>1
<1>7. \A y \in Below(m) : y \in Below(x) \/ (y = x /\ x \in S)
  BY <1>3, <1>5
<1>8. \A y \in Below(x) : y \in Below(m) /\ y \in Nat /\ y < x
  BY <1>3, <1>5
<1> HIDE DEF x, Below
<1> DEFINE g == [d \in SUBSET Below(m) |-> IF x \in d THEN h[x][f[d \ {x}]] ELSE f[d]]
<1>9. ASSUME NEW d \in SUBSET Below(m)
      PROVE  /\ x \in d => /\ d \ {x} \in SUBSET Below(x) /\ Max(d) = x /\ x \in S
                           /\ g[d] = h[x][f[d \ {x}]] /\ g[d \ {x}] = f[d \ {x}]
             /\ x \notin d => d \in SUBSET Below(x) /\ g[d] = f[d]
  <2>1. ASSUME x \in d PROVE Max(d) = x
    <3>1. \A y \in d : x >= y /\ (y >= x => y = x)
      BY <1>5, <1>7, <1>8
    <3> HIDE DEF g, T
    <3> QED  BY <2>1, <3>1 DEF Max
  <2>2. x \in d => d \ {x} \in SUBSET Below(x) /\ d \ {x} \in SUBSET Below(m) /\ x \in S
    BY <1>5, <1>7, <1>8
  <2>3. x \notin d => d \in SUBSET Below(x)
    BY <1>7
  <2> QED  BY <2>1, <2>2, <2>3
<1>10. g \in [SUBSET Below(m) -> A]
  <2>1. ASSUME NEW d \in SUBSET Below(m) PROVE g[d] \in A
    <3>1. CASE x \in d
      <4>1. f[d \ {x}] \in A /\ h[x] \in [A -> A]
        BY <1>0, <1>6, <1>9, <3>1 DEF Fold, IsFold
      <4> QED  BY <1>9, <3>1, <4>1
    <3>2. CASE x \notin d
      BY <1>6, <1>9, <3>2 DEF Fold, IsFold
    <3> QED  BY <3>1, <3>2
  <2> QED  BY <2>1
<1> HIDE DEF g
<1>11. ASSUME NEW d \in SUBSET Below(m)
       PROVE  g[d] = IF d = {} THEN base ELSE h[Max(d)][g[d \ {Max(d)}]]
  <2>1. CASE x \in d
    <3>1. Max(d) = x /\ g[d] = h[x][f[d \ {x}]] /\ g[d \ {x}] = f[d \ {x}]
      BY <1>9, <2>1
    <3>2. d # {}
      BY <2>1
    <3> QED  BY <3>1, <3>2
  <2>2. CASE x \notin d
    <3>1. g[d] = f[d] /\ d \in SUBSET Below(x)
      BY <1>9, <2>2
    <3>2. g[d \ {Max(d)}] = f[d \ {Max(d)}]
      BY <1>9, <2>2
    <3> QED  BY <1>6, <3>1, <3>2 DEF Fold, IsFold
  <2> QED  BY <2>1, <2>2
<1>12. Fold(g, m)
  BY <1>10, <1>11 DEF Fold, IsFold
<1> QED  BY <1>3, <1>12

(* The fold of the first k places takes one step more than that of the      *)
(* first k - 1.                                                             *)
TakesSteps(f, n, A, base, h) ==
    /\ f[{}] = base
    /\ \A k \in 1..n : f[1..(k - 1)] \in A => f[1..k] = h[k][f[1..(k - 1)]]

(* Such a fold is what the loop has computed at its end.                    *)
LEMMA FoldSteps ==
    ASSUME NEW n \in Nat, NEW A, NEW base \in A, NEW h \in Steps(1..n, A),
           NEW f, TakesSteps(f, n, A, base, h)
    PROVE  \E acc : IsRun(acc, n, A, base, h) /\ acc[n] = f[1..n]
<1> DEFINE acc == [k \in 0..n |-> f[1..k]]
           T == {k \in 0..n : acc[k] \notin A}
<1>1. acc[0] = base
  <2>1. 1..0 = {} /\ 0 \in 0..n
    OBVIOUS
  <2> QED  BY <2>1 DEF TakesSteps
<1>2. ASSUME NEW k \in 1..n, acc[k - 1] \in A PROVE acc[k] = h[k][acc[k - 1]]
  <2>1. k \in 0..n /\ k - 1 \in 0..n
    OBVIOUS
  <2>2. acc[k] = f[1..k] /\ acc[k - 1] = f[1..(k - 1)]
    BY <2>1
  <2> QED  BY <1>2, <2>2 DEF TakesSteps
<1>3. acc[n] = f[1..n] /\ DOMAIN acc = 0..n /\ acc = [k \in 0..n |-> acc[k]]
  OBVIOUS
<1> HIDE DEF acc
<1>4. T = {}
  <2> SUFFICES ASSUME T # {} PROVE FALSE
    OBVIOUS
  <2>1. PICK k \in T : \A j \in T : ~(<<j, k>> \in OpToRel(<, Nat))
    <3>1. T \subseteq Nat
      OBVIOUS
    <3> HIDE DEF T
    <3> QED  BY <3>1, NatLessThanWellFounded, WFMin
  <2>2. k \in 0..n /\ acc[k] \notin A
    OBVIOUS
  <2>3. k # 0
    BY <1>1, <2>2
  <2>4. k - 1 \in 0..n /\ k \in 1..n /\ <<k - 1, k>> \in OpToRel(<, Nat)
    BY <2>2, <2>3 DEF OpToRel
  <2>5. acc[k - 1] \in A
    BY <2>1, <2>4
  <2>6. acc[k] = h[k][acc[k - 1]]
    BY <1>2, <2>4, <2>5
  <2>7. h[k] \in [A -> A]
    BY <2>4 DEF Steps
  <2>8. h[k][acc[k - 1]] \in A
    BY <2>5, <2>7
  <2> QED  BY <2>2, <2>6, <2>8
<1>5. \A k \in 0..n : acc[k] \in A
  BY <1>4
<1>6. \A k \in 1..n : k - 1 \in 0..n
  OBVIOUS
<1>7. IsRun(acc, n, A, base, h)
  BY <1>1, <1>2, <1>3, <1>5, <1>6 DEF IsRun
<1> QED  BY <1>3, <1>7
=============================================================================
