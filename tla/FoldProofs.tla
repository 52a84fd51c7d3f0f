----------------------------- MODULE FoldProofs -----------------------------
(***************************************************************************)
(* A fold is a run of its operator along the sequence: the loops that the  *)
(* model writes with FoldLeft can be followed pass by pass, by induction   *)
(* over the number of passes.  Likewise for a function that is defined by  *)
(* recursion over the naturals.  Op is a parameter of the module, which is *)
(* instantiated for each operator that is folded or repeated.              *)
(***************************************************************************)
EXTENDS Integers, Sequences, SequencesExt, WellFoundedInduction, TLAPS

CONSTANT Op(_, _)

(* A set of natural numbers that is not empty has a least element.         *)
LEMMA LeastNat ==
  ASSUME NEW T, T \subseteq Nat, T # {}
  PROVE  \E m \in T : \A n \in T : m <= n
<1> DEFINE R == OpToRel(<, Nat)
<1>1. IsWellFoundedOn(R, Nat)
  BY NatLessThanWellFounded
<1>2. \A x, y \in Nat : x < y => <<x, y>> \in R
  BY DEF OpToRel
<1> HIDE DEF R
<1>3. PICK m \in T : \A n \in T : ~(<<n, m>> \in R)
  BY <1>1, WFMin
<1>4. \A n \in T : ~(n < m)
  BY <1>2, <1>3
<1> QED BY <1>3, <1>4

(* What holds before the first pass and is kept by every pass holds after  *)
(* each of n passes.                                                       *)
LEMMA PassInduction ==
  ASSUME NEW n \in Nat, NEW T, 0 \in T,
         \A k \in 0 .. n - 1 : k \in T => k + 1 \in T
  PROVE  \A k \in 0 .. n : k \in T
<1> DEFINE B == {k \in 0 .. n : k \notin T}
<1> SUFFICES ASSUME B # {} PROVE FALSE
  OBVIOUS
<1>1. B \subseteq Nat
  OBVIOUS
<1> HIDE DEF B
<1>2. PICK m \in B : \A k \in B : m <= k
  BY <1>1, LeastNat
<1> USE DEF B
<1>3. m # 0 /\ m \in 0 .. n /\ m \notin T
  BY <1>2
<1>4. m - 1 \in 0 .. n - 1 /\ m - 1 \notin B /\ (m - 1) + 1 = m
  BY <1>2, <1>3
<1>5. m - 1 \in T
  BY <1>4
<1> QED BY <1>3, <1>4, <1>5

-----------------------------------------------------------------------------
\* The equation that defines the fold of s, on the parts of 1 .. k.
Folds(h, base, s, k) ==
  h = [t \in SUBSET (1 .. k) |->
         IF t = {} THEN base ELSE Op(h[t \ {Max(t)}], s[Max(t)])]

(* Max is the greatest element of a set that has one.                      *)
LEMMA MaxIs ==
  ASSUME NEW T, T \subseteq Nat, NEW m \in T, \A n \in T : n <= m
  PROVE  Max(T) = m
<1>1. \E x \in T : \A y \in T : x >= y
  OBVIOUS
<1>2. Max(T) \in T /\ \A n \in T : Max(T) >= n
  BY <1>1 DEF Max
<1> DEFINE x == Max(T)
<1>3. x \in Nat /\ m \in Nat /\ x <= m /\ x >= m
  BY <1>2
<1> HIDE DEF x
<1>4. x = m
  BY <1>3
<1> QED BY <1>4 DEF x

(* The equation has a solution.                                            *)
LEMMA FoldsExist ==
  ASSUME NEW base, NEW s, NEW n \in Nat
  PROVE  \E h : Folds(h, base, s, n)
<1> DEFINE T == {k \in Nat : \E h : Folds(h, base, s, k)}
<1>1. 0 \in T
  <2> DEFINE h == [t \in SUBSET (1 .. 0) |-> base]
  <2>1. \A t \in SUBSET (1 .. 0) : t = {}
    OBVIOUS
  <2>2. Folds(h, base, s, 0)
    BY <2>1 DEF Folds
  <2> QED BY <2>2
<1>2. ASSUME NEW k \in 0 .. n - 1, k \in T PROVE k + 1 \in T
  <2>1. PICK h : Folds(h, base, s, k)
    BY <1>2
  <2> DEFINE g == [t \in SUBSET (1 .. k + 1) |->
                     IF k + 1 \in t THEN Op(h[t \ {k + 1}], s[k + 1]) ELSE h[t]]
  <2>2. ASSUME NEW t \in SUBSET (1 .. k + 1)
        PROVE  g[t] = IF t = {} THEN base ELSE Op(g[t \ {Max(t)}], s[Max(t)])
    <3>1. CASE k + 1 \in t
      <4>1. Max(t) = k + 1
        <5> DEFINE m == k + 1
        <5>1. t \subseteq Nat /\ m \in t /\ \A i \in t : i <= m
          BY <3>1
        <5> HIDE DEF m
        <5>2. Max(t) = m
          BY <5>1, MaxIs
        <5> QED BY <5>2 DEF m
      <4>2. t \ {k + 1} \in SUBSET (1 .. k + 1) /\ k + 1 \notin t \ {k + 1}
        OBVIOUS
      <4>3. g[t \ {k + 1}] = h[t \ {k + 1}]
        BY <4>2
      <4>4. g[t] = Op(h[t \ {k + 1}], s[k + 1])
        BY <3>1
      <4> QED BY <3>1, <4>1, <4>3, <4>4
    <3>2. CASE k + 1 \notin t
      <4>1. t \in SUBSET (1 .. k)
        BY <3>2
      <4>2. g[t] = h[t]
        BY <3>2
      <4>3. h[t] = IF t = {} THEN base ELSE Op(h[t \ {Max(t)}], s[Max(t)])
        BY <2>1, <4>1 DEF Folds
      <4>4. t \ {Max(t)} \in SUBSET (1 .. k + 1) /\ k + 1 \notin t \ {Max(t)}
        BY <3>2
      <4>5. g[t \ {Max(t)}] = h[t \ {Max(t)}]
        BY <4>4
      <4> QED BY <4>2, <4>3, <4>5
    <3> QED BY <3>1, <3>2
  <2>3. g = [t \in SUBSET (1 .. k + 1) |-> g[t]]
    OBVIOUS
  <2> HIDE DEF g
  <2>4. Folds(g, base, s, k + 1)
    BY <2>2, <2>3 DEF Folds
  <2> QED BY <2>4
<1> HIDE DEF T
<1>3. n \in T
  BY <1>1, <1>2, PassInduction
<1> QED BY <1>3 DEF T

(* The values between the passes.                                          *)
LEMMA FoldRuns ==
  ASSUME NEW S, NEW s \in Seq(S), NEW base
  PROVE  \E f : /\ f[0] = base
                /\ \A k \in 0 .. Len(s) - 1 : f[k + 1] = Op(f[k], s[k + 1])
                /\ FoldLeft(Op, base, s) = f[Len(s)]
<1> DEFINE n == Len(s)
           h == CHOOSE h : Folds(h, base, s, n)
           f == [k \in 0 .. n |-> h[1 .. k]]
<1>1. n \in Nat /\ DOMAIN s = 1 .. n
  OBVIOUS
<1>2. Folds(h, base, s, n)
  BY <1>1, FoldsExist
<1>3. FoldLeft(Op, base, s) = h[1 .. n]
  BY <1>1 DEF FoldLeft, MapThenFoldSet, Folds
<1> HIDE DEF h
<1>4. f[0] = base
  BY <1>1, <1>2 DEF Folds
<1>5. ASSUME NEW k \in 0 .. n - 1 PROVE f[k + 1] = Op(f[k], s[k + 1])
  <2> DEFINE m == k + 1
             T == 1 .. m
  <2>0. m \in 1 .. n /\ k \in 0 .. n /\ m \in 0 .. n
    BY <1>1
  <2>1. T \ {m} = 1 .. k
    BY <1>1
  <2> HIDE DEF m
  <2>2. T \in SUBSET (1 .. n) /\ T # {} /\ T \subseteq Nat /\ m \in T
        /\ \A i \in T : i <= m
    <3>1. \A i \in T : i \in 1 .. n /\ i \in Nat /\ i <= m
      BY <1>1, <2>0
    <3>2. m \in T
      BY <1>1, <2>0
    <3> HIDE DEF T
    <3> QED BY <3>1, <3>2
  <2> HIDE DEF T
  <2>3. Max(T) = m
    BY <2>2, MaxIs
  <2>4. h[T] = IF T = {} THEN base ELSE Op(h[T \ {Max(T)}], s[Max(T)])
    BY <1>2, <2>2 DEF Folds
  <2>5. h[T] = Op(h[1 .. k], s[m])
    BY <2>1, <2>2, <2>3, <2>4
  <2>6. f[k] = h[1 .. k] /\ f[m] = h[T]
    BY <2>0 DEF T
  <2> QED BY <2>5, <2>6 DEF m
<1>6. f[n] = h[1 .. n]
  BY <1>1
<1> QED BY <1>3, <1>4, <1>5, <1>6

-----------------------------------------------------------------------------
(* A function by recursion over the naturals, where Op makes of the value   *)
(* before n that at n, and at 0 asks for no value before.                   *)
Recurs(g) == g = [n \in Nat |-> Op(g[n - 1], n)]
RecursTo(h, k) == h = [n \in 0 .. k |-> Op(h[n - 1], n)]

(* The equation has a solution up to every number, ...                      *)
LEMMA RecursionTo ==
  ASSUME \A x, y : Op(x, 0) = Op(y, 0), NEW k \in Nat
  PROVE  \E h : RecursTo(h, k)
<1> DEFINE T == {m \in 0 .. k : \E h : RecursTo(h, m)}
<1>1. 0 \in T
  <2> DEFINE h == [n \in 0 .. 0 |-> Op(0, 0)]
  <2>1. \A n \in 0 .. 0 : n = 0
    OBVIOUS
  <2>2. \A n \in 0 .. 0 : h[n] = Op(h[n - 1], n)
    BY <2>1
  <2>3. h = [n \in 0 .. 0 |-> h[n]]
    OBVIOUS
  <2> HIDE DEF h
  <2>4. h = [n \in 0 .. 0 |-> Op(h[n - 1], n)]
    BY <2>2, <2>3
  <2> QED BY <2>4 DEF RecursTo
<1>2. ASSUME NEW m \in 0 .. k - 1, m \in T PROVE m + 1 \in T
  <2>1. PICK h : RecursTo(h, m)
    BY <1>2
  <2> DEFINE g == [n \in 0 .. m + 1 |-> IF n \in 0 .. m THEN h[n] ELSE Op(h[m], m + 1)]
  <2>2. \A n \in 0 .. m : h[n] = Op(h[n - 1], n)
    BY <2>1 DEF RecursTo
  <2>3. ASSUME NEW n \in 0 .. m + 1 PROVE g[n] = Op(g[n - 1], n)
    <3>1. ASSUME n = 0 PROVE g[n] = Op(g[n - 1], n)
      <4>1. 0 \in 0 .. m /\ 0 \in 0 .. m + 1
        OBVIOUS
      <4>2. g[0] = Op(h[0 - 1], 0)
        BY <2>2, <4>1
      <4> QED BY <3>1, <4>2
    <3>2. ASSUME n \in 1 .. m PROVE g[n] = Op(g[n - 1], n)
      <4>1. n \in 0 .. m /\ n - 1 \in 0 .. m /\ n - 1 \in 0 .. m + 1
        BY <3>2
      <4>2. g[n - 1] = h[n - 1] /\ g[n] = h[n]
        BY <4>1
      <4> QED BY <2>2, <4>1, <4>2
    <3>3. ASSUME n = m + 1 PROVE g[n] = Op(g[n - 1], n)
      <4>1. n - 1 = m /\ n \notin 0 .. m /\ m \in 0 .. m /\ m \in 0 .. m + 1
        BY <3>3
      <4>2. g[m] = h[m] /\ g[n] = Op(h[m], m + 1)
        BY <4>1
      <4> QED BY <3>3, <4>1, <4>2
    <3> QED BY <3>1, <3>2, <3>3
  <2>4. g = [n \in 0 .. m + 1 |-> g[n]]
    OBVIOUS
  <2> HIDE DEF g
  <2>5. g = [n \in 0 .. m + 1 |-> Op(g[n - 1], n)]
    BY <2>3, <2>4
  <2>6. RecursTo(g, m + 1)
    BY <2>5 DEF RecursTo
  <2> QED BY <2>6
<1> HIDE DEF T
<1>3. k \in T
  BY <1>1, <1>2, PassInduction
<1> QED BY <1>3 DEF T

(* ... and only one, ...                                                    *)
LEMMA RecursionAgrees ==
  ASSUME \A x, y : Op(x, 0) = Op(y, 0),
         NEW k \in Nat, NEW m \in Nat, k <= m,
         NEW h, NEW e, RecursTo(h, k), RecursTo(e, m)
  PROVE  \A n \in 0 .. k : h[n] = e[n]
<1> DEFINE T == {n \in 0 .. k : h[n] = e[n]}
<1>1. /\ \A n \in 0 .. k : h[n] = Op(h[n - 1], n)
      /\ \A n \in 0 .. k : e[n] = Op(e[n - 1], n)
  <2>1. \A n \in 0 .. k : n \in 0 .. m
    OBVIOUS
  <2> QED BY <2>1 DEF RecursTo
<1>2. 0 \in T
  <2>1. 0 \in 0 .. k
    OBVIOUS
  <2>2. h[0] = Op(h[0 - 1], 0) /\ e[0] = Op(e[0 - 1], 0)
    BY <1>1, <2>1
  <2> QED BY <2>1, <2>2
<1>3. ASSUME NEW n \in 0 .. k - 1, n \in T PROVE n + 1 \in T
  <2>1. n + 1 \in 0 .. k /\ (n + 1) - 1 = n
    OBVIOUS
  <2>2. h[n + 1] = Op(h[n], n + 1) /\ e[n + 1] = Op(e[n], n + 1)
    BY <1>1, <2>1
  <2> QED BY <1>3, <2>1, <2>2
<1> HIDE DEF T
<1>4. \A n \in 0 .. k : n \in T
  BY <1>2, <1>3, PassInduction
<1> QED BY <1>4 DEF T

(* ... so that there is one on all of them.                                 *)
LEMMA RecursionHolds ==
  ASSUME \A x, y : Op(x, 0) = Op(y, 0)
  PROVE  \E g : Recurs(g)
<1> DEFINE H(n) == CHOOSE h : RecursTo(h, n)
           g == [n \in Nat |-> H(n)[n]]
<1>1. \A n \in Nat : RecursTo(H(n), n)
  BY RecursionTo
<1> HIDE DEF H
<1>2. ASSUME NEW n \in Nat PROVE g[n] = Op(g[n - 1], n)
  <2>1. H(n)[n] = Op(H(n)[n - 1], n)
    <3>1. n \in 0 .. n
      OBVIOUS
    <3> QED BY <1>1, <3>1 DEF RecursTo
  <2>2. CASE n = 0
    BY <2>1, <2>2
  <2>3. CASE n # 0
    <3>1. n - 1 \in Nat /\ n - 1 <= n /\ n - 1 \in 0 .. n - 1
      BY <2>3
    <3>2. RecursTo(H(n - 1), n - 1) /\ RecursTo(H(n), n)
      BY <1>1, <3>1
    <3> DEFINE m == n - 1
    <3>3. H(m)[m] = H(n)[m]
      <4>1. m \in Nat /\ m <= n /\ m \in 0 .. m
        BY <3>1
      <4>2. RecursTo(H(m), m) /\ RecursTo(H(n), n)
        BY <3>2
      <4> HIDE DEF m
      <4> QED BY <4>1, <4>2, RecursionAgrees
    <3>4. g[n - 1] = H(n - 1)[n - 1]
      BY <3>1
    <3> QED BY <2>1, <3>3, <3>4
  <2> QED BY <2>2, <2>3
<1>3. g = [n \in Nat |-> g[n]]
  OBVIOUS
<1> HIDE DEF g
<1>4. g = [n \in Nat |-> Op(g[n - 1], n)]
  BY <1>2, <1>3
<1> QED BY <1>4 DEF Recurs
=============================================================================
