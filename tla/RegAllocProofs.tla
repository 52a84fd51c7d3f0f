--------------------------- MODULE RegAllocProofs ---------------------------
(***************************************************************************)
(* Register allocation, for every count of registers, every capacity and   *)
(* every length of program.  First what the operators of the table return, *)
(* for every table: the scan for a register always stops, an entry is      *)
(* found where it is, allocation appends one entry and freeing removes     *)
(* one.  Then that a register handed out has a name in the table, whatever *)
(* the resizes of the table do to it; and that until a resize clears an    *)
(* entry, the table describes exactly the values that wait.                *)
(***************************************************************************)
EXTENDS RegAlloc, ListTProofs, WellFoundedInduction

-----------------------------------------------------------------------------
(* The table.                                                              *)

\* The three loops of asmgen.c that the model writes as folds.
Scan  == INSTANCE FoldProofs WITH Op <- ScanPass
Adds  == INSTANCE FoldProofs WITH Op <- ListAppend
Clear == INSTANCE FoldProofs WITH Op <- ClearPass

(* A set of natural numbers that is not empty has a least element.         *)
LEMMA LeastNat ==
  ASSUME NEW T, T \subseteq Nat, T # {}
  PROVE  \E m \in T : \A n \in T : m <= n
<1> DEFINE R == OpToRel(<, Nat)
<1>1. IsWellFoundedOn(R, Nat)
  BY NatLessThanWellFounded
<1>2. \A x, y \in Nat : x < y => <<x, y>> \in R
  BY DEF OpToRel
<1> HIDE DEF R
<1>3. PICK m \in T : \A n \in T : ~(<<n, m>> \in R)
  BY <1>1, WFMin
<1>4. \A n \in T : ~(n < m)
  BY <1>2, <1>3
<1> QED BY <1>3, <1>4

(* EntryOf is the index of the first entry of the temporary, or 0.         *)
LEMMA EntryOfFacts ==
  ASSUME NEW S, NEW t, t.items \in Seq(S), NEW tmp
  PROVE  LET h == EntryOf(t, tmp)
         IN  \/ h = 0 /\ ~HasEntry(t, tmp)
             \/ h \in 1 .. Len(t.items) /\ Tmp(t.items[h]) = tmp
<1> DEFINE I == {i \in 1 .. Len(t.items) : Tmp(t.items[i]) = tmp}
<1>1. EntryOf(t, tmp) = IF I # {} THEN Min(I) ELSE 0
  BY DEF EntryOf, FirstCell, SelectInSeq
<1>2. CASE I = {}
  BY <1>1, <1>2 DEF HasEntry
<1>3. CASE I # {}
  <2>1. I \subseteq Nat
    OBVIOUS
  <2> HIDE DEF I
  <2>2. \E m \in I : \A n \in I : m <= n
    BY <1>3, <2>1, LeastNat
  <2>3. Min(I) \in I
    BY <2>2 DEF Min
  <2> USE DEF I
  <2> QED BY <1>1, <1>3, <2>3
<1> QED BY <1>2, <1>3

-----------------------------------------------------------------------------
(* Numbers found in order need as many entries.                            *)
LEMMA InOrderBound ==
  ASSUME NEW S, NEW items \in Seq(S), NEW n \in Nat, PassesInOrder(items, n)
  PROVE  n <= Len(items)
<1>1. PICK at \in [0 .. n - 1 -> 1 .. Len(items)] :
        \A j, k \in 0 .. n - 1 : j < k => at[j] < at[k]
  BY DEF PassesInOrder
<1> DEFINE B == {k \in 0 .. n - 1 : at[k] < k + 1}
<1>2. B = {}
  <2> SUFFICES ASSUME B # {} PROVE FALSE
    OBVIOUS
  <2> HIDE DEF B
  <2>0. B \subseteq Nat
    BY DEF B
  <2>1. PICK m \in B : \A k \in B : m <= k
    BY <2>0, LeastNat
  <2> USE DEF B
  <2>2. m # 0
    BY <1>1, <2>1
  <2>3. m - 1 \in 0 .. n - 1 /\ m - 1 \notin B /\ m \in 0 .. n - 1
    BY <2>1, <2>2
  <2>4. at[m - 1] < at[m] /\ at[m - 1] \in Nat /\ at[m] \in Nat
    BY <1>1, <2>1, <2>2, <2>3
  <2> QED BY <2>1, <2>3, <2>4
<1>3. CASE n = 0
  BY <1>3
<1>4. CASE n # 0
  <2>1. n - 1 \in 0 .. n - 1
    BY <1>4
  <2>2. at[n - 1] \in 1 .. Len(items)
    BY <2>1
  <2>3. ~(at[n - 1] < (n - 1) + 1)
    BY <1>2, <2>1
  <2> QED BY <2>2, <2>3
<1> QED BY <1>3, <1>4

(* The scan of tmpv_alloc_reg stops at some number, which it has reached.  *)
LEMMA ScanStops ==
  ASSUME NEW S, NEW items \in Seq(S)
  PROVE  /\ ScanStop(items) \in 0 .. Len(items)
         /\ PassesInOrder(items, ScanStop(items))
<1> DEFINE T == {n \in Nat : ~PassesInOrder(items, n)}
<1>1. Len(items) + 1 \in T
  BY InOrderBound
<1>2. PICK m \in T : \A n \in T : m <= n
  <2>1. T \subseteq Nat /\ T # {}
    BY <1>1
  <2> HIDE DEF T
  <2> QED BY <2>1, LeastNat
<1>3. PassesInOrder(items, 0)
  <2> DEFINE none == [k \in 0 .. 0 - 1 |-> k]
  <2>1. 0 .. 0 - 1 = {}
    OBVIOUS
  <2>2. none \in [0 .. 0 - 1 -> 1 .. Len(items)]
    BY <2>1
  <2>3. /\ \A k \in 0 .. 0 - 1 : Loc(items[none[k]]) = k
        /\ \A j, k \in 0 .. 0 - 1 : j < k => none[j] < none[k]
    BY <2>1
  <2> HIDE DEF none
  <2> QED BY <2>2, <2>3 DEF PassesInOrder
<1>4. m # 0
  BY <1>2, <1>3
<1>5. m - 1 \in 0 .. Len(items) /\ m - 1 \notin T /\ (m - 1) + 1 = m
  BY <1>1, <1>2, <1>4
<1>6. \E n \in 0 .. Len(items) :
        PassesInOrder(items, n) /\ ~PassesInOrder(items, n + 1)
  BY <1>2, <1>5
<1> QED BY <1>6 DEF ScanStop

-----------------------------------------------------------------------------
\* PassesInOrder, among the first k entries.
PassesWithin(items, k, n) ==
  \E at \in [0 .. n - 1 -> 1 .. k] :
    /\ \A j \in 0 .. n - 1 : Loc(items[at[j]]) = j
    /\ \A i, j \in 0 .. n - 1 : i < j => at[i] < at[j]

(* The numbers below one that is passed are passed too.                    *)
LEMMA PassesFewer ==
  ASSUME NEW items, NEW k \in Nat, NEW n \in Nat, NEW m \in 0 .. n,
         PassesWithin(items, k, n)
  PROVE  PassesWithin(items, k, m)
<1>1. PICK at \in [0 .. n - 1 -> 1 .. k] :
        /\ \A j \in 0 .. n - 1 : Loc(items[at[j]]) = j
        /\ \A i, j \in 0 .. n - 1 : i < j => at[i] < at[j]
  BY DEF PassesWithin
<1> DEFINE to == [j \in 0 .. m - 1 |-> at[j]]
<1>2. \A j \in 0 .. m - 1 : j \in 0 .. n - 1 /\ to[j] = at[j]
  OBVIOUS
<1>3. to \in [0 .. m - 1 -> 1 .. k]
  <2>1. \A j \in 0 .. m - 1 : at[j] \in 1 .. k
    BY <1>2
  <2> QED BY <2>1
<1> HIDE DEF to
<1>4. \A j \in 0 .. m - 1 : Loc(items[to[j]]) = j
  BY <1>1, <1>2
<1>5. \A i, j \in 0 .. m - 1 : i < j => to[i] < to[j]
  BY <1>1, <1>2
<1> QED BY <1>3, <1>4, <1>5 DEF PassesWithin

(* One more entry, and the number that the scan stands at when it meets    *)
(* it: the pass of the loop keeps that number the greatest one passed.     *)
LEMMA PassesOneMore ==
  ASSUME NEW items, NEW k \in Nat, NEW n \in Nat,
         PassesWithin(items, k, n),
         \A m \in Nat : PassesWithin(items, k, m) => m <= n
  PROVE  LET r == ScanPass(n, items[k + 1])
         IN  /\ r \in {n, n + 1}
             /\ PassesWithin(items, k + 1, r)
             /\ \A m \in Nat : PassesWithin(items, k + 1, m) => m <= r
<1> DEFINE q == k + 1
           r == ScanPass(n, items[q])
<1>1. PICK at \in [0 .. n - 1 -> 1 .. k] :
        /\ \A j \in 0 .. n - 1 : Loc(items[at[j]]) = j
        /\ \A i, j \in 0 .. n - 1 : i < j => at[i] < at[j]
  BY DEF PassesWithin
<1>2. q \in Nat /\ q = k + 1 /\ \A i \in 1 .. k : i \in 1 .. q /\ i < q
  OBVIOUS
<1>3. r = IF Loc(items[q]) = n THEN n + 1 ELSE n
  BY DEF ScanPass
<1> HIDE DEF q, r
<1>4. PassesWithin(items, q, r)
  <2>1. CASE Loc(items[q]) = n
    <3> DEFINE to == [j \in 0 .. n |-> IF j = n THEN q ELSE at[j]]
    <3>1. /\ to[n] = q
          /\ \A j \in 0 .. n - 1 : to[j] = at[j] /\ to[j] \in 1 .. q /\ to[j] < q
      BY <1>2
    <3>2. \A j \in 0 .. n : j = n \/ j \in 0 .. n - 1
      OBVIOUS
    <3>3. to \in [0 .. n -> 1 .. q]
      BY <1>2, <3>1, <3>2
    <3> HIDE DEF to
    <3>4. \A j \in 0 .. n : Loc(items[to[j]]) = j
      BY <1>1, <2>1, <3>1, <3>2
    <3>5. \A i, j \in 0 .. n : i < j => to[i] < to[j]
      BY <1>1, <3>1, <3>2
    <3>6. r = n + 1 /\ (n + 1) - 1 = n
      BY <1>3, <2>1
    <3>7. PassesWithin(items, q, n + 1)
      BY <3>3, <3>4, <3>5, <3>6 DEF PassesWithin
    <3> QED BY <3>6, <3>7
  <2>2. CASE Loc(items[q]) # n
    <3>1. at \in [0 .. n - 1 -> 1 .. q]
      BY <1>2
    <3>2. r = n
      BY <1>3, <2>2
    <3> QED BY <1>1, <3>1, <3>2 DEF PassesWithin
  <2> QED BY <2>1, <2>2
<1>5. ASSUME NEW m \in Nat, PassesWithin(items, q, m) PROVE m <= r
  <2>1. PICK to \in [0 .. m - 1 -> 1 .. q] :
          /\ \A j \in 0 .. m - 1 : Loc(items[to[j]]) = j
          /\ \A i, j \in 0 .. m - 1 : i < j => to[i] < to[j]
    BY <1>5 DEF PassesWithin
  <2>2. CASE m = 0
    BY <1>3, <2>2
  <2>3. CASE m # 0
    <3> DEFINE l == m - 1
    <3>1. l \in Nat /\ m = l + 1 /\ l \in 0 .. m - 1
          /\ \A j \in 0 .. l - 1 : j \in 0 .. m - 1 /\ j < l
      BY <2>3
    <3> HIDE DEF l
    <3>2. \A j \in 0 .. m - 1 : j = l \/ j \in 0 .. l - 1
      BY <3>1
    <3>3. \A j \in 0 .. l - 1 : to[j] \in 1 .. k
      BY <1>2, <2>1, <3>1
    <3>4. PassesWithin(items, k, l)
      <4> DEFINE up == [j \in 0 .. l - 1 |-> to[j]]
      <4>1. up \in [0 .. l - 1 -> 1 .. k] /\ \A j \in 0 .. l - 1 : up[j] = to[j]
        BY <3>3
      <4> HIDE DEF up
      <4>2. \A j \in 0 .. l - 1 : Loc(items[up[j]]) = j
        BY <2>1, <3>1, <4>1
      <4>3. \A i, j \in 0 .. l - 1 : i < j => up[i] < up[j]
        BY <2>1, <3>1, <4>1
      <4> QED BY <4>1, <4>2, <4>3 DEF PassesWithin
    <3>5. l <= n
      BY <3>1, <3>4
    <3>6. CASE l < n
      BY <1>3, <3>1, <3>6
    <3>7. CASE l = n
      <4>1. CASE to[l] = q
        <5>1. Loc(items[q]) = n
          BY <2>1, <3>1, <3>7, <4>1
        <5> QED BY <1>3, <3>1, <3>7, <5>1
      <4>2. CASE to[l] # q
        <5>1. to[l] \in 1 .. k
          BY <1>2, <2>1, <3>1, <4>2
        <5>2. to \in [0 .. m - 1 -> 1 .. k]
          BY <3>2, <3>3, <5>1
        <5>3. PassesWithin(items, k, m)
          BY <2>1, <5>2 DEF PassesWithin
        <5>4. m <= n
          BY <5>3
        <5> QED BY <3>1, <3>7, <5>4
      <4> QED BY <4>1, <4>2
    <3> QED BY <3>1, <3>5, <3>6, <3>7
  <2> QED BY <2>2, <2>3
<1> QED BY <1>3, <1>4, <1>5 DEF q, r

(* The loop of tmpv_alloc_reg ends at the greatest number that is passed,  *)
(* for every table.                                                        *)
LEMMA ScanLoopFacts ==
  ASSUME NEW S, NEW items \in Seq(S)
  PROVE  /\ ScanLoop(items) \in 0 .. Len(items)
         /\ PassesInOrder(items, ScanLoop(items))
         /\ \A m \in Nat : PassesInOrder(items, m) => m <= ScanLoop(items)
<1> DEFINE n == Len(items)
<1>1. PICK f : /\ f[0] = 0
               /\ \A k \in 0 .. n - 1 : f[k + 1] = ScanPass(f[k], items[k + 1])
               /\ Scan!FoldLeft(ScanPass, 0, items) = f[n]
  BY Scan!FoldRuns
<1>2. Scan!FoldLeft(ScanPass, 0, items) = FoldLeft(ScanPass, 0, items)
  BY DEF FoldLeft, Scan!FoldLeft, MapThenFoldSet, Scan!MapThenFoldSet,
         Max, Scan!Max
<1> DEFINE T == {k \in Nat : /\ f[k] \in 0 .. k
                             /\ PassesWithin(items, k, f[k])
                             /\ \A m \in Nat : PassesWithin(items, k, m) => m <= f[k]}
<1>3. 0 \in T
  <2>1. 0 .. 0 - 1 = {} /\ 1 .. 0 = {}
    OBVIOUS
  <2>2. PassesWithin(items, 0, 0)
    <3> DEFINE none == [k \in 0 .. 0 - 1 |-> k]
    <3>1. none \in [0 .. 0 - 1 -> 1 .. 0]
      BY <2>1
    <3> HIDE DEF none
    <3> QED BY <2>1, <3>1 DEF PassesWithin
  <2>3. ASSUME NEW m \in Nat, PassesWithin(items, 0, m) PROVE m <= 0
    <3>1. PICK at \in [0 .. m - 1 -> 1 .. 0] : TRUE
      BY <2>3 DEF PassesWithin
    <3>2. CASE m # 0
      <4>1. m - 1 \in 0 .. m - 1
        BY <3>2
      <4>2. at[m - 1] \in 1 .. 0
        BY <4>1
      <4> QED BY <2>1, <4>2
    <3> QED BY <3>2
  <2> QED BY <1>1, <2>2, <2>3
<1>4. ASSUME NEW k \in 0 .. n - 1, k \in T PROVE k + 1 \in T
  <2>1. /\ k \in Nat /\ f[k] \in 0 .. k /\ f[k] \in Nat
        /\ PassesWithin(items, k, f[k])
        /\ \A m \in Nat : PassesWithin(items, k, m) => m <= f[k]
    BY <1>4
  <2>2. f[k + 1] = ScanPass(f[k], items[k + 1])
    BY <1>1
  <2>3. /\ f[k + 1] \in {f[k], f[k] + 1}
        /\ PassesWithin(items, k + 1, f[k + 1])
        /\ \A m \in Nat : PassesWithin(items, k + 1, m) => m <= f[k + 1]
    BY <2>1, <2>2, PassesOneMore
  <2> DEFINE q == k + 1
  <2>4. q \in Nat /\ f[q] \in 0 .. q
    BY <2>1, <2>3
  <2> QED BY <2>3, <2>4
<1> HIDE DEF T
<1>5. n \in T
  <2>1. n \in Nat /\ n \in 0 .. n
    OBVIOUS
  <2> HIDE DEF n
  <2>2. \A k \in 0 .. n : k \in T
    BY <1>3, <1>4, <2>1, Scan!PassInduction
  <2> QED BY <2>1, <2>2
<1>6. ScanLoop(items) = f[n]
  BY <1>1, <1>2 DEF ScanLoop
<1>7. \A m : PassesInOrder(items, m) <=> PassesWithin(items, n, m)
  BY DEF PassesInOrder, PassesWithin
<1> QED BY <1>5, <1>6, <1>7 DEF T

(* What ScanStop says of the scan is what the loop computes.               *)
THEOREM ScanIsLoop ==
  ASSUME NEW S, NEW items \in Seq(S)
  PROVE  ScanStop(items) = ScanLoop(items)
<1> DEFINE n == Len(items)
           r == ScanLoop(items)
<1>1. /\ r \in 0 .. n
      /\ PassesInOrder(items, r)
      /\ \A m \in Nat : PassesInOrder(items, m) => m <= r
  BY ScanLoopFacts
<1> HIDE DEF r
<1>2. ~PassesInOrder(items, r + 1)
  BY <1>1
<1>3. ASSUME NEW m \in 0 .. n,
             PassesInOrder(items, m), ~PassesInOrder(items, m + 1)
      PROVE  m = r
  <2>1. m <= r
    BY <1>1, <1>3
  <2>2. CASE m < r
    <3> DEFINE l == m + 1
    <3>1. l \in 0 .. r /\ r \in Nat /\ n \in Nat
      BY <1>1, <2>2
    <3>2. PassesWithin(items, n, r)
      BY <1>1 DEF PassesInOrder, PassesWithin
    <3> HIDE DEF l, n
    <3>3. PassesWithin(items, n, l)
      BY <3>1, <3>2, PassesFewer
    <3>4. PassesInOrder(items, l)
      BY <3>3 DEF PassesInOrder, PassesWithin, n
    <3> QED BY <1>3, <3>4 DEF l
  <2> QED BY <1>1, <2>1, <2>2
<1>4. \A m \in 0 .. n : PassesInOrder(items, m) /\ ~PassesInOrder(items, m + 1)
                        <=> m = r
  BY <1>1, <1>2, <1>3
<1>5. ScanStop(items) = CHOOSE m \in 0 .. n :
        PassesInOrder(items, m) /\ ~PassesInOrder(items, m + 1)
  BY DEF ScanStop
<1>6. ScanStop(items) = r
  BY <1>1, <1>4, <1>5
<1> QED BY <1>6 DEF r

(* The scan never stops at the register of the last entry: if it came that *)
(* far, the last entry has moved it on.                                    *)
LEMMA ScanNotLast ==
  ASSUME NEW S, NEW items \in Seq(S), Len(items) > 0
  PROVE  ScanStop(items) # Loc(items[Len(items)])
<1> DEFINE n == Len(items)
           k == n - 1
<1>1. PICK f : /\ f[0] = 0
               /\ \A j \in 0 .. n - 1 : f[j + 1] = ScanPass(f[j], items[j + 1])
               /\ Scan!FoldLeft(ScanPass, 0, items) = f[n]
  BY Scan!FoldRuns
<1>2. Scan!FoldLeft(ScanPass, 0, items) = FoldLeft(ScanPass, 0, items)
  BY DEF FoldLeft, Scan!FoldLeft, MapThenFoldSet, Scan!MapThenFoldSet,
         Max, Scan!Max
<1>3. ScanStop(items) = f[n] /\ ScanStop(items) \in Nat
  <2>1. ScanStop(items) = ScanLoop(items) /\ ScanStop(items) \in 0 .. Len(items)
    BY ScanIsLoop, ScanStops
  <2> QED BY <1>1, <1>2, <2>1 DEF ScanLoop
<1>4. k \in 0 .. n - 1 /\ k + 1 = n
  OBVIOUS
<1> HIDE DEF k
<1>5. f[n] = ScanPass(f[k], items[n])
  BY <1>1, <1>4
<1>6. f[n] = IF Loc(items[n]) = f[k] THEN f[k] + 1 ELSE f[k]
  BY <1>5 DEF ScanPass
<1> DEFINE l == Loc(items[n])
<1> HIDE DEF n, l
<1>7. f[n] # l
  BY <1>3, <1>6 DEF l
<1> QED BY <1>3, <1>7 DEF n, l

-----------------------------------------------------------------------------
(* Where no entry carries the number of registers, a register handed out   *)
(* is below it: the scan cannot step over the number it is compared with.  *)
LEMMA AllocRegBound ==
  ASSUME NEW S, NEW t, t.items \in Seq(S), NEW tmp, NEW regNum \in Nat \ {0},
         \A i \in 1 .. Len(t.items) : Loc(t.items[i]) # regNum
  PROVE  AllocReg(t, tmp, regNum) \in {NoReg} \union 0 .. regNum - 1
<1>1. ScanStop(t.items) \in Nat /\ PassesInOrder(t.items, ScanStop(t.items))
  BY ScanStops
<1>2. ~(ScanStop(t.items) > regNum)
  <2> SUFFICES ASSUME ScanStop(t.items) > regNum PROVE FALSE
    OBVIOUS
  <2>1. PICK at \in [0 .. ScanStop(t.items) - 1 -> 1 .. Len(t.items)] :
          \A k \in 0 .. ScanStop(t.items) - 1 : Loc(t.items[at[k]]) = k
    BY <1>1 DEF PassesInOrder
  <2>2. regNum \in 0 .. ScanStop(t.items) - 1
    BY <1>1
  <2> QED BY <2>1, <2>2
<1> QED BY <1>1, <1>2 DEF AllocReg

-----------------------------------------------------------------------------
(* add_local for every name keeps the list of the frame well-formed.       *)
LEMMA NamedLocalsFacts ==
  ASSUME NEW S, Zero \in S, NEW sf, sf.locals \in Usable(S),
         NEW names, Len(names) \in Nat, NEW size,
         \A i \in 1 .. Len(names) :
           LocalCell(names[i], sf.end + i * size, size) \in S
  PROVE  NamedLocals(sf, names, size) \in Usable(S)
<1> DEFINE n == Len(names)
           cells == [i \in 1 .. n |-> LocalCell(names[i], sf.end + i * size, size)]
           list == sf.locals
<1>1. /\ cells \in Seq(S) /\ Len(cells) = n
      /\ \A i \in 1 .. n : cells[i] \in S
  OBVIOUS
<1>2. NamedLocals(sf, names, size) = FoldLeft(ListAppend, list, cells)
  BY DEF NamedLocals
<1> HIDE DEF cells, list, n
<1>3. PICK f : /\ f[0] = list
               /\ \A k \in 0 .. n - 1 : f[k + 1] = ListAppend(f[k], cells[k + 1])
               /\ Adds!FoldLeft(ListAppend, list, cells) = f[n]
  <2>1. PICK f : /\ f[0] = list
                 /\ \A k \in 0 .. Len(cells) - 1 : f[k + 1] = ListAppend(f[k], cells[k + 1])
                 /\ Adds!FoldLeft(ListAppend, list, cells) = f[Len(cells)]
    BY <1>1, Adds!FoldRuns
  <2> QED BY <1>1, <2>1
<1>4. Adds!FoldLeft(ListAppend, list, cells) = FoldLeft(ListAppend, list, cells)
  BY DEF FoldLeft, Adds!FoldLeft, MapThenFoldSet, Adds!MapThenFoldSet,
         Max, Adds!Max
<1> DEFINE T == {k \in Nat : f[k] \in Usable(S)}
<1>5. 0 \in T
  BY <1>3 DEF list
<1>6. n \in Nat /\ n \in 0 .. n
  BY DEF n
<1>7. ASSUME NEW k \in 0 .. n - 1, k \in T PROVE k + 1 \in T
  <2> DEFINE q == k + 1
  <2>1. q \in 1 .. n /\ q \in Nat /\ f[k] \in Usable(S)
    BY <1>6, <1>7
  <2>2. f[q] = ListAppend(f[k], cells[q])
    BY <1>3
  <2> HIDE DEF q
  <2>3. f[q] \in Usable(S)
    BY <1>1, <2>1, <2>2, ListAppendFacts
  <2>4. q \in T
    BY <2>1, <2>3
  <2> QED BY <2>4 DEF q
<1> HIDE DEF T
<1>8. \A k \in 0 .. n : k \in T
  BY <1>5, <1>6, <1>7, Scan!PassInduction
<1> QED BY <1>2, <1>3, <1>4, <1>6, <1>8 DEF T

(* clear_stack removes cells that are there.                               *)
LEMMA ClearLocalsFacts ==
  ASSUME NEW S, Zero \in S, NEW list \in Usable(S)
  PROVE  ClearLocals(list) \in Usable(S)
<1> DEFINE n == Len(list.items)
           nums == [k \in 1 .. n |-> k - 1]
<1>1. n \in Nat /\ n \in 0 .. n
  BY DEF Usable
<1>2. /\ nums \in Seq(Nat) /\ Len(nums) = n
      /\ \A k \in 1 .. n : nums[k] \in Nat
  BY <1>1
<1>3. ClearLocals(list) = FoldLeft(ClearPass, list, nums)
  BY DEF ClearLocals
<1> HIDE DEF nums, n
<1>4. PICK f : /\ f[0] = list
               /\ \A k \in 0 .. n - 1 : f[k + 1] = ClearPass(f[k], nums[k + 1])
               /\ Clear!FoldLeft(ClearPass, list, nums) = f[n]
  <2>1. PICK f : /\ f[0] = list
                 /\ \A k \in 0 .. Len(nums) - 1 : f[k + 1] = ClearPass(f[k], nums[k + 1])
                 /\ Clear!FoldLeft(ClearPass, list, nums) = f[Len(nums)]
    BY <1>2, Clear!FoldRuns
  <2> QED BY <1>2, <2>1
<1>5. Clear!FoldLeft(ClearPass, list, nums) = FoldLeft(ClearPass, list, nums)
  BY DEF FoldLeft, Clear!FoldLeft, MapThenFoldSet, Clear!MapThenFoldSet,
         Max, Clear!Max
<1>6. ASSUME NEW l \in Usable(S), NEW i \in Nat PROVE ClearPass(l, i) \in Usable(S)
  <2> DEFINE j == Len(l.items) - 1 - i
  <2>1. Len(l.items) \in Nat
    BY DEF Usable
  <2>2. CASE i < Len(l.items)
    <3>1. j \in Nat /\ CanRemove(l, j)
      BY <2>1, <2>2 DEF CanRemove
    <3>2. ClearPass(l, i) = ListRemove(l, j)
      BY <2>2 DEF ClearPass
    <3> HIDE DEF j
    <3>3. ListRemove(l, j) \in Usable(S)
      BY <3>1, ListRemoveFacts
    <3> QED BY <3>2, <3>3
  <2>3. CASE ~(i < Len(l.items))
    BY <2>3 DEF ClearPass
  <2> QED BY <2>2, <2>3
<1> DEFINE T == {k \in Nat : f[k] \in Usable(S)}
<1>7. 0 \in T
  BY <1>4
<1>8. ASSUME NEW k \in 0 .. n - 1, k \in T PROVE k + 1 \in T
  <2> DEFINE q == k + 1
  <2>1. q \in 1 .. n /\ q \in Nat /\ f[k] \in Usable(S)
    BY <1>1, <1>8
  <2>2. f[q] = ClearPass(f[k], nums[q])
    BY <1>4
  <2> HIDE DEF q
  <2>3. f[q] \in Usable(S)
    BY <1>2, <1>6, <2>1, <2>2
  <2>4. q \in T
    BY <2>1, <2>3
  <2> QED BY <2>4 DEF q
<1> HIDE DEF T
<1>9. \A k \in 0 .. n : k \in T
  BY <1>1, <1>7, <1>8, Scan!PassInduction
<1> QED BY <1>1, <1>3, <1>4, <1>5, <1>9 DEF T

(* Taking a temporary's cell out of the frame keeps its list well-formed.  *)
LEMMA RemoveTmpvarFacts ==
  ASSUME NEW S, Zero \in S, NEW sf, sf.locals \in Usable(S), NEW tmp
  PROVE  StackframeRemoveTmpvar(sf, tmp).locals \in Usable(S)
<1> DEFINE l == sf.locals
           I == {i \in 1 .. Len(l.items) : Field(l.items[i], "tmp") = tmp}
           h == IF I # {} THEN Min(I) ELSE 0
<1>1. StackframeRemoveTmpvar(sf, tmp)
        = IF h = 0 THEN sf ELSE [end |-> sf.end, locals |-> ListRemove(l, h - 1)]
  BY DEF StackframeRemoveTmpvar, FirstCell, SelectInSeq
<1>2. Len(l.items) \in Nat
  BY DEF Usable
<1>3. h = 0 \/ h \in 1 .. Len(l.items)
  <2>1. CASE I # {}
    <3>1. I \subseteq Nat /\ I \subseteq 1 .. Len(l.items)
      BY <1>2
    <3> HIDE DEF I
    <3>2. \E m \in I : \A n \in I : m <= n
      BY <2>1, <3>1, LeastNat
    <3>3. Min(I) \in I
      BY <3>2 DEF Min
    <3> QED BY <2>1, <3>1, <3>3
  <2>2. CASE I = {}
    BY <2>2
  <2> QED BY <2>1, <2>2
<1> HIDE DEF h
<1>4. CASE h # 0
  <2> DEFINE i == h - 1
  <2>1. i \in Nat /\ CanRemove(l, i)
    BY <1>2, <1>3, <1>4 DEF CanRemove
  <2> HIDE DEF i
  <2>2. ListRemove(l, i) \in Usable(S)
    BY <2>1, ListRemoveFacts
  <2> QED BY <1>1, <1>4, <2>2 DEF i
<1>5. CASE h = 0
  BY <1>1, <1>5
<1> QED BY <1>4, <1>5

-----------------------------------------------------------------------------
(* Freeing leaves a usable table of the same kind of cells, and the end of *)
(* the frame where it was.                                                 *)
LEMMA FreeTmpvarFacts ==
  ASSUME NEW S, Zero \in S, NEW t \in Usable(S), NEW sf, NEW tmp
  PROVE  /\ FreeTmpvar(t, sf, tmp).table \in Usable(S)
         /\ FreeTmpvar(t, sf, tmp).frame.end = sf.end
<1> DEFINE h == EntryOf(t, tmp)
<1>1. t.items \in Seq(S)
  BY DEF Usable
<1>2. h = 0 \/ h \in 1 .. Len(t.items)
  BY <1>1, EntryOfFacts
<1>3. StackframeRemoveTmpvar(sf, tmp).end = sf.end
  BY DEF StackframeRemoveTmpvar
<1>4. ASSUME h # 0 PROVE ListRemove(t, h - 1) \in Usable(S)
  <2>1. h - 1 \in Nat /\ CanRemove(t, h - 1)
    BY <1>1, <1>2, <1>4 DEF CanRemove
  <2> DEFINE i == h - 1
  <2> HIDE DEF i
  <2>2. ListRemove(t, i) \in Usable(S)
    BY <2>1, ListRemoveFacts DEF i
  <2> QED BY <2>2 DEF i
<1> QED BY <1>2, <1>3, <1>4 DEF FreeTmpvar

(* Freeing the only entry of a temporary removes that entry and no other,  *)
(* if the table is intact afterwards.                                      *)
LEMMA FreeExact ==
  ASSUME NEW S, Zero \in S, NEW t \in Usable(S), NEW sf, NEW tmp,
         Intact(FreeTmpvar(t, sf, tmp).table), NEW k \in 1 .. Len(t.items),
         \A i \in 1 .. Len(t.items) : Tmp(t.items[i]) = tmp <=> i = k
  PROVE  FreeTmpvar(t, sf, tmp).table.items = RemoveAt(t.items, k)
<1>1. t.items \in Seq(S)
  BY DEF Usable
<1>2. EntryOf(t, tmp) = k
  BY <1>1, EntryOfFacts DEF HasEntry
<1> DEFINE i == k - 1
<1>3. i \in Nat /\ CanRemove(t, i) /\ i + 1 = k
  BY <1>1 DEF CanRemove
<1>4. FreeTmpvar(t, sf, tmp).table = ListRemove(t, i)
  BY <1>2 DEF FreeTmpvar
<1> HIDE DEF i
<1>5. ListRemove(t, i).items = RemoveAt(t.items, i + 1)
  BY <1>3, <1>4, IntactRemove
<1> QED BY <1>3, <1>4, <1>5

(* A table that is intact after a temporary other than 0, the number that  *)
(* a cleared cell reads as, has been freed was so before.                  *)
LEMMA FreeIntact ==
  ASSUME NEW S, Zero \in S, NEW t \in Usable(S), NEW sf, NEW tmp, tmp # 0,
         Intact(FreeTmpvar(t, sf, tmp).table)
  PROVE  Intact(t)
<1> DEFINE h == EntryOf(t, tmp)
           i == h - 1
<1>1. t.items \in Seq(S)
  BY DEF Usable
<1>2. CASE h = 0
  BY <1>2 DEF FreeTmpvar
<1>3. CASE h # 0
  <2>1. h \in 1 .. Len(t.items) /\ Tmp(t.items[h]) = tmp
    BY <1>1, <1>3, EntryOfFacts
  <2>2. t.items[h] # Zero
    BY <2>1 DEF Tmp, Field
  <2>3. FreeTmpvar(t, sf, tmp).table = ListRemove(t, i)
    BY <1>3 DEF FreeTmpvar
  <2>4. i \in Nat /\ CanRemove(t, i) /\ i + 1 = h
    BY <1>1, <2>1 DEF CanRemove
  <2> HIDE DEF h, i
  <2>5. t.items[i + 1] # Zero => Intact(t)
    BY <2>3, <2>4, IntactRemove
  <2> QED BY <2>2, <2>4, <2>5
<1> QED BY <1>2, <1>3

LEMMA FreeTwoIntact ==
  ASSUME NEW S, Zero \in S, NEW t \in Usable(S), NEW sf,
         pending[Len(pending)].tmp # 0, pending[Len(pending) - 1].tmp # 0,
         Intact(FreeTwo(t, sf).table)
  PROVE  Intact(FreeLast(t, sf).table) /\ Intact(t)
<1> DEFINE last == FreeLast(t, sf)
           tmp == pending[Len(pending) - 1].tmp
<1>1. last.table \in Usable(S)
  BY FreeTmpvarFacts DEF FreeLast
<1>2. FreeTwo(t, sf) = FreeTmpvar(last.table, last.frame, tmp)
  BY DEF FreeTwo
<1> HIDE DEF last, tmp
<1>3. Intact(last.table)
  BY <1>1, <1>2, FreeIntact DEF tmp
<1>4. Intact(t)
  <2> USE DEF last
  <2>1. Intact(FreeTmpvar(t, sf, pending[Len(pending)].tmp).table)
    BY <1>3 DEF FreeLast
  <2> HIDE DEF last
  <2> QED BY <2>1, FreeIntact
<1> QED BY <1>3, <1>4 DEF last

-----------------------------------------------------------------------------
(* The table and the frame that the unit's first function meets: _start    *)
(* has used register 0 once, and has shrunk a table of 6 to one of 3.      *)
LEMMA StartedFacts ==
  /\ Started.table.items = <<>>
  /\ Started.table \in [cap : Nat \ {0}, items : {<<>>}]
  /\ TableCap = 6 => Started.table.cap = 3
  /\ Started.frame = CreateStackframe(FrameCap)
<1> DEFINE new == ListCreate(TableCap)
           sf == CreateStackframe(FrameCap)
           e == InReg(0, 0)
           full == [cap |-> new.cap, items |-> <<e>>]
           half == new.cap \div 2
<1>1. /\ new.items = <<>> /\ new.cap \in Nat \ {0}
      /\ TableCap = 6 => new.cap = 6
      /\ new = [cap |-> new.cap, items |-> <<>>]
  BY CapAssumption DEF ListCreate
<1>2. AllocReg(new, 0, RegNum) = 0 /\ GetsReg(new, 0, Word)
  <2>1. ~HasEntry(new, 0)
    BY <1>1 DEF HasEntry
  <2>2. new.items \in Seq(Nat) /\ Len(new.items) = 0
    BY <1>1
  <2> HIDE DEF new
  <2>3. ScanStop(new.items) = 0
    <3>1. ScanStop(new.items) \in 0 .. Len(new.items)
      BY <2>2, ScanStops
    <3> QED BY <2>2, <3>1
  <2>4. AllocReg(new, 0, RegNum) = 0
    BY <2>1, <2>3, RegNumAssumption DEF AllocReg
  <2> QED BY <2>4, SizesAssumption DEF GetsReg, NoReg
<1>3. AllocTmp(new, sf, 0, Word) = [table |-> full, frame |-> sf]
  <2>1. AllocTmp(new, sf, 0, Word) = [table |-> ListAppend(new, e), frame |-> sf]
    BY <1>2 DEF AllocTmp, TmpvAllocReg, NoReg
  <2>2. ListAppend(new, e) = full
    <3>1. AppendCap(new) = new.cap
      BY <1>1 DEF AppendCap
    <3> QED BY <1>1, <3>1 DEF ListAppend, InBlock
  <2> QED BY <2>1, <2>2
<1> HIDE DEF new
<1>4. FreeTmpvar(full, sf, 0) = [table |-> ListRemove(full, 0), frame |-> sf]
  <2>1. full.items \in Seq({e}) /\ Len(full.items) = 1 /\ full.items[1] = e
    OBVIOUS
  <2>2. e \in [tmp : Nat, onstack : {0, 1}, loc : Nat]
    BY DEF InReg
  <2>3. Tmp(e) = 0 /\ OnStack(e) = 0
    BY <2>2, ZeroAssumption DEF Tmp, OnStack, Field, InReg
  <2>4. HasEntry(full, 0)
    BY <2>1, <2>3 DEF HasEntry
  <2> HIDE DEF full, e
  <2>5. EntryOf(full, 0) = 1
    <3>1. EntryOf(full, 0) \in 1 .. Len(full.items)
      BY <2>1, <2>4, EntryOfFacts
    <3> QED BY <2>1, <3>1
  <2> QED BY <2>1, <2>3, <2>5 DEF FreeTmpvar
<1>5. /\ ListRemove(full, 0).items = <<>>
      /\ ListRemove(full, 0).cap = IF 1 < half THEN half ELSE new.cap
      /\ ListRemove(full, 0) = [cap |-> ListRemove(full, 0).cap, items |-> <<>>]
  <2> DEFINE s == full.items
  <2>1. s \in Seq({e}) /\ Len(s) = 1 /\ 1 \in 1 .. Len(s)
    OBVIOUS
  <2> HIDE DEF s
  <2>2. RemoveAt(s, 1) \in Seq({e}) /\ Len(RemoveAt(s, 1)) = 0
    BY <2>1, RemoveAtFacts
  <2>3. RemoveAt(s, 1) = <<>>
    BY <2>2
  <2>4. Moved(<<>>) = <<>>
    <3>1. Moved(<<>>) \in Seq({Zero}) /\ Len(Moved(<<>>)) = 0
      BY DEF Moved
    <3> QED BY <3>1
  <2>5. RemoveAt(full.items, 0 + 1) = <<>>
    BY <2>3 DEF s
  <2>6. ListRemove(full, 0)
          = [cap |-> RemoveCap(full),
             items |-> IF RemoveCap(full) = full.cap THEN <<>> ELSE Moved(<<>>)]
    BY <2>5 DEF ListRemove
  <2>7. RemoveCap(full) = IF 1 < half THEN half ELSE new.cap
    BY DEF RemoveCap
  <2> QED BY <2>4, <2>6, <2>7
<1>6. Started = FreeTmpvar(full, sf, 0)
  BY <1>3 DEF Started, new
<1>7. half \in Nat /\ (1 < half => half # 0) /\ (TableCap = 6 => half = 3)
  BY <1>1
<1> QED BY <1>1, <1>4, <1>5, <1>6, <1>7

(* It is a usable table of any kind of entries.                            *)
LEMMA StartedUsable ==
  ASSUME NEW S
  PROVE  /\ Started.table \in Usable(S)
         /\ Started.frame.locals \in Usable(S) /\ Started.frame.end = 0
<1>1. /\ Started.table \in [cap : Nat \ {0}, items : {<<>>}]
      /\ Started.frame = CreateStackframe(FrameCap)
  BY StartedFacts
<1>2. Started.table \in Usable(S)
  <2> DEFINE l == Started.table
  <2>1. l \in [cap : Nat \ {0}, items : {<<>>}]
    BY <1>1
  <2> HIDE DEF l
  <2>2. l.items = <<>> /\ l.cap \in Nat \ {0}
    BY <2>1
  <2>3. <<>> \in Seq(S) /\ Len(<<>>) = 0
    OBVIOUS
  <2>4. l \in [cap : Nat \ {0}, items : Seq(S)]
    BY <2>1, <2>3
  <2>5. Len(l.items) <= l.cap
    BY <2>2, <2>3
  <2> QED BY <2>4, <2>5 DEF Usable, l
<1>3. CreateStackframe(FrameCap).locals \in Usable(S)
  BY CapAssumption DEF CreateStackframe, ListCreate, Usable
<1> QED BY <1>1, <1>2, <1>3 DEF CreateStackframe

-----------------------------------------------------------------------------
(* Part one: RegInTable.                                                   *)

\* The union of register and offset is harmless as long as no offset is the
\* number of registers: the scan cannot step over the number it is compared
\* with.  A zeroed cell reads as register 0.
Entry ==
  {Zero} \union [tmp : Nat, onstack : {0}, loc : 0 .. RegNum - 1]
         \union [tmp : Nat, onstack : {1}, loc : {n \in Nat : n > RegNum}]

HomeOK ==
  {h \in [tmp : Nat, size : Sizes, onstack : {0, 1}, loc : Nat] :
     h.onstack = 0 => h.loc < RegNum}

\* The inductive invariant of RegInTable.
RInv ==
  /\ table \in Usable(Entry)
  /\ frame.end \in Nat
  /\ next \in Nat
  /\ pending \in Seq(HomeOK)

(* No entry carries the number of registers.                               *)
LEMMA NoEntryAtRegNum ==
  ASSUME NEW tab \in Usable(Entry)
  PROVE  \A i \in 1 .. Len(tab.items) : Loc(tab.items[i]) # RegNum
<1> SUFFICES ASSUME NEW i \in 1 .. Len(tab.items)
             PROVE  Loc(tab.items[i]) # RegNum
  OBVIOUS
<1>1. tab.items[i] \in Entry
  BY DEF Usable
<1> QED BY <1>1, RegNumAssumption DEF Entry, Loc, Field

(* CODE_ALLOC_TMP keeps the table well-formed and gives the temporary a    *)
(* home that is a register of the table or stack space.                    *)
LEMMA AllocTmpKeeps ==
  ASSUME \A s \in Sizes : s > RegNum,
         NEW tab \in Usable(Entry), NEW sf, sf.end \in Nat,
         NEW tmp \in Nat, NEW size \in Sizes
  PROVE  /\ AllocTmp(tab, sf, tmp, size).table \in Usable(Entry)
         /\ AllocTmp(tab, sf, tmp, size).frame.end \in Nat
         /\ Home(tab, sf, tmp, size) \in HomeOK
<1> DEFINE reg == AllocReg(tab, tmp, RegNum)
<1>1. reg \in {NoReg} \union 0 .. RegNum - 1
  <2>1. tab.items \in Seq(Entry)
    BY DEF Usable
  <2> QED BY <2>1, NoEntryAtRegNum, AllocRegBound, RegNumAssumption
<1>2. Zero \in Entry /\ size \in Nat /\ size > RegNum
  BY SizesAssumption DEF Entry
<1> HIDE DEF reg
<1>3. CASE GetsReg(tab, tmp, size)
  <2>1. reg \in 0 .. RegNum - 1 /\ reg # NoReg
    BY <1>1, <1>3 DEF GetsReg, reg
  <2>2. InReg(tmp, reg) \in Entry
    BY <2>1 DEF InReg, Entry
  <2>3. ListAppend(tab, InReg(tmp, reg)) \in Usable(Entry)
    BY <1>2, <2>2, ListAppendFacts
  <2>4. AllocTmp(tab, sf, tmp, size)
          = [table |-> ListAppend(tab, InReg(tmp, reg)), frame |-> sf]
    BY <1>3, <2>1 DEF AllocTmp, TmpvAllocReg, reg
  <2>5. Home(tab, sf, tmp, size)
          = [tmp |-> tmp, size |-> size, onstack |-> 0, loc |-> reg]
    BY <1>3 DEF Home, reg
  <2> QED BY <2>1, <2>3, <2>4, <2>5, RegNumAssumption DEF HomeOK
<1>4. CASE ~GetsReg(tab, tmp, size)
  <2> DEFINE off == sf.end + size
  <2>1. off \in Nat /\ off > RegNum
    BY <1>2, RegNumAssumption
  <2>2. InSlot(tmp, off) \in Entry
    BY <2>1 DEF InSlot, Entry
  <2>3. ListAppend(tab, InSlot(tmp, off)) \in Usable(Entry)
    <3> HIDE DEF off
    <3> QED BY <1>2, <2>2, ListAppendFacts
  <2>4. /\ AllocTmp(tab, sf, tmp, size).table
             \in {tab, ListAppend(tab, InSlot(tmp, off))}
        /\ AllocTmp(tab, sf, tmp, size).frame.end \in {sf.end, off}
    BY <1>4 DEF AllocTmp, TmpvAllocStack, StackframeAddTmpvar, GrowStack
  <2>5. Home(tab, sf, tmp, size)
          = [tmp |-> tmp, size |-> size, onstack |-> 1, loc |-> off]
    BY <1>4 DEF Home, GrowStack
  <2> QED BY <2>1, <2>3, <2>4, <2>5 DEF HomeOK
<1> QED BY <1>3, <1>4

(* Freeing the last, or the last two, keeps the table well-formed.         *)
LEMMA FreeKeeps ==
  ASSUME NEW tab \in Usable(Entry), NEW sf, sf.end \in Nat
  PROVE  /\ FreeLast(tab, sf).table \in Usable(Entry)
         /\ FreeLast(tab, sf).frame.end \in Nat
         /\ FreeTwo(tab, sf).table \in Usable(Entry)
         /\ FreeTwo(tab, sf).frame.end \in Nat
<1> DEFINE last == FreeLast(tab, sf)
<1>1. Zero \in Entry
  BY DEF Entry
<1>2. last.table \in Usable(Entry) /\ last.frame.end = sf.end
  BY <1>1, FreeTmpvarFacts DEF FreeLast
<1>3. FreeTwo(tab, sf) = FreeTmpvar(last.table, last.frame,
                                    pending[Len(pending) - 1].tmp)
  BY DEF FreeTwo
<1> HIDE DEF last
<1>4. /\ FreeTwo(tab, sf).table \in Usable(Entry)
      /\ FreeTwo(tab, sf).frame.end = last.frame.end
  BY <1>1, <1>2, <1>3, FreeTmpvarFacts
<1> QED BY <1>2, <1>4 DEF last

(* Dropping operands and appending a result keeps the homes well-formed.   *)
LEMMA RestHomes ==
  ASSUME NEW S, pending \in Seq(S), NEW n \in Nat, Waiting(n)
  PROVE  /\ Rest(n) \in Seq(S)
         /\ Len(Rest(n)) = Len(pending) - n
         /\ \A i \in 1 .. Len(pending) - n : Rest(n)[i] = pending[i]
BY DEF Rest, Waiting

(* The initial state has the invariant.                                    *)
LEMMA InitRInv == Init => RInv
BY StartedUsable DEF Init, RInv

(* Every node of the program keeps it.                                     *)
LEMMA NextRInv ==
  ASSUME \A s \in Sizes : s > RegNum
  PROVE  RInv /\ [Next]_vars => RInv'
<1> SUFFICES ASSUME RInv, [Next]_vars PROVE RInv'
  OBVIOUS
<1>0. /\ table \in Usable(Entry) /\ frame.end \in Nat /\ next \in Nat
      /\ pending \in Seq(HomeOK) /\ Word \in Sizes
  BY SizesAssumption DEF RInv
<1>1. ASSUME NEW size \in Sizes, Leaf(size) PROVE RInv'
  <2>1. /\ AllocTmp(table, frame, next, size).table \in Usable(Entry)
        /\ AllocTmp(table, frame, next, size).frame.end \in Nat
        /\ Home(table, frame, next, size) \in HomeOK
    BY <1>0, AllocTmpKeeps
  <2> QED BY <1>0, <1>1, <2>1 DEF Leaf, RInv
<1>2. CASE BinaryOp
  <2> DEFINE to == AllocTmp(table, frame, next, Word)
  <2>1. /\ to.table \in Usable(Entry) /\ to.frame.end \in Nat
        /\ Home(table, frame, next, Word) \in HomeOK
    BY <1>0, AllocTmpKeeps
  <2>2. /\ table' = FreeTwo(to.table, to.frame).table
        /\ frame' = FreeTwo(to.table, to.frame).frame
        /\ pending' = Append(Rest(2), Home(table, frame, next, Word))
        /\ next' = next + 1 /\ Waiting(2)
    BY <1>2 DEF BinaryOp
  <2> HIDE DEF to
  <2>3. table' \in Usable(Entry) /\ frame'.end \in Nat
    BY <2>1, <2>2, FreeKeeps
  <2>4. Rest(2) \in Seq(HomeOK)
    BY <1>0, <2>2, RestHomes
  <2> QED BY <1>0, <2>1, <2>2, <2>3, <2>4 DEF RInv
<1>3. CASE Compare
  <2> DEFINE at == FreeTwo(table, frame)
  <2>1. at.table \in Usable(Entry) /\ at.frame.end \in Nat
    BY <1>0, FreeKeeps
  <2>2. /\ table' = AllocTmp(at.table, at.frame, next, Word).table
        /\ frame' = AllocTmp(at.table, at.frame, next, Word).frame
        /\ pending' = Append(Rest(2), Home(at.table, at.frame, next, Word))
        /\ next' = next + 1 /\ Waiting(2)
    BY <1>3 DEF Compare
  <2> HIDE DEF at
  <2>3. /\ table' \in Usable(Entry) /\ frame'.end \in Nat
        /\ Home(at.table, at.frame, next, Word) \in HomeOK
    BY <1>0, <2>1, <2>2, AllocTmpKeeps
  <2>4. Rest(2) \in Seq(HomeOK)
    BY <1>0, <2>2, RestHomes
  <2> QED BY <1>0, <2>2, <2>3, <2>4 DEF RInv
<1>4. CASE Use
  <2>1. /\ table' = FreeLast(table, frame).table
        /\ frame' = FreeLast(table, frame).frame
        /\ pending' = Rest(1) /\ next' = next /\ Waiting(1)
    BY <1>4 DEF Use
  <2>2. table' \in Usable(Entry) /\ frame'.end \in Nat
    BY <1>0, <2>1, FreeKeeps
  <2>3. Rest(1) \in Seq(HomeOK)
    BY <1>0, <2>1, RestHomes
  <2> QED BY <1>0, <2>1, <2>2, <2>3 DEF RInv
<1>5. ASSUME NEW names \in Params, NextFunction(names) PROVE RInv'
  <2>1. /\ frame' = AddLocals(ClearStack(frame), names, Word)
        /\ UNCHANGED <<table, next, pending>>
    BY <1>5 DEF NextFunction
  <2>2. frame'.end = 0 + Len(names) * Word
    BY <2>1 DEF AddLocals, GrowStack, ClearStack
  <2>3. Len(names) \in Nat /\ Word \in Nat
    BY ParamsAssumption, SizesAssumption
  <2>4. Len(names) * Word \in Nat
    BY <2>3
  <2> QED BY <1>0, <2>1, <2>2, <2>4 DEF RInv
<1>6. CASE UNCHANGED vars
  BY <1>6 DEF vars, RInv
<1> QED BY <1>1, <1>2, <1>3, <1>4, <1>5, <1>6 DEF Next

(* A register that tmpv_alloc_reg (asmgen.c:11-34) hands out has a name in *)
(* a register table that is at least as long as the number of registers it *)
(* is told, and no operand is smaller than that number: on the System V    *)
(* side, 7 registers offered, 9 names, operands of 8 bytes.                *)
THEOREM RegistersHaveNames ==
  ASSUME RegNum <= TableRegs, \A s \in Sizes : s > RegNum
  PROVE  Spec => []RegInTable
<1>1. RInv => RegInTable
  <2> SUFFICES ASSUME RInv, NEW i \in 1 .. Len(pending),
                      pending[i].onstack = 0
              PROVE  pending[i].loc < TableRegs
    BY DEF RegInTable, InRegister, Homes
  <2>1. pending[i] \in HomeOK
    BY DEF RInv
  <2> QED BY <2>1, RegNumAssumption, TableRegsAssumption DEF HomeOK
<1>2. RInv /\ [Next]_vars => RInv'
  BY NextRInv
<1> QED BY <1>1, <1>2, InitRInv, PTL DEF Spec

-----------------------------------------------------------------------------
(* Part two: the table, as long as it is intact, stands for the values     *)
(* that wait.                                                              *)

AnyEntry == {Zero} \union [tmp : Nat, onstack : {0, 1}, loc : Nat]
AnyHome == [tmp : Nat, size : Nat, onstack : {0, 1}, loc : Nat]

\* The entry that stands for a home, and the table that stands for a list of
\* homes: the entries are in the order in which the values wait.
EntryFor(h) == [tmp |-> h.tmp, onstack |-> h.onstack, loc |-> h.loc]
Mirrors(tab, homes) ==
  /\ Len(tab.items) = Len(homes)
  /\ \A i \in 1 .. Len(homes) : tab.items[i] = EntryFor(homes[i])

\* Temporaries are numbered in the order in which they are allocated.
Ascending(homes, bound) ==
  /\ \A i \in 1 .. Len(homes) : homes[i].tmp < bound
  /\ \A i, j \in 1 .. Len(homes) : i < j => homes[i].tmp < homes[j].tmp

\* What an intact table has for EntriesAreHomes: that the order agrees and the
\* numbers ascend is what makes free_tmpvar remove the right entry.
MInv ==
  /\ table \in Usable(AnyEntry)
  /\ frame.end \in Nat
  /\ next \in Nat
  /\ pending \in Seq(AnyHome)
  /\ Mirrors(table, pending)
  /\ Ascending(pending, next)

(* The temporary of an entry that stands for a home is the home's: such an *)
(* entry is not the zero cell.                                             *)
LEMMA EntryForFacts ==
  ASSUME NEW h \in AnyHome
  PROVE  /\ EntryFor(h) \in AnyEntry
         /\ Tmp(EntryFor(h)) = h.tmp
         /\ OnStack(EntryFor(h)) = h.onstack
         /\ Loc(EntryFor(h)) = h.loc
<1>1. EntryFor(h) \in [tmp : Nat, onstack : {0, 1}, loc : Nat]
  BY DEF EntryFor, AnyHome
<1>2. EntryFor(h) # Zero
  BY <1>1, ZeroAssumption
<1> QED BY <1>1, <1>2 DEF EntryFor, AnyEntry, Tmp, OnStack, Loc, Field

(* CODE_ALLOC_TMP of a new temporary appends an entry, that of its home.   *)
LEMMA AllocTmpUsable ==
  ASSUME NEW tab \in Usable(AnyEntry), NEW sf, sf.end \in Nat,
         NEW tmp \in Nat, NEW size \in Sizes, ~HasEntry(tab, tmp)
  PROVE  LET home == Home(tab, sf, tmp, size)
         IN  /\ home \in AnyHome /\ home.tmp = tmp
             /\ AllocTmp(tab, sf, tmp, size).table = ListAppend(tab, EntryFor(home))
             /\ AllocTmp(tab, sf, tmp, size).table \in Usable(AnyEntry)
             /\ AllocTmp(tab, sf, tmp, size).frame.end \in Nat
<1> DEFINE reg == AllocReg(tab, tmp, RegNum)
           off == sf.end + size
           home == Home(tab, sf, tmp, size)
<1>1. reg \in {NoReg} \union Nat
  <2>1. tab.items \in Seq(AnyEntry)
    BY DEF Usable
  <2> QED BY <2>1, ScanStops DEF AllocReg
<1>2. size \in Nat /\ off \in Nat
  BY SizesAssumption
<1>3. /\ home \in AnyHome
      /\ home.tmp = tmp
      /\ EntryFor(home) = IF GetsReg(tab, tmp, size) THEN InReg(tmp, reg)
                                                     ELSE InSlot(tmp, off)
  <2>1. CASE GetsReg(tab, tmp, size)
    <3>1. reg \in Nat
      BY <1>1, <2>1 DEF GetsReg
    <3> QED BY <1>2, <2>1, <3>1 DEF Home, AnyHome, EntryFor, InReg
  <2>2. CASE ~GetsReg(tab, tmp, size)
    BY <1>2, <2>2 DEF Home, AnyHome, EntryFor, InSlot, GrowStack
  <2> QED BY <2>1, <2>2
<1>4. /\ AllocTmp(tab, sf, tmp, size).table = ListAppend(tab, EntryFor(home))
      /\ AllocTmp(tab, sf, tmp, size).frame.end \in Nat
  <2>1. CASE GetsReg(tab, tmp, size)
    BY <1>3, <2>1 DEF AllocTmp, GetsReg, TmpvAllocReg
  <2>2. CASE ~GetsReg(tab, tmp, size)
    BY <1>2, <1>3, <2>2
       DEF AllocTmp, TmpvAllocStack, StackframeAddTmpvar, GrowStack
  <2> QED BY <2>1, <2>2
<1> HIDE DEF home
<1>5. EntryFor(home) \in AnyEntry /\ Zero \in AnyEntry
  BY <1>3, EntryForFacts DEF AnyEntry
<1>6. ListAppend(tab, EntryFor(home)) \in Usable(AnyEntry)
  <2> DEFINE e == EntryFor(home)
  <2> HIDE DEF e
  <2>1. e \in AnyEntry
    BY <1>5 DEF e
  <2>2. ListAppend(tab, e) \in Usable(AnyEntry)
    BY <1>5, <2>1, ListAppendFacts
  <2> QED BY <2>2 DEF e
<1> QED BY <1>3, <1>4, <1>6 DEF home

(* CODE_ALLOC_TMP of a new temporary appends the entry of its home, if the *)
(* table is intact afterwards.                                             *)
LEMMA AllocTmpAppends ==
  ASSUME NEW tab \in Usable(AnyEntry), NEW sf, sf.end \in Nat,
         NEW tmp \in Nat, NEW size \in Sizes, ~HasEntry(tab, tmp),
         Intact(AllocTmp(tab, sf, tmp, size).table)
  PROVE  /\ Home(tab, sf, tmp, size) \in AnyHome
         /\ Home(tab, sf, tmp, size).tmp = tmp
         /\ AllocTmp(tab, sf, tmp, size).table \in Usable(AnyEntry)
         /\ AllocTmp(tab, sf, tmp, size).table.items
              = Append(tab.items, EntryFor(Home(tab, sf, tmp, size)))
         /\ AllocTmp(tab, sf, tmp, size).frame.end \in Nat
<1> DEFINE home == Home(tab, sf, tmp, size)
           e == EntryFor(home)
<1>1. /\ home \in AnyHome /\ home.tmp = tmp
      /\ AllocTmp(tab, sf, tmp, size).table = ListAppend(tab, e)
      /\ AllocTmp(tab, sf, tmp, size).table \in Usable(AnyEntry)
      /\ AllocTmp(tab, sf, tmp, size).frame.end \in Nat
  BY AllocTmpUsable
<1>2. e \in AnyEntry /\ Zero \in AnyEntry
  BY <1>1, EntryForFacts DEF AnyEntry
<1> HIDE DEF home, e
<1>3. ListAppend(tab, e).items = Append(tab.items, e)
  BY <1>1, <1>2, IntactAppend
<1> QED BY <1>1, <1>3 DEF home, e

(* A table that is intact after CODE_ALLOC_TMP was so before.              *)
LEMMA AllocIntact ==
  ASSUME NEW tab \in Usable(AnyEntry), NEW sf, sf.end \in Nat,
         NEW tmp \in Nat, NEW size \in Sizes, ~HasEntry(tab, tmp),
         Intact(AllocTmp(tab, sf, tmp, size).table)
  PROVE  Intact(tab)
<1>1. /\ AllocTmp(tab, sf, tmp, size).table.items
           = Append(tab.items, EntryFor(Home(tab, sf, tmp, size)))
      /\ tab.items \in Seq(AnyEntry)
  BY AllocTmpAppends DEF Usable
<1> QED BY <1>1 DEF Intact

(* A mirrored list keeps mirroring when both sides grow by one home.       *)
LEMMA MirrorsAppend ==
  ASSUME NEW tab, tab.items \in Seq(AnyEntry), NEW homes \in Seq(AnyHome),
         Mirrors(tab, homes), NEW h \in AnyHome, NEW to,
         to.items = Append(tab.items, EntryFor(h))
  PROVE  Mirrors(to, Append(homes, h))
BY DEF Mirrors

(* In a mirrored list of ascending homes, freeing the k-th temporary       *)
(* removes the k-th entry, if the table is intact afterwards.              *)
LEMMA FreeMirrored ==
  ASSUME NEW tab \in Usable(AnyEntry), NEW sf, sf.end \in Nat,
         NEW homes \in Seq(AnyHome), Mirrors(tab, homes),
         \A i, j \in 1 .. Len(homes) : homes[i].tmp = homes[j].tmp => i = j,
         NEW k \in 1 .. Len(homes),
         Intact(FreeTmpvar(tab, sf, homes[k].tmp).table)
  PROVE  LET to == FreeTmpvar(tab, sf, homes[k].tmp)
         IN  /\ to.table \in Usable(AnyEntry)
             /\ to.frame.end \in Nat
             /\ Mirrors(to.table, RemoveAt(homes, k))
<1> DEFINE tmp == homes[k].tmp
           to == FreeTmpvar(tab, sf, tmp)
<1>1. Zero \in AnyEntry /\ tab.items \in Seq(AnyEntry)
      /\ Len(tab.items) = Len(homes)
  BY DEF AnyEntry, Usable, Mirrors
<1>2. \A i \in 1 .. Len(tab.items) : Tmp(tab.items[i]) = homes[i].tmp
  BY <1>1, EntryForFacts DEF Mirrors
<1>3. \A i \in 1 .. Len(tab.items) : Tmp(tab.items[i]) = tmp <=> i = k
  BY <1>1, <1>2
<1> HIDE DEF tmp
<1>4. to.table \in Usable(AnyEntry) /\ to.frame.end = sf.end
  BY <1>1, FreeTmpvarFacts
<1>5. to.table.items = RemoveAt(tab.items, k)
  <2>1. k \in 1 .. Len(tab.items)
    BY <1>1
  <2>2. Intact(to.table)
    BY DEF tmp
  <2> QED BY <1>1, <1>3, <2>1, <2>2, FreeExact
<1>6. /\ Len(RemoveAt(tab.items, k)) = Len(homes) - 1
      /\ \A i \in 1 .. Len(homes) - 1 : RemoveAt(tab.items, k)[i]
           = IF i < k THEN tab.items[i] ELSE tab.items[i + 1]
  <2> DEFINE s == tab.items
  <2>1. s \in Seq(AnyEntry) /\ k \in 1 .. Len(s) /\ Len(s) = Len(homes)
    BY <1>1
  <2> HIDE DEF s
  <2>2. /\ Len(RemoveAt(s, k)) = Len(s) - 1
        /\ \A i \in 1 .. Len(s) - 1 :
             RemoveAt(s, k)[i] = IF i < k THEN s[i] ELSE s[i + 1]
    BY <2>1, RemoveAtFacts
  <2> QED BY <2>1, <2>2 DEF s
<1>7. /\ Len(RemoveAt(homes, k)) = Len(homes) - 1
      /\ \A i \in 1 .. Len(homes) - 1 : RemoveAt(homes, k)[i]
           = IF i < k THEN homes[i] ELSE homes[i + 1]
  BY RemoveAtFacts
<1>8. Mirrors(to.table, RemoveAt(homes, k))
  <2>1. ASSUME NEW i \in 1 .. Len(homes) - 1
        PROVE  RemoveAt(tab.items, k)[i] = EntryFor(RemoveAt(homes, k)[i])
    <3>1. i \in 1 .. Len(homes) /\ i + 1 \in 1 .. Len(homes)
      OBVIOUS
    <3>2. CASE i < k
      BY <1>6, <1>7, <3>1, <3>2 DEF Mirrors
    <3>3. CASE ~(i < k)
      BY <1>6, <1>7, <3>1, <3>3 DEF Mirrors
    <3> QED BY <3>2, <3>3
  <2> QED BY <1>5, <1>6, <1>7, <2>1 DEF Mirrors
<1> QED BY <1>4, <1>8 DEF tmp

(* The first m elements of a sequence.                                     *)
LEMMA PrefixFacts ==
  ASSUME NEW S, NEW s \in Seq(S), NEW m \in 0 .. Len(s)
  PROVE  /\ SubSeq(s, 1, m) \in Seq(S) /\ Len(SubSeq(s, 1, m)) = m
         /\ \A i \in 1 .. m : SubSeq(s, 1, m)[i] = s[i]
OBVIOUS

(* Removing the last, the last two, or the two before the last element.    *)
LEMMA DropLast ==
  ASSUME NEW S, NEW s \in Seq(S), Len(s) >= 1
  PROVE  RemoveAt(s, Len(s)) = SubSeq(s, 1, Len(s) - 1)
<1> DEFINE n == Len(s)
           r == RemoveAt(s, n)
           t == SubSeq(s, 1, n - 1)
<1>1. n \in 1 .. Len(s) /\ n \in Nat /\ n >= 1
  OBVIOUS
<1>2. /\ r \in Seq(S) /\ Len(r) = n - 1
      /\ \A i \in 1 .. n - 1 : r[i] = IF i < n THEN s[i] ELSE s[i + 1]
  BY <1>1, RemoveAtFacts
<1>3. /\ t \in Seq(S) /\ Len(t) = n - 1
      /\ \A i \in 1 .. n - 1 : t[i] = s[i]
  <2> DEFINE m == n - 1
  <2>1. m \in 0 .. Len(s)
    BY <1>1
  <2> HIDE DEF m
  <2>2. /\ SubSeq(s, 1, m) \in Seq(S) /\ Len(SubSeq(s, 1, m)) = m
        /\ \A i \in 1 .. m : SubSeq(s, 1, m)[i] = s[i]
    BY <2>1, PrefixFacts
  <2> QED BY <2>2 DEF m
<1> HIDE DEF r, t
<1>4. \A i \in 1 .. Len(r) : r[i] = t[i]
  BY <1>1, <1>2, <1>3
<1>5. r = t
  BY <1>2, <1>3, <1>4, SeqEqual
<1> QED BY <1>5 DEF r, t

LEMMA DropLastTwo ==
  ASSUME NEW S, NEW s \in Seq(S), Len(s) >= 2
  PROVE  RemoveAt(RemoveAt(s, Len(s)), Len(s) - 1) = SubSeq(s, 1, Len(s) - 2)
<1> DEFINE t == SubSeq(s, 1, Len(s) - 1)
<1>1. t \in Seq(S) /\ Len(t) = Len(s) - 1 /\ Len(t) >= 1
  OBVIOUS
<1>2. RemoveAt(s, Len(s)) = t
  BY DropLast
<1>3. SubSeq(t, 1, Len(t) - 1) = SubSeq(s, 1, Len(s) - 2)
  OBVIOUS
<1> HIDE DEF t
<1>4. RemoveAt(t, Len(t)) = SubSeq(t, 1, Len(t) - 1)
  BY <1>1, DropLast
<1> QED BY <1>1, <1>2, <1>3, <1>4

LEMMA DropTwoBeforeLast ==
  ASSUME NEW S, NEW s \in Seq(S), Len(s) >= 2, NEW h \in S
  PROVE  RemoveAt(RemoveAt(Append(s, h), Len(s)), Len(s) - 1)
           = Append(SubSeq(s, 1, Len(s) - 2), h)
<1> DEFINE n == Len(s)
           a == Append(s, h)
           b == RemoveAt(a, n)
           m == n - 1
           c == RemoveAt(b, m)
           d == Append(SubSeq(s, 1, n - 2), h)
<1>1. n \in Nat /\ n >= 2 /\ m \in Nat
  OBVIOUS
<1>2. /\ a \in Seq(S) /\ Len(a) = n + 1 /\ n \in 1 .. Len(a)
      /\ \A i \in 1 .. n : a[i] = s[i]
      /\ a[n + 1] = h
  OBVIOUS
<1>3. /\ d \in Seq(S) /\ Len(d) = n - 1
      /\ \A i \in 1 .. n - 2 : d[i] = s[i]
      /\ d[n - 1] = h
  <2> DEFINE k == n - 2
             t == SubSeq(s, 1, k)
  <2>1. k \in 0 .. Len(s)
    BY <1>1
  <2>2. k + 1 = n - 1
    BY <1>1
  <2>3. d = Append(t, h)
    OBVIOUS
  <2> HIDE DEF k, d
  <2>4. /\ t \in Seq(S) /\ Len(t) = k
        /\ \A i \in 1 .. k : t[i] = s[i]
    BY <2>1, PrefixFacts
  <2> HIDE DEF t
  <2>5. /\ d \in Seq(S) /\ Len(d) = k + 1
        /\ \A i \in 1 .. k : d[i] = s[i]
        /\ d[k + 1] = h
    BY <2>1, <2>3, <2>4
  <2> QED BY <2>2, <2>5 DEF k
<1>3a. m = n - 1
  OBVIOUS
<1> HIDE DEF a, d, n, m
<1>4. /\ b \in Seq(S) /\ Len(b) = n
      /\ \A i \in 1 .. n : b[i] = IF i < n THEN a[i] ELSE a[i + 1]
  <2>1. a \in Seq(S) /\ n \in 1 .. Len(a)
    BY <1>2
  <2>2. /\ RemoveAt(a, n) \in Seq(S) /\ Len(RemoveAt(a, n)) = Len(a) - 1
        /\ \A i \in 1 .. Len(a) - 1 :
             RemoveAt(a, n)[i] = IF i < n THEN a[i] ELSE a[i + 1]
    BY <2>1, RemoveAtFacts
  <2>3. Len(a) - 1 = n
    BY <1>1, <1>2
  <2> QED BY <2>2, <2>3
<1>5. m \in 1 .. Len(b)
  BY <1>1, <1>3a, <1>4
<1> HIDE DEF b
<1>6. /\ c \in Seq(S) /\ Len(c) = n - 1
      /\ \A i \in 1 .. n - 1 : c[i] = IF i < m THEN b[i] ELSE b[i + 1]
  BY <1>4, <1>5, RemoveAtFacts
<1> HIDE DEF c
<1>7. ASSUME NEW i \in 1 .. n - 1 PROVE c[i] = d[i]
  <2>1. CASE i < m
    <3>1. c[i] = b[i] /\ i \in 1 .. n - 2 /\ i \in 1 .. n /\ i < n
      BY <1>1, <1>3a, <1>6, <2>1
    <3>2. b[i] = a[i]
      BY <1>4, <3>1
    <3> QED BY <1>2, <1>3, <3>1, <3>2
  <2>2. CASE ~(i < m)
    <3>1. c[i] = b[n] /\ i = n - 1
      BY <1>1, <1>3a, <1>6, <2>2
    <3>2. b[n] = a[n + 1]
      BY <1>1, <1>4
    <3> QED BY <1>2, <1>3, <3>1, <3>2
  <2> QED BY <2>1, <2>2
<1>8. c = d
  BY <1>3, <1>6, <1>7, SeqEqual
<1> QED BY <1>3a, <1>8 DEF a, b, c, d, n, m

(* A new temporary has no entry yet.                                       *)
LEMMA NoEntryYet ==
  ASSUME NEW tab, NEW homes \in Seq(AnyHome), NEW bound \in Nat,
         Mirrors(tab, homes), Ascending(homes, bound)
  PROVE  ~HasEntry(tab, bound)
<1> SUFFICES ASSUME NEW i \in 1 .. Len(homes), Tmp(tab.items[i]) = bound
             PROVE  FALSE
  BY DEF HasEntry, Mirrors
<1>1. homes[i] \in AnyHome
  OBVIOUS
<1>2. Tmp(tab.items[i]) = homes[i].tmp
  BY <1>1, EntryForFacts DEF Mirrors
<1>3. homes[i].tmp \in Nat /\ homes[i].tmp < bound
  BY <1>1 DEF Ascending, AnyHome
<1> QED BY <1>2, <1>3

(* Ascending homes stay so when the last ones go or a new one comes, and   *)
(* no temporary is among them twice.                                       *)
LEMMA AscendingFacts ==
  ASSUME NEW homes \in Seq(AnyHome), NEW bound \in Nat, Ascending(homes, bound)
  PROVE  /\ \A m \in 0 .. Len(homes) : Ascending(SubSeq(homes, 1, m), bound)
         /\ \A h \in AnyHome :
              h.tmp = bound => Ascending(Append(homes, h), bound + 1)
         /\ \A i, j \in 1 .. Len(homes) : homes[i].tmp = homes[j].tmp => i = j
<1>1. ASSUME NEW i \in 1 .. Len(homes) PROVE homes[i].tmp \in Nat
  <2>1. homes[i] \in AnyHome
    OBVIOUS
  <2> QED BY <2>1 DEF AnyHome
<1>2. ASSUME NEW m \in 0 .. Len(homes)
      PROVE  Ascending(SubSeq(homes, 1, m), bound)
  <2>1. /\ Len(SubSeq(homes, 1, m)) = m
        /\ \A i \in 1 .. m : SubSeq(homes, 1, m)[i] = homes[i]
    BY PrefixFacts
  <2> QED BY <2>1 DEF Ascending
<1>3. ASSUME NEW h \in AnyHome, h.tmp = bound
      PROVE  Ascending(Append(homes, h), bound + 1)
  <2> DEFINE a == Append(homes, h)
  <2>1. /\ Len(a) = Len(homes) + 1
        /\ \A i \in 1 .. Len(homes) : a[i] = homes[i]
        /\ a[Len(homes) + 1] = h
    OBVIOUS
  <2> HIDE DEF a
  <2>2. \A i \in 1 .. Len(a) : a[i].tmp < bound + 1
    BY <1>1, <1>3, <2>1 DEF Ascending
  <2>3. ASSUME NEW i \in 1 .. Len(a), NEW j \in 1 .. Len(a), i < j
        PROVE  a[i].tmp < a[j].tmp
    <3>1. i \in 1 .. Len(homes)
      BY <2>1, <2>3
    <3>2. CASE j = Len(homes) + 1
      BY <1>3, <2>1, <3>1, <3>2 DEF Ascending
    <3>3. CASE j # Len(homes) + 1
      BY <2>1, <2>3, <3>1, <3>3 DEF Ascending
    <3> QED BY <3>2, <3>3
  <2>4. Ascending(a, bound + 1)
    BY <2>2, <2>3 DEF Ascending
  <2> QED BY <2>4 DEF a
<1>4. ASSUME NEW i \in 1 .. Len(homes), NEW j \in 1 .. Len(homes),
             homes[i].tmp = homes[j].tmp
      PROVE  i = j
  BY <1>1, <1>4 DEF Ascending
<1> QED BY <1>2, <1>3, <1>4

(* CODE_FREE of the two operands at the end of pending, whether or not     *)
(* their result already stands behind them.                                *)
LEMMA FreeTwoMirrored ==
  ASSUME NEW tab \in Usable(AnyEntry), NEW sf, sf.end \in Nat,
         NEW homes \in Seq(AnyHome), Mirrors(tab, homes),
         \A i, j \in 1 .. Len(homes) : homes[i].tmp = homes[j].tmp => i = j,
         NEW n \in Nat, n = Len(pending), n >= 2, n <= Len(homes),
         homes[n] = pending[n], homes[n - 1] = pending[n - 1],
         pending[n].tmp # 0, pending[n - 1].tmp # 0,
         Intact(FreeTwo(tab, sf).table)
  PROVE  /\ FreeTwo(tab, sf).table \in Usable(AnyEntry)
         /\ FreeTwo(tab, sf).frame.end \in Nat
         /\ Mirrors(FreeTwo(tab, sf).table, RemoveAt(RemoveAt(homes, n), n - 1))
<1> DEFINE last == FreeLast(tab, sf)
           t == last.table
           f == last.frame
           left == RemoveAt(homes, n)
           k == n - 1
<1>1. n \in 1 .. Len(homes)
  OBVIOUS
<1>2. last = FreeTmpvar(tab, sf, homes[n].tmp)
  BY DEF FreeLast
<1> HIDE DEF last
<1>2a. Intact(last.table)
  BY FreeTwoIntact DEF last, AnyEntry
<1>3. /\ t \in Usable(AnyEntry) /\ f.end \in Nat
      /\ Mirrors(t, left)
  BY <1>1, <1>2, <1>2a, FreeMirrored
<1>4. /\ left \in Seq(AnyHome) /\ Len(left) = Len(homes) - 1
      /\ \A i \in 1 .. Len(homes) - 1 :
           left[i] = IF i < n THEN homes[i] ELSE homes[i + 1]
  BY <1>1, RemoveAtFacts
<1> HIDE DEF left
<1>5. k \in 1 .. Len(left) /\ left[k] = homes[n - 1]
  BY <1>4
<1>6. \A i, j \in 1 .. Len(left) : left[i].tmp = left[j].tmp => i = j
  <2> SUFFICES ASSUME NEW i \in 1 .. Len(left), NEW j \in 1 .. Len(left),
                      left[i].tmp = left[j].tmp
               PROVE  i = j
    OBVIOUS
  <2>1. /\ left[i] = homes[IF i < n THEN i ELSE i + 1]
        /\ left[j] = homes[IF j < n THEN j ELSE j + 1]
    BY <1>4
  <2> QED BY <1>4, <2>1
<1>7. FreeTwo(tab, sf) = FreeTmpvar(t, f, left[k].tmp)
  BY <1>5 DEF FreeTwo, last
<1>7a. k = n - 1
  OBVIOUS
<1> HIDE DEF k, t, f
<1>8. /\ FreeTwo(tab, sf).table \in Usable(AnyEntry)
      /\ FreeTwo(tab, sf).frame.end \in Nat
      /\ Mirrors(FreeTwo(tab, sf).table, RemoveAt(left, k))
  <2> DEFINE to == FreeTmpvar(t, f, left[k].tmp)
  <2>1. /\ to.table \in Usable(AnyEntry) /\ to.frame.end \in Nat
        /\ Mirrors(to.table, RemoveAt(left, k))
    BY <1>3, <1>4, <1>5, <1>6, <1>7, FreeMirrored
  <2> QED BY <1>7, <2>1
<1> QED BY <1>7a, <1>8 DEF left

(* Freeing keeps the table usable, and brings no entry of a temporary      *)
(* back.                                                                   *)
LEMMA FreeTwoUsable ==
  ASSUME NEW tab \in Usable(AnyEntry), NEW sf, sf.end \in Nat
  PROVE  /\ FreeTwo(tab, sf).table \in Usable(AnyEntry)
         /\ FreeTwo(tab, sf).frame.end \in Nat
<1> DEFINE last == FreeLast(tab, sf)
           t == last.table
           f == last.frame
           tmp == pending[Len(pending) - 1].tmp
<1>1. Zero \in AnyEntry
  BY DEF AnyEntry
<1>2. t \in Usable(AnyEntry) /\ f.end = sf.end
  BY <1>1, FreeTmpvarFacts DEF FreeLast
<1>3. FreeTwo(tab, sf) = FreeTmpvar(t, f, tmp)
  BY DEF FreeTwo
<1> HIDE DEF last, t, f, tmp
<1>4. /\ FreeTwo(tab, sf).table \in Usable(AnyEntry)
      /\ FreeTwo(tab, sf).frame.end = f.end
  BY <1>1, <1>2, <1>3, FreeTmpvarFacts
<1> QED BY <1>2, <1>4

LEMMA FreeTwoNoEntry ==
  ASSUME NEW tab \in Usable(AnyEntry), NEW sf, NEW n \in Nat, n > 0,
         ~HasEntry(tab, n)
  PROVE  ~HasEntry(FreeTwo(tab, sf).table, n)
<1> DEFINE S == {c \in AnyEntry : Tmp(c) # n}
           last == FreeLast(tab, sf)
           t == last.table
           f == last.frame
           tmp == pending[Len(pending) - 1].tmp
<1>1. Zero \in S
  BY DEF AnyEntry, Tmp, Field
<1>2. tab \in Usable(S)
  <2>1. tab.items \in Seq(AnyEntry) /\ \A i \in 1 .. Len(tab.items) : tab.items[i] \in S
    BY DEF HasEntry, Usable
  <2>2. tab.items \in Seq(S)
    BY <2>1
  <2> QED BY <2>2 DEF Usable
<1>3. \A l \in Usable(S) : ~HasEntry(l, n)
  BY DEF HasEntry, Usable
<1> HIDE DEF S
<1>4. t \in Usable(S)
  BY <1>1, <1>2, FreeTmpvarFacts DEF FreeLast
<1>5. FreeTwo(tab, sf) = FreeTmpvar(t, f, tmp)
  BY DEF FreeTwo
<1> HIDE DEF last, t, f, tmp
<1>6. FreeTwo(tab, sf).table \in Usable(S)
  BY <1>1, <1>4, <1>5, FreeTmpvarFacts
<1> QED BY <1>3, <1>6

(* The initial state has the invariant.                                    *)
LEMMA InitMInv == Init => MInv
BY StartedUsable, StartedFacts DEF Init, MInv, Mirrors, Ascending

\* Number 0 is that of _start: no value that waits has the number that a
\* cleared cell reads as.
NInv == next > 0 /\ \A i \in 1 .. Len(pending) : pending[i].tmp > 0

(* Every node of the program that leaves the table intact keeps it.        *)
LEMMA NextMInv == MInv /\ NInv /\ NoneErased' /\ [Next]_vars => MInv'
<1> SUFFICES ASSUME MInv, NInv, NoneErased', [Next]_vars PROVE MInv'
  OBVIOUS
<1> DEFINE n == Len(pending)
<1>0. /\ table \in Usable(AnyEntry) /\ frame.end \in Nat /\ next \in Nat
      /\ pending \in Seq(AnyHome) /\ Word \in Sizes
      /\ Mirrors(table, pending) /\ Ascending(pending, next)
      /\ n \in Nat /\ next + 1 \in Nat
  BY SizesAssumption DEF MInv
<1>0a. \A i, j \in 1 .. n : pending[i].tmp = pending[j].tmp => i = j
  BY <1>0, AscendingFacts
<1>0b. ~HasEntry(table, next)
  BY <1>0, NoEntryYet
<1>0c. \A tab \in Usable(AnyEntry) : tab.items \in Seq(AnyEntry)
  BY DEF Usable
<1>0d. Intact(table') /\ Zero \in AnyEntry
  BY DEF NoneErased, AnyEntry
<1>0e. ASSUME n >= 2
       PROVE  /\ pending[n].tmp # 0 /\ pending[n - 1].tmp # 0
  <2>1. n \in 1 .. Len(pending) /\ n - 1 \in 1 .. Len(pending)
    BY <1>0, <1>0e
  <2>2. pending[n].tmp > 0 /\ pending[n - 1].tmp > 0
    BY <2>1 DEF NInv
  <2> QED BY <2>2
<1>1. ASSUME NEW size \in Sizes, Leaf(size) PROVE MInv'
  <2> DEFINE h == Home(table, frame, next, size)
             to == AllocTmp(table, frame, next, size)
  <2>1. /\ h \in AnyHome /\ h.tmp = next
        /\ to.table \in Usable(AnyEntry) /\ to.frame.end \in Nat
        /\ to.table.items = Append(table.items, EntryFor(h))
    <3>1. to.table = table'
      BY <1>1 DEF Leaf
    <3>2. Intact(to.table)
      BY <1>0d, <3>1
    <3> QED BY <1>0, <1>0b, <3>2, AllocTmpAppends
  <2>2. /\ table' = to.table /\ frame' = to.frame
        /\ pending' = Append(pending, h) /\ next' = next + 1
    BY <1>1 DEF Leaf
  <2> HIDE DEF h, to
  <2>3. Mirrors(to.table, Append(pending, h))
    BY <1>0, <1>0c, <2>1, MirrorsAppend
  <2>4. Ascending(Append(pending, h), next + 1)
    BY <1>0, <2>1, AscendingFacts
  <2> QED BY <1>0, <2>1, <2>2, <2>3, <2>4 DEF MInv
<1>2. CASE BinaryOp
  <2> DEFINE h == Home(table, frame, next, Word)
             to == AllocTmp(table, frame, next, Word)
             all == Append(pending, h)
             res == Append(Rest(2), h)
  <2>1. /\ h \in AnyHome /\ h.tmp = next
        /\ to.table \in Usable(AnyEntry) /\ to.frame.end \in Nat
        /\ to.table.items = Append(table.items, EntryFor(h))
    <3> DEFINE t == to.table
               f == to.frame
    <3>1. /\ table' = FreeTwo(t, f).table /\ Len(pending) >= 2
          /\ Len(pending) = n
      BY <1>2 DEF BinaryOp, Waiting
    <3>2. t \in Usable(AnyEntry)
      BY <1>0, <1>0b, AllocTmpUsable
    <3> HIDE DEF t, f
    <3>3. Intact(t)
      BY <1>0d, <1>0e, <3>1, <3>2, FreeTwoIntact
    <3>4. Intact(to.table)
      BY <3>3 DEF t
    <3> QED BY <1>0, <1>0b, <3>4, AllocTmpAppends
  <2>2. /\ table' = FreeTwo(to.table, to.frame).table
        /\ frame' = FreeTwo(to.table, to.frame).frame
        /\ pending' = res /\ next' = next + 1 /\ n >= 2
    BY <1>2 DEF BinaryOp, Waiting
  <2> HIDE DEF h, to
  <2>3. Mirrors(to.table, all)
    BY <1>0, <1>0c, <2>1, MirrorsAppend
  <2>4. /\ all \in Seq(AnyHome) /\ Ascending(all, next + 1)
        /\ Len(all) = n + 1 /\ all[n] = pending[n] /\ all[n - 1] = pending[n - 1]
    BY <1>0, <2>1, <2>2, AscendingFacts
  <2>5. RemoveAt(RemoveAt(all, n), n - 1) = res
    BY <1>0, <2>1, <2>2, DropTwoBeforeLast DEF Rest
  <2>6. Ascending(res, next + 1) /\ res \in Seq(AnyHome)
    <3> DEFINE m == n - 2
    <3>1. m \in 0 .. n /\ Rest(2) = SubSeq(pending, 1, m)
      BY <1>0, <2>2 DEF Rest
    <3> HIDE DEF m
    <3>2. /\ SubSeq(pending, 1, m) \in Seq(AnyHome)
          /\ Ascending(SubSeq(pending, 1, m), next)
      BY <1>0, <3>1, PrefixFacts, AscendingFacts
    <3> DEFINE r == Rest(2)
    <3>3. r \in Seq(AnyHome) /\ Ascending(r, next)
      BY <3>1, <3>2
    <3> HIDE DEF r
    <3>4. Ascending(Append(r, h), next + 1) /\ Append(r, h) \in Seq(AnyHome)
      BY <1>0, <2>1, <3>3, AscendingFacts
    <3> QED BY <3>4 DEF r
  <2> HIDE DEF all, res
  <2>7. \A i, j \in 1 .. Len(all) : all[i].tmp = all[j].tmp => i = j
    BY <1>0, <2>4, AscendingFacts
  <2>8. /\ FreeTwo(to.table, to.frame).table \in Usable(AnyEntry)
        /\ FreeTwo(to.table, to.frame).frame.end \in Nat
        /\ Mirrors(FreeTwo(to.table, to.frame).table,
                   RemoveAt(RemoveAt(all, n), n - 1))
    <3> DEFINE t == to.table
               f == to.frame
    <3>1. n = Len(pending) /\ n <= Len(all)
      BY <1>0, <2>4
    <3>2. t \in Usable(AnyEntry) /\ f.end \in Nat /\ Mirrors(t, all)
      BY <2>1, <2>3
    <3> HIDE DEF t, f, n
    <3>3. /\ FreeTwo(t, f).table \in Usable(AnyEntry)
          /\ FreeTwo(t, f).frame.end \in Nat
          /\ Mirrors(FreeTwo(t, f).table, RemoveAt(RemoveAt(all, n), n - 1))
      <4>1. Intact(FreeTwo(t, f).table)
        BY <1>0d, <2>2 DEF t, f
      <4>2. pending[n].tmp # 0 /\ pending[n - 1].tmp # 0
        BY <1>0e, <2>2
      <4> QED BY <1>0, <2>2, <2>4, <2>7, <3>1, <3>2, <4>1, <4>2, FreeTwoMirrored
    <3> QED BY <3>3 DEF t, f
  <2> QED BY <1>0, <2>2, <2>5, <2>6, <2>8 DEF MInv
<1>3. CASE Compare
  <2> DEFINE at == FreeTwo(table, frame)
             h == Home(at.table, at.frame, next, Word)
             to == AllocTmp(at.table, at.frame, next, Word)
  <2>1. /\ table' = to.table /\ frame' = to.frame
        /\ pending' = Append(Rest(2), h) /\ next' = next + 1 /\ n >= 2
    BY <1>3 DEF Compare, Waiting
  <2>2. RemoveAt(RemoveAt(pending, n), n - 1) = Rest(2)
    BY <1>0, <2>1, DropLastTwo DEF Rest
  <2>3. /\ at.table \in Usable(AnyEntry) /\ at.frame.end \in Nat
        /\ Mirrors(at.table, Rest(2))
    <3>1. at.table \in Usable(AnyEntry) /\ at.frame.end \in Nat
      BY <1>0, FreeTwoUsable
    <3>2. Intact(at.table)
      <4> DEFINE t == at.table
                 f == at.frame
      <4>1. table' = AllocTmp(t, f, next, Word).table
        BY <2>1
      <4>2. ~HasEntry(t, next)
        BY <1>0, <1>0b, FreeTwoNoEntry DEF NInv
      <4>3. t \in Usable(AnyEntry) /\ f.end \in Nat
        BY <3>1
      <4> HIDE DEF t, f
      <4>4. Intact(t)
        BY <1>0, <1>0d, <4>1, <4>2, <4>3, AllocIntact
      <4> QED BY <4>4 DEF t
    <3>3. pending[n].tmp # 0 /\ pending[n - 1].tmp # 0
      BY <1>0e, <2>1
    <3> QED BY <1>0, <1>0a, <2>1, <2>2, <3>2, <3>3, FreeTwoMirrored
  <2>4. Rest(2) \in Seq(AnyHome) /\ Ascending(Rest(2), next)
    <3> DEFINE m == n - 2
    <3>1. m \in 0 .. n /\ Rest(2) = SubSeq(pending, 1, m)
      BY <1>0, <2>1 DEF Rest
    <3> HIDE DEF m
    <3>2. /\ SubSeq(pending, 1, m) \in Seq(AnyHome)
          /\ Ascending(SubSeq(pending, 1, m), next)
      BY <1>0, <3>1, PrefixFacts, AscendingFacts
    <3> QED BY <3>1, <3>2
  <2> HIDE DEF at
  <2>5. ~HasEntry(at.table, next)
    BY <1>0, <2>3, <2>4, NoEntryYet
  <2>6. /\ h \in AnyHome /\ h.tmp = next
        /\ to.table \in Usable(AnyEntry) /\ to.frame.end \in Nat
        /\ to.table.items = Append(at.table.items, EntryFor(h))
    <3> DEFINE t == at.table
               f == at.frame
    <3>1. t \in Usable(AnyEntry) /\ f.end \in Nat /\ ~HasEntry(t, next)
      BY <2>3, <2>5
    <3> HIDE DEF t, f
    <3>2. /\ Home(t, f, next, Word) \in AnyHome
          /\ Home(t, f, next, Word).tmp = next
          /\ AllocTmp(t, f, next, Word).table \in Usable(AnyEntry)
          /\ AllocTmp(t, f, next, Word).table.items
               = Append(t.items, EntryFor(Home(t, f, next, Word)))
          /\ AllocTmp(t, f, next, Word).frame.end \in Nat
      <4>1. Intact(AllocTmp(t, f, next, Word).table)
        BY <1>0d, <2>1 DEF t, f, to
      <4> QED BY <1>0, <3>1, <4>1, AllocTmpAppends
    <3> QED BY <3>2 DEF t, f
  <2> HIDE DEF h, to
  <2>7. Mirrors(to.table, Append(Rest(2), h))
    BY <1>0c, <2>3, <2>4, <2>6, MirrorsAppend
  <2>8. Ascending(Append(Rest(2), h), next + 1)
    BY <1>0, <2>4, <2>6, AscendingFacts
  <2> QED BY <1>0, <2>1, <2>4, <2>6, <2>7, <2>8 DEF MInv
<1>4. CASE Use
  <2> DEFINE to == FreeTmpvar(table, frame, pending[n].tmp)
             m == n - 1
  <2>1. /\ table' = to.table /\ frame' = to.frame
        /\ pending' = SubSeq(pending, 1, m) /\ next' = next /\ n >= 1
    BY <1>4 DEF Use, FreeLast, Rest, Waiting
  <2>2. n \in 1 .. n /\ m \in 0 .. n
    BY <1>0, <2>1
  <2>3. /\ to.table \in Usable(AnyEntry) /\ to.frame.end \in Nat
        /\ Mirrors(to.table, RemoveAt(pending, n))
    <3>1. Intact(to.table)
      BY <1>0d, <2>1
    <3> QED BY <1>0, <1>0a, <2>2, <3>1, FreeMirrored
  <2>4. RemoveAt(pending, n) = SubSeq(pending, 1, m)
    BY <1>0, <2>1, DropLast
  <2> HIDE DEF m, to
  <2>5. SubSeq(pending, 1, m) \in Seq(AnyHome)
        /\ Ascending(SubSeq(pending, 1, m), next)
    BY <1>0, <2>2, PrefixFacts, AscendingFacts
  <2> QED BY <1>0, <2>1, <2>3, <2>4, <2>5 DEF MInv
<1>5. ASSUME NEW names \in Params, NextFunction(names) PROVE MInv'
  <2>1. /\ frame' = AddLocals(ClearStack(frame), names, Word)
        /\ UNCHANGED <<table, next, pending>>
    BY <1>5 DEF NextFunction
  <2>2. frame'.end = 0 + Len(names) * Word
    BY <2>1 DEF AddLocals, GrowStack, ClearStack
  <2>3. Len(names) \in Nat /\ Word \in Nat
    BY ParamsAssumption, SizesAssumption
  <2>4. Len(names) * Word \in Nat
    BY <2>3
  <2> QED BY <1>0, <2>1, <2>2, <2>4 DEF MInv
<1>6. CASE UNCHANGED vars
  BY <1>6 DEF vars, MInv
<1> QED BY <1>1, <1>2, <1>3, <1>4, <1>5, <1>6 DEF Next

(* A table that mirrors the waiting values has exactly their entries.      *)
LEMMA MirrorsEntries == MInv => AllFound
<1> SUFFICES ASSUME MInv, NEW i \in 1 .. Len(pending)
             PROVE  /\ Tmp(table.items[i]) = pending[i].tmp
                    /\ OnStack(table.items[i]) = pending[i].onstack
                    /\ Loc(table.items[i]) = pending[i].loc
  BY DEF AllFound, Homes, MInv, Mirrors
<1>1. pending[i] \in AnyHome /\ table.items[i] = EntryFor(pending[i])
  BY DEF MInv, Mirrors
<1> QED BY <1>1, EntryForFacts

-----------------------------------------------------------------------------
(* Part three: the types and the stack slots, for both kinds of list.  A   *)
(* resize that zeroes the table loses entries, but a zeroed entry still is *)
(* one of a temporary that was given out before.                           *)

Name == UNION {{names[i] : i \in 1 .. Len(names)} : names \in Params}
FrameCell ==
  {Zero} \union [istmp : {0, 1}, offset : Nat, size : Nat, tmp : Nat,
                 name : Name \union {0}]

\* Entries and homes of the temporaries before n.
Below(n) == {cell \in AnyEntry : Tmp(cell) < n}
Waits(n) == {h \in [tmp : Nat, size : Sizes, onstack : {0, 1}, loc : Nat] :
               h.tmp < n}

\* The bytes of spilled values lie one behind the other, from low up to high,
\* in the order in which the values wait.
Stacked(homes, low, high) ==
  /\ \A i \in 1 .. Len(homes) : homes[i].onstack = 1 =>
       low + homes[i].size <= homes[i].loc /\ homes[i].loc <= high
  /\ \A i, j \in 1 .. Len(homes) :
       i < j /\ homes[i].onstack = 1 /\ homes[j].onstack = 1 =>
         homes[i].loc + homes[j].size <= homes[j].loc

\* The end of the bytes of the named locals.
Top == Len(mine) * Word

\* The inductive invariant of TypeOK and SlotsDisjoint.
SInv ==
  /\ next \in 0 .. MaxTmp
  /\ table \in Usable(Below(next))
  /\ frame.end \in Nat
  /\ frame.locals \in Usable(FrameCell)
  /\ pending \in Seq(Waits(next))
  /\ Len(mine) \in Nat
  /\ \A i \in 1 .. Len(mine) : mine[i].loc \in Nat /\ mine[i].loc <= Top
  /\ Top <= frame.end
  /\ Stacked(pending, Top, frame.end)

(* What is before n is before n + 1.                                       *)
LEMMA BelowMore ==
  ASSUME NEW n \in Nat
  PROVE  /\ Usable(Below(n)) \subseteq Usable(Below(n + 1))
         /\ Waits(n) \subseteq Waits(n + 1)
         /\ Zero \in Below(n + 1)
         /\ \A t \in Usable(Below(n)) :
              t.items \in Seq(AnyEntry) /\ ~HasEntry(t, n)
<1>1. \A cell \in AnyEntry : Tmp(cell) \in Nat
  BY DEF AnyEntry, Tmp, Field
<1>2. Below(n) \subseteq Below(n + 1)
  BY <1>1 DEF Below
<1>3. Zero \in Below(n + 1)
  BY DEF Below, AnyEntry, Tmp, Field
<1>4. ASSUME NEW t \in Usable(Below(n))
      PROVE  t.items \in Seq(AnyEntry) /\ ~HasEntry(t, n)
  <2>1. t.items \in Seq(Below(n)) /\ Below(n) \subseteq AnyEntry
    BY DEF Usable, Below
  <2>2. t.items \in Seq(AnyEntry)
    BY <2>1
  <2>3. ASSUME NEW i \in 1 .. Len(t.items), Tmp(t.items[i]) = n PROVE FALSE
    <3>1. t.items[i] \in Below(n)
      BY <2>1
    <3> QED BY <1>1, <2>3, <3>1 DEF Below
  <2> QED BY <2>2, <2>3 DEF HasEntry
<1> QED BY <1>2, <1>3, <1>4 DEF Usable, Waits

(* CODE_ALLOC_TMP of a new temporary: its home is a register, or the bytes *)
(* that the frame has just grown by.                                       *)
LEMMA AllocTmpStacks ==
  ASSUME NEW n \in Nat, NEW tab \in Usable(Below(n)),
         NEW sf, sf.end \in Nat, sf.locals \in Usable(FrameCell),
         NEW size \in Sizes
  PROVE  LET to == AllocTmp(tab, sf, n, size)
             h  == Home(tab, sf, n, size)
         IN  /\ to.table \in Usable(Below(n + 1))
             /\ to.frame.locals \in Usable(FrameCell)
             /\ h \in Waits(n + 1)
             /\ h.onstack = 0 => to.frame.end = sf.end
             /\ h.onstack = 1 => to.frame.end = sf.end + h.size /\ h.loc = to.frame.end
             /\ to.frame.end \in Nat
<1> DEFINE reg == AllocReg(tab, n, RegNum)
           off == sf.end + size
           m == n + 1
<1>1. /\ tab \in Usable(Below(m)) /\ Zero \in Below(m)
      /\ tab.items \in Seq(AnyEntry) /\ ~HasEntry(tab, n)
  BY BelowMore
<1>2. size \in Nat /\ off \in Nat /\ m \in Nat /\ n < m
  BY SizesAssumption
<1>3. CASE GetsReg(tab, n, size)
  <2>1. reg \in Nat
    BY <1>1, <1>3, ScanStops DEF GetsReg, AllocReg
  <2> DEFINE e == InReg(n, reg)
  <2>2. e \in [tmp : Nat, onstack : {0, 1}, loc : Nat] /\ e.tmp = n
    BY <2>1 DEF InReg
  <2>3. e \in Below(m)
    BY <1>2, <2>2, ZeroAssumption DEF Below, AnyEntry, Tmp, Field
  <2>4. AllocTmp(tab, sf, n, size) = [table |-> ListAppend(tab, e), frame |-> sf]
    BY <1>3 DEF AllocTmp, GetsReg, TmpvAllocReg
  <2>5. Home(tab, sf, n, size) = [tmp |-> n, size |-> size, onstack |-> 0, loc |-> reg]
    BY <1>3 DEF Home
  <2> HIDE DEF e, reg
  <2>6. ListAppend(tab, e) \in Usable(Below(m))
    <3> HIDE DEF m
    <3> QED BY <1>1, <2>3, ListAppendFacts
  <2>7. [tmp |-> n, size |-> size, onstack |-> 0, loc |-> reg] \in Waits(m)
    BY <1>2, <2>1 DEF Waits
  <2> QED BY <2>4, <2>5, <2>6, <2>7
<1>4. CASE ~GetsReg(tab, n, size)
  <2> DEFINE e == InSlot(n, off)
             c == SpillCell(n, off, size)
             l == sf.locals
  <2>1. e \in [tmp : Nat, onstack : {0, 1}, loc : Nat] /\ e.tmp = n
    BY <1>2 DEF InSlot
  <2>2. e \in Below(m)
    BY <1>2, <2>1, ZeroAssumption DEF Below, AnyEntry, Tmp, Field
  <2>3. c \in FrameCell /\ Zero \in FrameCell
    BY <1>2 DEF SpillCell, FrameCell
  <2>4. AllocTmp(tab, sf, n, size)
          = [table |-> ListAppend(tab, e),
             frame |-> [end |-> off, locals |-> ListAppend(l, c)]]
    BY <1>1, <1>4 DEF AllocTmp, TmpvAllocStack, StackframeAddTmpvar, GrowStack
  <2>5. Home(tab, sf, n, size) = [tmp |-> n, size |-> size, onstack |-> 1, loc |-> off]
    BY <1>4 DEF Home, GrowStack
  <2>7. [tmp |-> n, size |-> size, onstack |-> 1, loc |-> off] \in Waits(m)
    BY <1>2 DEF Waits
  <2> HIDE DEF e, c, l
  <2>6. ListAppend(tab, e) \in Usable(Below(m)) /\ ListAppend(l, c) \in Usable(FrameCell)
    <3>1. l \in Usable(FrameCell)
      BY DEF l
    <3> HIDE DEF m
    <3> QED BY <1>1, <2>2, <2>3, <3>1, ListAppendFacts
  <2> QED BY <1>2, <2>4, <2>5, <2>6, <2>7
<1> QED BY <1>3, <1>4

(* CODE_FREE leaves the end of the frame where it is.                      *)
LEMMA FreeStacks ==
  ASSUME NEW n \in Nat, NEW tab \in Usable(Below(n + 1)),
         NEW sf, sf.locals \in Usable(FrameCell), NEW tmp
  PROVE  LET to == FreeTmpvar(tab, sf, tmp)
         IN  /\ to.table \in Usable(Below(n + 1))
             /\ to.frame.locals \in Usable(FrameCell)
             /\ to.frame.end = sf.end
<1> DEFINE m == n + 1
<1>1. Zero \in Below(m) /\ Zero \in FrameCell
  BY BelowMore DEF FrameCell
<1>2. tab \in Usable(Below(m))
  OBVIOUS
<1> HIDE DEF m
<1>3. /\ FreeTmpvar(tab, sf, tmp).table \in Usable(Below(m))
      /\ FreeTmpvar(tab, sf, tmp).frame.end = sf.end
  BY <1>1, <1>2, FreeTmpvarFacts
<1>4. FreeTmpvar(tab, sf, tmp).frame \in {sf, StackframeRemoveTmpvar(sf, tmp)}
  BY DEF FreeTmpvar
<1>5. StackframeRemoveTmpvar(sf, tmp).locals \in Usable(FrameCell)
  BY <1>1, RemoveTmpvarFacts
<1> QED BY <1>3, <1>4, <1>5 DEF m

LEMMA FreeTwoStacks ==
  ASSUME NEW n \in Nat, NEW tab \in Usable(Below(n + 1)),
         NEW sf, sf.locals \in Usable(FrameCell)
  PROVE  LET to == FreeTwo(tab, sf)
         IN  /\ to.table \in Usable(Below(n + 1))
             /\ to.frame.locals \in Usable(FrameCell)
             /\ to.frame.end = sf.end
<1> DEFINE last == FreeLast(tab, sf)
<1>1. /\ last.table \in Usable(Below(n + 1))
      /\ last.frame.locals \in Usable(FrameCell)
      /\ last.frame.end = sf.end
  BY FreeStacks DEF FreeLast
<1>2. FreeTwo(tab, sf) = FreeTmpvar(last.table, last.frame,
                                    pending[Len(pending) - 1].tmp)
  BY DEF FreeTwo
<1> HIDE DEF last
<1> DEFINE t == last.table
           f == last.frame
           tmp == pending[Len(pending) - 1].tmp
<1> HIDE DEF t, f, tmp
<1>3. t \in Usable(Below(n + 1)) /\ f.locals \in Usable(FrameCell)
  BY <1>1 DEF t, f
<1>4. LET to == FreeTmpvar(t, f, tmp)
      IN  /\ to.table \in Usable(Below(n + 1))
          /\ to.frame.locals \in Usable(FrameCell)
          /\ to.frame.end = f.end
  BY <1>3, FreeStacks
<1> QED BY <1>1, <1>2, <1>4 DEF t, f, tmp

(* A new home goes on top of the others, or into a register.               *)
LEMMA StackedAppend ==
  ASSUME NEW n \in Nat, NEW homes \in Seq(Waits(n)), NEW low \in Nat,
         NEW high \in Nat, low <= high, Stacked(homes, low, high),
         NEW h \in Waits(n), NEW up,
         h.onstack = 0 => up = high,
         h.onstack = 1 => up = high + h.size /\ h.loc = up
  PROVE  Stacked(Append(homes, h), low, up) /\ low <= up
<1> DEFINE a == Append(homes, h)
           k == Len(homes) + 1
<1>1. /\ Len(a) = k /\ a[k] = h /\ \A i \in 1 .. Len(homes) : a[i] = homes[i]
      /\ \A i \in 1 .. Len(a) : i = k \/ (i \in 1 .. Len(homes) /\ i < k)
  <2>1. Len(a) = k /\ a[k] = h /\ \A i \in 1 .. Len(homes) : a[i] = homes[i]
    OBVIOUS
  <2> DEFINE l == Len(homes)
  <2>2. l \in Nat /\ k = l + 1
    OBVIOUS
  <2> HIDE DEF a, k, l
  <2>3. \A i \in 1 .. k : i = k \/ (i \in 1 .. l /\ i < k)
    BY <2>2
  <2> QED BY <2>1, <2>3 DEF l
<1>2. \A i \in 1 .. Len(homes) : homes[i].loc \in Nat /\ homes[i].size \in Nat
  <2>1. \A i \in 1 .. Len(homes) : homes[i] \in Waits(n)
    OBVIOUS
  <2> QED BY <2>1, SizesAssumption DEF Waits
<1>3. h.size \in Nat /\ h.onstack \in {0, 1} /\ up \in Nat /\ high <= up /\ low <= up
  <2>1. h.size \in Nat /\ h.onstack \in {0, 1}
    BY SizesAssumption DEF Waits
  <2>2. CASE h.onstack = 0
    BY <2>1, <2>2
  <2>3. CASE h.onstack = 1
    BY <2>1, <2>3
  <2> QED BY <2>1, <2>2, <2>3
<1>3a. k \in Nat
  OBVIOUS
<1> HIDE DEF a, k
<1>4. ASSUME NEW i \in 1 .. Len(a), a[i].onstack = 1
      PROVE  low + a[i].size <= a[i].loc /\ a[i].loc <= up
  <2>1. CASE i = k
    BY <1>1, <1>3, <1>4, <2>1
  <2>2. CASE i # k
    <3>1. i \in 1 .. Len(homes) /\ a[i] = homes[i]
      BY <1>1, <2>2
    <3>2. low + homes[i].size <= homes[i].loc /\ homes[i].loc <= high
      BY <1>4, <3>1 DEF Stacked
    <3> QED BY <1>2, <1>3, <3>1, <3>2
  <2> QED BY <2>1, <2>2
<1>5. ASSUME NEW i \in 1 .. Len(a), NEW j \in 1 .. Len(a), i < j,
             a[i].onstack = 1, a[j].onstack = 1
      PROVE  a[i].loc + a[j].size <= a[j].loc
  <2>1. i \in 1 .. Len(homes) /\ a[i] = homes[i]
    BY <1>1, <1>3a, <1>5
  <2>2. CASE j = k
    <3>1. homes[i].loc <= high
      BY <1>5, <2>1 DEF Stacked
    <3>2. a[j] = h /\ h.loc = high + h.size
      BY <1>1, <1>5, <2>2
    <3>3. homes[i].loc \in Nat
      BY <1>2, <2>1
    <3> QED BY <1>3, <2>1, <3>1, <3>2, <3>3
  <2>3. CASE j # k
    <3>1. j \in 1 .. Len(homes) /\ a[j] = homes[j]
      BY <1>1, <2>3
    <3> QED BY <1>5, <2>1, <3>1 DEF Stacked
  <2> QED BY <2>2, <2>3
<1>6. Stacked(a, low, up)
  BY <1>4, <1>5 DEF Stacked
<1> QED BY <1>3, <1>6 DEF a

(* The first homes are stacked as they were.                               *)
LEMMA StackedPrefix ==
  ASSUME NEW S, NEW homes \in Seq(S), NEW low, NEW high,
         Stacked(homes, low, high), NEW m \in 0 .. Len(homes)
  PROVE  Stacked(SubSeq(homes, 1, m), low, high)
<1>1. /\ Len(SubSeq(homes, 1, m)) = m
      /\ \A i \in 1 .. m : SubSeq(homes, 1, m)[i] = homes[i]
  BY PrefixFacts
<1>2. \A i \in 1 .. m : i \in 1 .. Len(homes)
  OBVIOUS
<1> QED BY <1>1, <1>2 DEF Stacked

(* The initial state has the invariant.                                    *)
LEMMA InitSInv == Init => SInv
<1> SUFFICES ASSUME Init PROVE SInv
  OBVIOUS
<1>1. next = 1 /\ pending = <<>> /\ mine = <<>>
  BY DEF Init
<1>2. /\ table \in Usable(Below(next)) /\ frame.locals \in Usable(FrameCell)
      /\ frame.end = 0
  BY StartedUsable DEF Init
<1>3. Stacked(pending, Top, frame.end) /\ Len(mine) = 0 /\ Top <= frame.end
  BY <1>1, <1>2, SizesAssumption DEF Stacked, Top
<1> QED BY <1>1, <1>2, <1>3, MaxTmpAssumption DEF SInv

(* A node that gives a value: the home h of a new temporary takes the      *)
(* place of the k operands, and the frame grows by what the home needs.    *)
LEMMA NodeFacts ==
  ASSUME SInv, NEW size \in Sizes, Leaf(size) \/ (size = Word /\ (BinaryOp \/ Compare))
  PROVE  \E k \in {0, 2}, h \in Waits(next + 1) :
           /\ Waiting(k) /\ pending' = Append(Rest(k), h)
           /\ h.tmp = next /\ h.size = size
           /\ h.onstack = 0 => frame'.end = frame.end
           /\ h.onstack = 1 => frame'.end = frame.end + h.size /\ h.loc = frame'.end
           /\ frame'.end \in Nat /\ frame'.locals \in Usable(FrameCell)
           /\ table' \in Usable(Below(next + 1))
           /\ next' = next + 1 /\ next < MaxTmp /\ UNCHANGED mine
<1> DEFINE m == next + 1
           n == Len(pending)
           Gives(k, h) ==
             /\ Waiting(k) /\ pending' = Append(Rest(k), h)
             /\ h.tmp = next /\ h.size = size
             /\ h.onstack = 0 => frame'.end = frame.end
             /\ h.onstack = 1 => frame'.end = frame.end + h.size /\ h.loc = frame'.end
             /\ frame'.end \in Nat /\ frame'.locals \in Usable(FrameCell)
             /\ table' \in Usable(Below(m))
             /\ next' = m /\ next < MaxTmp /\ UNCHANGED mine
<1>0. /\ next \in Nat /\ Word \in Sizes
      /\ table \in Usable(Below(next)) /\ table \in Usable(Below(m))
      /\ frame.end \in Nat /\ frame.locals \in Usable(FrameCell)
      /\ pending \in Seq(Waits(next)) /\ n \in Nat
  <2>1. next \in Nat /\ Word \in Sizes
    BY MaxTmpAssumption, SizesAssumption DEF SInv
  <2>2. Usable(Below(next)) \subseteq Usable(Below(m))
    BY <2>1, BelowMore
  <2> QED BY <2>1, <2>2 DEF SInv
<1>0a. \A tab, sf : Home(tab, sf, next, size).tmp = next
                    /\ Home(tab, sf, next, size).size = size
  BY DEF Home
<1>1. CASE Leaf(size)
  <2> DEFINE to == AllocTmp(table, frame, next, size)
             h  == Home(table, frame, next, size)
  <2>1. /\ to.table \in Usable(Below(m))
        /\ to.frame.locals \in Usable(FrameCell)
        /\ h \in Waits(m)
        /\ h.onstack = 0 => to.frame.end = frame.end
        /\ h.onstack = 1 => to.frame.end = frame.end + h.size /\ h.loc = to.frame.end
        /\ to.frame.end \in Nat
    BY <1>0, AllocTmpStacks
  <2>2. /\ table' = to.table /\ frame' = to.frame
        /\ pending' = Append(pending, h) /\ next' = m /\ next < MaxTmp
        /\ UNCHANGED mine
    BY <1>1 DEF Leaf, Fresh
  <2>3. Waiting(0) /\ Rest(0) = pending
    BY <1>0 DEF Waiting, Rest
  <2>4. h.tmp = next /\ h.size = size
    BY <1>0a
  <2> HIDE DEF to, h, m
  <2>5. Gives(0, h)
    BY <2>1, <2>2, <2>3, <2>4
  <2> HIDE DEF Gives
  <2>6. \E k \in {0, 2}, g \in Waits(m) : Gives(k, g)
    BY <2>1, <2>5
  <2> QED BY <2>6 DEF Gives, m
<1>2. CASE size = Word /\ BinaryOp
  <2> DEFINE to == AllocTmp(table, frame, next, size)
             h  == Home(table, frame, next, size)
             t  == to.table
             f  == to.frame
             at == FreeTwo(t, f)
  <2>1. /\ t \in Usable(Below(m))
        /\ f.locals \in Usable(FrameCell)
        /\ h \in Waits(m)
        /\ h.onstack = 0 => f.end = frame.end
        /\ h.onstack = 1 => f.end = frame.end + h.size /\ h.loc = f.end
        /\ f.end \in Nat
    BY <1>0, AllocTmpStacks
  <2>2. /\ table' = at.table /\ frame' = at.frame
        /\ pending' = Append(Rest(2), h) /\ next' = m /\ next < MaxTmp
        /\ Waiting(2) /\ UNCHANGED mine
    BY <1>2 DEF BinaryOp, Fresh
  <2>3. h.tmp = next /\ h.size = size
    BY <1>0a
  <2> HIDE DEF t, f, h
  <2>4. /\ at.table \in Usable(Below(m))
        /\ at.frame.locals \in Usable(FrameCell)
        /\ at.frame.end = f.end
    BY <1>0, <2>1, FreeTwoStacks
  <2> HIDE DEF at, m
  <2>5. Gives(2, h)
    BY <2>1, <2>2, <2>3, <2>4
  <2> HIDE DEF Gives
  <2>6. \E k \in {0, 2}, g \in Waits(m) : Gives(k, g)
    BY <2>1, <2>5
  <2> QED BY <2>6 DEF Gives, m
<1>3. CASE size = Word /\ Compare
  <2> DEFINE at == FreeTwo(table, frame)
             t  == at.table
             f  == at.frame
             to == AllocTmp(t, f, next, size)
             h  == Home(t, f, next, size)
             l  == next - 1
  <2>1. /\ table' = to.table /\ frame' = to.frame
        /\ pending' = Append(Rest(2), h) /\ next' = m /\ next < MaxTmp
        /\ Waiting(2) /\ UNCHANGED mine
    BY <1>3 DEF Compare, Fresh
  <2>2. next > 0
    <3>1. 1 \in 1 .. n
      BY <1>0, <2>1 DEF Waiting
    <3>2. pending[1] \in Waits(next)
      BY <1>0, <3>1
    <3> QED BY <1>0, <3>2 DEF Waits
  <2>3. l \in Nat /\ l + 1 = next
    BY <1>0, <2>2
  <2>3a. h.tmp = next /\ h.size = size
    BY <1>0a
  <2> HIDE DEF l
  <2>4. /\ t \in Usable(Below(next)) /\ f.locals \in Usable(FrameCell)
        /\ f.end = frame.end
    <3>1. table \in Usable(Below(l + 1))
      BY <1>0, <2>3
    <3>2. /\ t \in Usable(Below(l + 1)) /\ f.locals \in Usable(FrameCell)
          /\ f.end = frame.end
      BY <1>0, <2>3, <3>1, FreeTwoStacks
    <3> QED BY <2>3, <3>2
  <2> HIDE DEF t, f
  <2>5. /\ to.table \in Usable(Below(m))
        /\ to.frame.locals \in Usable(FrameCell)
        /\ h \in Waits(m)
        /\ h.onstack = 0 => to.frame.end = frame.end
        /\ h.onstack = 1 => to.frame.end = frame.end + h.size /\ h.loc = to.frame.end
        /\ to.frame.end \in Nat
    <3>1. f.end \in Nat
      BY <1>0, <2>4
    <3>2. /\ to.table \in Usable(Below(m))
          /\ to.frame.locals \in Usable(FrameCell)
          /\ h \in Waits(m)
          /\ h.onstack = 0 => to.frame.end = f.end
          /\ h.onstack = 1 => to.frame.end = f.end + h.size /\ h.loc = to.frame.end
          /\ to.frame.end \in Nat
      BY <1>0, <2>4, <3>1, AllocTmpStacks
    <3> QED BY <2>4, <3>2
  <2> HIDE DEF to, h, m
  <2>6. Gives(2, h)
    BY <2>1, <2>3a, <2>5
  <2> HIDE DEF Gives
  <2>7. \E k \in {0, 2}, g \in Waits(m) : Gives(k, g)
    BY <2>5, <2>6
  <2> QED BY <2>7 DEF Gives, m
<1> QED BY <1>1, <1>2, <1>3

(* The last use of a value takes it off the stack of waiting ones, and     *)
(* leaves the frame's end where it is.                                     *)
LEMMA UseFacts ==
  ASSUME SInv, Use
  PROVE  /\ Waiting(1) /\ pending' = Rest(1) /\ Rest(1) \in Seq(Waits(next))
         /\ frame'.end = frame.end /\ frame'.locals \in Usable(FrameCell)
         /\ table' \in Usable(Below(next)) /\ UNCHANGED <<next, mine>>
<1> DEFINE l  == next - 1
           at == FreeLast(table, frame)
<1>0. /\ next \in Nat /\ table \in Usable(Below(next))
      /\ frame.locals \in Usable(FrameCell)
      /\ pending \in Seq(Waits(next)) /\ Len(pending) \in Nat
  BY DEF SInv
<1>1. /\ table' = at.table /\ frame' = at.frame
      /\ pending' = Rest(1) /\ UNCHANGED <<next, mine>> /\ Waiting(1)
  BY DEF Use
<1>2. next > 0
  <2>1. 1 \in 1 .. Len(pending)
    BY <1>0, <1>1 DEF Waiting
  <2>2. pending[1] \in Waits(next)
    BY <1>0, <2>1
  <2> QED BY <1>0, <2>2 DEF Waits
<1>3. l \in Nat /\ l + 1 = next
  BY <1>0, <1>2
<1> HIDE DEF l
<1>4. /\ at.table \in Usable(Below(next)) /\ at.frame.locals \in Usable(FrameCell)
      /\ at.frame.end = frame.end
  <2>1. table \in Usable(Below(l + 1))
    BY <1>0, <1>3
  <2>2. /\ at.table \in Usable(Below(l + 1))
        /\ at.frame.locals \in Usable(FrameCell)
        /\ at.frame.end = frame.end
    BY <1>0, <1>3, <2>1, FreeStacks DEF FreeLast
  <2> QED BY <1>3, <2>2
<1> HIDE DEF at
<1>5. Rest(1) \in Seq(Waits(next))
  BY <1>0, <1>1, RestHomes
<1> QED BY <1>1, <1>4, <1>5

(* Every node of the program, and the next function, keeps it.             *)
LEMMA NextSInv == SInv /\ [Next]_vars => SInv'
<1> SUFFICES ASSUME SInv, [Next]_vars PROVE SInv'
  OBVIOUS
<1> DEFINE m == next + 1
           n == Len(pending)
<1>0. /\ next \in Nat /\ next <= MaxTmp /\ Word \in Sizes
      /\ frame.end \in Nat /\ frame.locals \in Usable(FrameCell)
      /\ table \in Usable(Below(next))
      /\ pending \in Seq(Waits(next)) /\ n \in Nat
      /\ Stacked(pending, Top, frame.end)
      /\ Waits(next) \subseteq Waits(m)
  <2>1. next \in Nat /\ next <= MaxTmp /\ Word \in Sizes
    BY MaxTmpAssumption, SizesAssumption DEF SInv
  <2>2. Waits(next) \subseteq Waits(m)
    BY <2>1, BelowMore
  <2> QED BY <2>1, <2>2 DEF SInv
<1>0a. /\ Len(mine) \in Nat /\ Top \in Nat /\ Top <= frame.end
       /\ \A i \in 1 .. Len(mine) : mine[i].loc \in Nat /\ mine[i].loc <= Top
  BY SizesAssumption DEF SInv, Top
<1>0b. UNCHANGED mine => Top' = Top
  BY DEF Top
<1>0c. ASSUME NEW k \in Nat, Waiting(k)
       PROVE  Rest(k) \in Seq(Waits(m)) /\ Stacked(Rest(k), Top, frame.end)
  <2> DEFINE l == n - k
  <2>1. l \in 0 .. n /\ Rest(k) = SubSeq(pending, 1, l)
    BY <1>0, <1>0c DEF Waiting, Rest
  <2> HIDE DEF l
  <2>2. SubSeq(pending, 1, l) \in Seq(Waits(next))
        /\ Stacked(SubSeq(pending, 1, l), Top, frame.end)
    BY <1>0, <2>1, PrefixFacts, StackedPrefix
  <2> QED BY <1>0, <2>1, <2>2
<1>0d. ASSUME NEW rest \in Seq(Waits(m)), Stacked(rest, Top, frame.end),
              NEW h \in Waits(m), NEW up,
              h.onstack = 0 => up = frame.end,
              h.onstack = 1 => up = frame.end + h.size /\ h.loc = up
       PROVE  /\ Append(rest, h) \in Seq(Waits(m))
              /\ Stacked(Append(rest, h), Top, up) /\ Top <= up
  <2>1. m \in Nat
    BY <1>0
  <2> HIDE DEF m
  <2> QED BY <1>0, <1>0a, <1>0d, <2>1, StackedAppend
<1>1. ASSUME NEW size \in Sizes, Leaf(size) \/ (size = Word /\ (BinaryOp \/ Compare))
      PROVE  SInv'
  <2> DEFINE up == frame'.end
  <2>1. PICK k \in {0, 2}, h \in Waits(m) :
          /\ Waiting(k) /\ pending' = Append(Rest(k), h)
          /\ h.tmp = next /\ h.size = size
          /\ h.onstack = 0 => up = frame.end
          /\ h.onstack = 1 => up = frame.end + h.size /\ h.loc = up
          /\ up \in Nat /\ frame'.locals \in Usable(FrameCell)
          /\ table' \in Usable(Below(m))
          /\ next' = m /\ next < MaxTmp /\ UNCHANGED mine
    BY <1>1, NodeFacts
  <2> HIDE DEF up
  <2>2. Rest(k) \in Seq(Waits(m)) /\ Stacked(Rest(k), Top, frame.end)
    BY <1>0c, <2>1
  <2>3. pending' \in Seq(Waits(m)) /\ Stacked(pending', Top, up) /\ Top <= up
    BY <1>0d, <2>1, <2>2
  <2>4. m \in 0 .. MaxTmp
    BY <1>0, <2>1, MaxTmpAssumption
  <2> HIDE DEF m
  <2> QED BY <1>0a, <1>0b, <2>1, <2>3, <2>4 DEF SInv, up
<1>2. CASE Use
  <2>1. /\ Waiting(1) /\ pending' = Rest(1) /\ Rest(1) \in Seq(Waits(next))
        /\ frame'.end = frame.end /\ frame'.locals \in Usable(FrameCell)
        /\ table' \in Usable(Below(next)) /\ UNCHANGED <<next, mine>>
    BY <1>2, UseFacts
  <2>2. Stacked(Rest(1), Top, frame.end)
    BY <1>0c, <2>1
  <2>3. next \in 0 .. MaxTmp
    BY DEF SInv
  <2> QED BY <1>0, <1>0a, <1>0b, <2>1, <2>2, <2>3 DEF SInv
<1>3. ASSUME NEW names \in Params, NextFunction(names) PROVE SInv'
  <2> DEFINE sf == ClearStack(frame)
             k  == Len(names)
  <2>1. /\ frame' = [end |-> sf.end + k * Word, locals |-> NamedLocals(sf, names, Word)]
        /\ mine' = [i \in 1 .. k |-> [name |-> names[i], loc |-> i * Word]]
        /\ pending = <<>> /\ UNCHANGED <<table, next, pending>>
    BY <1>3 DEF NextFunction, AddLocals, GrowStack
  <2>2. sf.end = 0 /\ sf.locals = ClearLocals(frame.locals)
    BY DEF ClearStack
  <2>3. k \in Nat /\ Word \in Nat /\ Zero \in FrameCell
    BY ParamsAssumption, SizesAssumption DEF FrameCell
  <2>4. sf.locals \in Usable(FrameCell)
    BY <1>0, <2>2, <2>3, ClearLocalsFacts
  <2> HIDE DEF sf
  <2>5. \A i \in 1 .. k : i * Word \in Nat /\ i * Word <= k * Word
    <3> SUFFICES ASSUME NEW i \in 1 .. k
                 PROVE  i * Word \in Nat /\ i * Word <= k * Word
      OBVIOUS
    <3> DEFINE d == k - i
    <3>1. i \in Nat /\ d \in Nat /\ k = i + d
      BY <2>3
    <3>2. i * Word \in Nat /\ d * Word \in Nat /\ (i + d) * Word = i * Word + d * Word
      BY <2>3, <3>1
    <3> HIDE DEF d
    <3> QED BY <3>1, <3>2
  <2>6. \A i \in 1 .. k : LocalCell(names[i], sf.end + i * Word, Word) \in FrameCell
    <3> SUFFICES ASSUME NEW i \in 1 .. k
                 PROVE  LocalCell(names[i], sf.end + i * Word, Word) \in FrameCell
      OBVIOUS
    <3>1. names[i] \in Name
      BY DEF Name
    <3>2. sf.end + i * Word \in Nat
      BY <2>2, <2>5
    <3> HIDE DEF k
    <3> QED BY <2>3, <3>1, <3>2 DEF LocalCell, FrameCell
  <2>7. NamedLocals(sf, names, Word) \in Usable(FrameCell)
    BY <2>3, <2>4, <2>6, NamedLocalsFacts
  <2>8. k * Word \in Nat
    BY <2>3
  <2> HIDE DEF k
  <2>9. /\ frame'.end = k * Word /\ frame'.locals = NamedLocals(sf, names, Word)
        /\ Len(mine') = k /\ Top' = k * Word
        /\ \A i \in 1 .. k : mine'[i].loc = i * Word
    <3>1. sf.end + k * Word = k * Word
      BY <2>2, <2>8
    <3>2. Len(mine') = k /\ \A i \in 1 .. k : mine'[i].loc = i * Word
      BY <2>1, <2>3
    <3> QED BY <2>1, <3>1, <3>2 DEF Top
  <2>10. Stacked(pending', Top', frame'.end)
    BY <2>1 DEF Stacked
  <2>11. next \in 0 .. MaxTmp
    BY DEF SInv
  <2> QED BY <1>0, <2>1, <2>3, <2>5, <2>7, <2>8, <2>9, <2>10, <2>11 DEF SInv
<1>4. CASE UNCHANGED vars
  BY <1>4 DEF vars, SInv, Top
<1> QED BY <1>0, <1>1, <1>2, <1>3, <1>4 DEF Next

(* The table, the frame and the waiting homes have their types, whatever   *)
(* the resizes of both lists leave of their cells (asmgen.c, utils.c).     *)
THEOREM RegTypes == Spec => []TypeOK
<1>1. SInv => TypeOK
  <2> SUFFICES ASSUME SInv PROVE TypeOK
    OBVIOUS
  <2>1. /\ table.cap \in Nat /\ frame.locals.cap \in Nat /\ frame.end \in Nat
        /\ next \in 0 .. MaxTmp
    BY DEF SInv, Usable
  <2>2. \A i \in 1 .. Len(table.items) : OnStack(table.items[i]) \in {0, 1}
    <3>1. \A i \in 1 .. Len(table.items) : table.items[i] \in AnyEntry
      BY DEF SInv, Usable, Below
    <3> QED BY <3>1 DEF AnyEntry, OnStack, Field
  <2>3. \A i \in 1 .. Len(pending) :
          pending[i] \in [tmp : 0 .. MaxTmp, size : Sizes,
                          onstack : {0, 1}, loc : Nat]
    <3>1. \A i \in 1 .. Len(pending) : pending[i] \in Waits(next)
      BY DEF SInv
    <3> QED BY <2>1, <3>1, MaxTmpAssumption DEF Waits
  <2> QED BY <2>1, <2>2, <2>3 DEF TypeOK
<1> QED BY <1>1, InitSInv, NextSInv, PTL DEF Spec

(* No two values share a byte of the stack, nor does a value a byte of a   *)
(* named local, whatever the order in which values come and go             *)
(* (asmgen.c:148-151, 194-212).                                            *)
THEOREM StackSlotsDisjoint == Spec => []SlotsDisjoint
<1>1. SInv => SlotsDisjoint
  <2> SUFFICES ASSUME SInv PROVE SlotsDisjoint
    OBVIOUS
  <2>1. \A i \in 1 .. Len(pending) :
          pending[i].loc \in Nat /\ pending[i].size \in Nat
    <3>1. \A i \in 1 .. Len(pending) : pending[i] \in Waits(next)
      BY DEF SInv
    <3> QED BY <3>1, SizesAssumption DEF Waits
  <2>2. \A h \in Spilled : \E i \in 1 .. Len(pending) :
          h = pending[i] /\ pending[i].onstack = 1
    BY DEF Spilled, Homes
  <2>3. ASSUME NEW i \in 1 .. Len(pending), NEW j \in 1 .. Len(pending), i < j,
               pending[i].onstack = 1, pending[j].onstack = 1
        PROVE  Bytes(pending[i].loc, pending[i].size)
                 \intersect Bytes(pending[j].loc, pending[j].size) = {}
    <3>1. pending[i].loc + pending[j].size <= pending[j].loc
      BY <2>3 DEF SInv, Stacked
    <3> QED BY <2>1, <3>1 DEF Bytes
  <2>4. \A h, g \in Spilled :
          h # g => Bytes(h.loc, h.size) \intersect Bytes(g.loc, g.size) = {}
    <3> SUFFICES ASSUME NEW i \in 1 .. Len(pending), NEW j \in 1 .. Len(pending),
                        pending[i].onstack = 1, pending[j].onstack = 1,
                        pending[i] # pending[j]
                 PROVE  Bytes(pending[i].loc, pending[i].size)
                          \intersect Bytes(pending[j].loc, pending[j].size) = {}
      BY <2>2
    <3>1. CASE i < j
      BY <2>3, <3>1
    <3>2. CASE j < i
      BY <2>3, <3>2
    <3>3. i < j \/ j < i
      OBVIOUS
    <3> QED BY <3>1, <3>2, <3>3
  <2>5. \A h \in Spilled : h.loc <= frame.end /\ Top + h.size <= h.loc
                           /\ h.loc \in Nat /\ h.size \in Nat
    BY <2>1, <2>2 DEF SInv, Stacked
  <2>6. Top \in Nat /\ Word \in Nat
    BY SizesAssumption DEF SInv, Top
  <2>7. \A h \in Spilled, i \in 1 .. Len(mine) :
          Bytes(h.loc, h.size) \intersect Bytes(mine[i].loc, Word) = {}
    <3> SUFFICES ASSUME NEW h \in Spilled, NEW i \in 1 .. Len(mine)
                 PROVE  Bytes(h.loc, h.size) \intersect Bytes(mine[i].loc, Word) = {}
      OBVIOUS
    <3>1. mine[i].loc \in Nat /\ mine[i].loc <= Top
      BY DEF SInv
    <3> QED BY <2>5, <2>6, <3>1 DEF Bytes
  <2> QED BY <2>4, <2>5, <2>7 DEF SlotsDisjoint
<1> QED BY <1>1, InitSInv, NextSInv, PTL DEF Spec

-----------------------------------------------------------------------------
(* What an entry that a resize has cleared was, is not known any more; but *)
(* a cleared entry stays cleared: no temporary has the number 0 that       *)
(* free_tmpvar would find it by.                                           *)
LEMMA InitNInv == Init => NInv
BY DEF Init, NInv

LEMMA NextNInv == SInv /\ NInv /\ [Next]_vars => NInv'
<1> SUFFICES ASSUME SInv, NInv, [Next]_vars PROVE NInv'
  OBVIOUS
<1>0. next \in Nat /\ next > 0 /\ pending \in Seq(Waits(next))
  BY MaxTmpAssumption DEF SInv, NInv
<1>1. ASSUME NEW size \in Sizes,
             Leaf(size) \/ (size = Word /\ (BinaryOp \/ Compare))
      PROVE  NInv'
  <2>1. PICK k \in {0, 2}, h \in Waits(next + 1) :
          /\ Waiting(k) /\ pending' = Append(Rest(k), h)
          /\ h.tmp = next /\ next' = next + 1
    BY <1>1, NodeFacts
  <2> DEFINE r == Rest(k)
  <2>2. /\ r \in Seq(Waits(next)) /\ Len(r) = Len(pending) - k
        /\ \A i \in 1 .. Len(r) : r[i] = pending[i] /\ i \in 1 .. Len(pending)
    BY <1>0, <2>1, RestHomes
  <2> HIDE DEF r
  <2>3. \A i \in 1 .. Len(r) : r[i].tmp > 0
    BY <2>2 DEF NInv
  <2>4. \A i \in 1 .. Len(pending') : pending'[i].tmp > 0
    <3>1. pending' = Append(r, h)
      BY <2>1 DEF r
    <3>2. \A i \in 1 .. Len(Append(r, h)) :
            Append(r, h)[i] = h \/ (i \in 1 .. Len(r) /\ Append(r, h)[i] = r[i])
      BY <2>2
    <3> QED BY <1>0, <2>1, <2>3, <3>1, <3>2
  <2> QED BY <1>0, <2>1, <2>4 DEF NInv
<1>2. CASE Use
  <2>1. Waiting(1) /\ pending' = Rest(1) /\ next' = next
    BY <1>2, UseFacts
  <2>2. /\ Rest(1) \in Seq(Waits(next)) /\ Len(Rest(1)) = Len(pending) - 1
        /\ \A i \in 1 .. Len(pending) - 1 : Rest(1)[i] = pending[i]
    BY <1>0, <2>1, RestHomes
  <2>3. \A i \in 1 .. Len(Rest(1)) : Rest(1)[i].tmp > 0
    BY <1>0, <2>2 DEF NInv
  <2> QED BY <1>0, <2>1, <2>3 DEF NInv
<1>3. CASE (\E names \in Params : NextFunction(names)) \/ UNCHANGED vars
  BY <1>3 DEF NextFunction, vars, NInv
<1>4. Word \in Sizes
  BY SizesAssumption
<1> QED BY <1>1, <1>2, <1>3, <1>4 DEF Next

(* A table that is intact after a node was intact before it.               *)
LEMMA IntactBefore == SInv /\ NInv /\ NoneErased' /\ [Next]_vars => NoneErased
<1> SUFFICES ASSUME SInv, NInv, NoneErased', [Next]_vars PROVE NoneErased
  OBVIOUS
<1> DEFINE n == Len(pending)
<1>0. /\ next \in Nat /\ next > 0 /\ Word \in Sizes /\ n \in Nat
      /\ table \in Usable(AnyEntry) /\ frame.end \in Nat
      /\ ~HasEntry(table, next) /\ Zero \in AnyEntry /\ Intact(table')
  <2>1. next \in Nat /\ next > 0 /\ Word \in Sizes /\ n \in Nat /\ frame.end \in Nat
    BY MaxTmpAssumption, SizesAssumption DEF SInv, NInv
  <2>2. table \in Usable(Below(next))
    BY DEF SInv
  <2>3. table.items \in Seq(AnyEntry) /\ ~HasEntry(table, next)
    BY <2>1, <2>2, BelowMore
  <2>4. table \in Usable(AnyEntry)
    BY <2>2, <2>3 DEF Usable
  <2> QED BY <2>1, <2>3, <2>4 DEF NoneErased, AnyEntry
<1>0a. ASSUME n >= 2 PROVE pending[n].tmp # 0 /\ pending[n - 1].tmp # 0
  <2>1. n \in 1 .. Len(pending) /\ n - 1 \in 1 .. Len(pending)
    BY <1>0, <1>0a
  <2>2. pending[n].tmp > 0 /\ pending[n - 1].tmp > 0
    BY <2>1 DEF NInv
  <2> QED BY <2>2
<1>1. ASSUME NEW size \in Sizes, Leaf(size) PROVE Intact(table)
  <2>1. table' = AllocTmp(table, frame, next, size).table
    BY <1>1 DEF Leaf
  <2> QED BY <1>0, <2>1, AllocIntact
<1>2. CASE BinaryOp
  <2> DEFINE to == AllocTmp(table, frame, next, Word)
             t == to.table
             f == to.frame
  <2>1. table' = FreeTwo(t, f).table /\ n >= 2
    BY <1>2 DEF BinaryOp, Waiting
  <2>2. t \in Usable(AnyEntry)
    BY <1>0, AllocTmpUsable
  <2> HIDE DEF t, f
  <2>3. Intact(t)
    BY <1>0, <1>0a, <2>1, <2>2, FreeTwoIntact
  <2> QED BY <1>0, <2>3, AllocIntact DEF t, NoneErased
<1>3. CASE Compare
  <2> DEFINE at == FreeTwo(table, frame)
             t == at.table
             f == at.frame
  <2>1. table' = AllocTmp(t, f, next, Word).table /\ n >= 2
    BY <1>3 DEF Compare, Waiting
  <2>2. t \in Usable(AnyEntry) /\ f.end \in Nat
    BY <1>0, FreeTwoUsable
  <2>3. ~HasEntry(t, next)
    BY <1>0, FreeTwoNoEntry
  <2> HIDE DEF t, f
  <2>4. Intact(t)
    BY <1>0, <2>1, <2>2, <2>3, AllocIntact
  <2> QED BY <1>0, <1>0a, <2>1, <2>4, FreeTwoIntact DEF t, NoneErased
<1>4. CASE Use
  <2>1. table' = FreeTmpvar(table, frame, pending[n].tmp).table /\ n >= 1
    BY <1>4 DEF Use, FreeLast, Waiting
  <2>2. pending[n].tmp # 0
    <3>1. pending[n].tmp > 0
      BY <1>0, <2>1 DEF NInv
    <3> QED BY <3>1
  <2> QED BY <1>0, <2>1, <2>2, FreeIntact DEF NoneErased
<1>5. CASE (\E names \in Params : NextFunction(names)) \/ UNCHANGED vars
  <2>1. table' = table
    BY <1>5 DEF NextFunction, vars
  <2> QED BY <1>0, <2>1 DEF NoneErased
<1> QED BY <1>1, <1>2, <1>3, <1>4, <1>5 DEF Next, NoneErased

\* The inductive invariant of EntriesAreHomes.
KInv == SInv /\ NInv /\ (NoneErased => MInv)

LEMMA InitKInv == Init => KInv
BY InitSInv, InitNInv, InitMInv DEF KInv

LEMMA NextKInv == KInv /\ [Next]_vars => KInv'
BY NextSInv, NextNInv, NextMInv, IntactBefore DEF KInv

(* Until a resize has cleared an entry of it, the table has the entries of *)
(* the values that wait, where they were put, and no other, whichever list *)
(* it is kept in (amd64.c:165-180, 340-345, asmgen.c:11-62).               *)
THEOREM WaitingAreFound == Spec => []EntriesAreHomes
<1>1. KInv => EntriesAreHomes
  BY MirrorsEntries DEF KInv, EntriesAreHomes
<1> QED BY <1>1, InitKInv, NextKInv, PTL DEF Spec

-----------------------------------------------------------------------------
(* Part four: where no entry is cleared and no register is shared.         *)

\* The inductive invariant: at most two values wait, in two registers if in
\* any.
FewInv ==
  /\ Len(pending) <= 2
  /\ Len(pending) = 2 /\ pending[1].onstack = 0 /\ pending[2].onstack = 0 =>
       pending[1].loc # pending[2].loc

LEMMA InitFewInv == Init => FewInv
BY DEF Init, FewInv

(* The second value finds the register of the first in the last entry of   *)
(* the table, which the scan never stops at; a binary node leaves one.     *)
LEMMA NextFewInv ==
  ASSUME MaxPending \in 0 .. 2
  PROVE  MInv /\ FewInv /\ [Next]_vars => FewInv'
<1> SUFFICES ASSUME MInv, FewInv, [Next]_vars PROVE FewInv'
  OBVIOUS
<1>0. /\ pending \in Seq(AnyHome) /\ Len(pending) \in Nat /\ Len(pending) <= 2
      /\ table.items \in Seq(AnyEntry) /\ Len(table.items) = Len(pending)
  BY DEF MInv, FewInv, Usable, Mirrors
<1>1. ASSUME NEW size \in Sizes, Leaf(size) PROVE FewInv'
  <2> DEFINE h == Home(table, frame, next, size)
  <2>1. pending' = Append(pending, h) /\ Len(pending) < MaxPending
    BY <1>1 DEF Leaf
  <2>2. Len(pending) = 0 \/ Len(pending) = 1
    <3> DEFINE n == Len(pending)
    <3>1. n \in Nat /\ n < MaxPending
      BY <1>0, <2>1
    <3>2. MaxPending \in 0 .. 2
      BY MaxPending \in 0 .. 2
    <3> HIDE DEF n
    <3>3. n = 0 \/ n = 1
      BY <3>1, <3>2
    <3> QED BY <3>3 DEF n
  <2>3. h.onstack = 0 => h.loc = ScanStop(table.items)
    BY DEF Home, GetsReg, AllocReg
  <2> HIDE DEF h
  <2>4. CASE Len(pending) = 0
    <3>1. Len(pending') = 1
      BY <1>0, <2>1, <2>4
    <3> QED BY <3>1 DEF FewInv
  <2>5. CASE Len(pending) = 1
    <3>1. Len(pending') = 2 /\ pending'[1] = pending[1] /\ pending'[2] = h
      <4>1. Len(pending') = Len(pending) + 1
        BY <1>0, <2>1
      <4>2. \A i \in 1 .. Len(pending) : pending'[i] = pending[i]
        BY <1>0, <2>1
      <4>3. pending'[Len(pending) + 1] = h
        BY <1>0, <2>1
      <4> QED BY <2>5, <4>1, <4>2, <4>3
    <3>2. Loc(table.items[1]) = pending[1].loc
      <4>1. pending[1] \in AnyHome /\ table.items[1] = EntryFor(pending[1])
        BY <1>0, <2>5 DEF MInv, Mirrors
      <4> QED BY <4>1, EntryForFacts
    <3>3. ScanStop(table.items) # Loc(table.items[1])
      <4>1. Len(table.items) = 1 /\ Len(table.items) > 0
        BY <1>0, <2>5
      <4>2. ScanStop(table.items) # Loc(table.items[Len(table.items)])
        BY <1>0, <4>1, ScanNotLast
      <4> QED BY <4>1, <4>2
    <3> QED BY <2>3, <3>1, <3>2, <3>3 DEF FewInv
  <2> QED BY <2>2, <2>4, <2>5
<1>2. ASSUME BinaryOp \/ Compare PROVE FewInv'
  <2>1. Waiting(2) /\ \E h : pending' = Append(Rest(2), h)
    BY <1>2 DEF BinaryOp, Compare
  <2>2. Rest(2) \in Seq(AnyHome) /\ Len(Rest(2)) = 0
    BY <1>0, <2>1, RestHomes DEF Waiting
  <2>3. Len(pending') = 1
    BY <2>1, <2>2
  <2> QED BY <2>3 DEF FewInv
<1>3. CASE Use
  <2>1. Waiting(1) /\ pending' = Rest(1)
    BY <1>3 DEF Use
  <2>2. Len(pending') = Len(pending) - 1
    BY <1>0, <2>1, RestHomes
  <2>3. Len(pending') <= 2 /\ Len(pending') # 2
    <3> DEFINE n == Len(pending)
    <3>1. n \in Nat /\ n <= 2 /\ Len(pending') = n - 1
      BY <1>0, <2>2
    <3> HIDE DEF n
    <3> QED BY <3>1
  <2> QED BY <2>3 DEF FewInv
<1>4. CASE (\E names \in Params : NextFunction(names)) \/ UNCHANGED vars
  <2>1. pending' = pending
    BY <1>4 DEF NextFunction, vars
  <2> QED BY <2>1 DEF FewInv
<1> QED BY <1>1, <1>2, <1>3, <1>4 DEF Next

LEMMA FewAreApart == MInv /\ FewInv => NoSharedRegister
<1> SUFFICES ASSUME MInv, FewInv, NEW i \in 1 .. Len(pending), NEW j \in 1 .. Len(pending),
                    pending[i].onstack = 0, pending[j].onstack = 0,
                    pending[i].loc = pending[j].loc
             PROVE  i = j
  BY DEF NoSharedRegister, InRegister, Homes
<1>1. Len(pending) \in Nat /\ Len(pending) <= 2
  BY DEF MInv, FewInv
<1>2. ASSUME i # j PROVE FALSE
  <2>1. Len(pending) = 2 /\ ((i = 1 /\ j = 2) \/ (i = 2 /\ j = 1))
    <3> DEFINE n == Len(pending)
    <3>1. n \in Nat /\ n <= 2 /\ i \in 1 .. n /\ j \in 1 .. n /\ i # j
      BY <1>1, <1>2
    <3> HIDE DEF n
    <3>2. n = 2 /\ ((i = 1 /\ j = 2) \/ (i = 2 /\ j = 1))
      BY <3>1
    <3> QED BY <3>2 DEF n
  <2> QED BY <2>1 DEF FewInv
<1> QED BY <1>2

(* A table of three cells, with room for one more, that stays one.         *)
LEMMA KeptAppend ==
  ASSUME NEW tab \in Usable(AnyEntry), NEW sf, sf.end \in Nat,
         NEW tmp \in Nat, NEW size \in Sizes, ~HasEntry(tab, tmp),
         tab.cap = 3, Len(tab.items) < 3, Intact(tab)
  PROVE  LET to == AllocTmp(tab, sf, tmp, size)
         IN  /\ to.table \in Usable(AnyEntry) /\ to.table.cap = 3
             /\ Len(to.table.items) = Len(tab.items) + 1 /\ Intact(to.table)
<1> DEFINE home == Home(tab, sf, tmp, size)
           e == EntryFor(home)
           to == AllocTmp(tab, sf, tmp, size)
<1>1. /\ to.table = ListAppend(tab, e) /\ to.table \in Usable(AnyEntry)
      /\ home \in AnyHome
  BY AllocTmpUsable
<1>2. e \in AnyEntry /\ e # Zero
  <2>1. e \in [tmp : Nat, onstack : {0, 1}, loc : Nat]
    BY <1>1 DEF EntryFor, AnyHome
  <2> QED BY <2>1, ZeroAssumption DEF AnyEntry
<1> HIDE DEF home, e, to
<1>3. AppendCap(tab) = 3 /\ tab.items \in Seq(AnyEntry)
  <2>1. tab.items \in Seq(AnyEntry) /\ Len(tab.items) \in Nat
    BY DEF Usable
  <2>2. Len(tab.items) # 3
    <3> DEFINE n == Len(tab.items)
    <3>1. n \in Nat /\ n < 3
      BY <2>1
    <3> HIDE DEF n
    <3>2. n # 3
      BY <3>1
    <3> QED BY <3>2 DEF n
  <2> QED BY <2>1, <2>2 DEF AppendCap
<1>4. ListAppend(tab, e) = [cap |-> 3, items |-> Append(tab.items, e)]
  BY <1>3 DEF ListAppend, InBlock
<1>5. Len(Append(tab.items, e)) = Len(tab.items) + 1
      /\ \A i \in 1 .. Len(tab.items) + 1 : Append(tab.items, e)[i] # Zero
  BY <1>2, <1>3 DEF Intact
<1> QED BY <1>1, <1>4, <1>5 DEF Intact, to

LEMMA KeptFree ==
  ASSUME NEW tab \in Usable(AnyEntry), NEW sf, NEW tmp,
         tab.cap = 3, Intact(tab)
  PROVE  LET to == FreeTmpvar(tab, sf, tmp)
         IN  /\ to.table \in Usable(AnyEntry) /\ to.table.cap = 3
             /\ Len(to.table.items) <= Len(tab.items) /\ Intact(to.table)
<1> DEFINE h == EntryOf(tab, tmp)
           s == tab.items
           to == FreeTmpvar(tab, sf, tmp)
<1>1. to.table \in Usable(AnyEntry)
  BY FreeTmpvarFacts DEF AnyEntry
<1>2. s \in Seq(AnyEntry) /\ (h = 0 \/ h \in 1 .. Len(s))
  BY EntryOfFacts DEF Usable
<1>3. CASE h = 0
  BY <1>2, <1>3 DEF FreeTmpvar
<1>4. CASE h # 0
  <2>1. h \in 1 .. Len(s) /\ (h - 1) + 1 = h
    BY <1>2, <1>4
  <2>2. to.table = ListRemove(tab, h - 1)
    BY <1>4 DEF FreeTmpvar
  <2>3. RemoveCap(tab) = 3
    BY <2>1 DEF RemoveCap
  <2> HIDE DEF h, to
  <2>4. to.table = [cap |-> 3, items |-> RemoveAt(s, h)]
    BY <2>1, <2>2, <2>3 DEF ListRemove
  <2>5. \A i \in 1 .. Len(s) : s[i] # Zero
    BY DEF Intact
  <2> HIDE DEF s
  <2>6. /\ Len(RemoveAt(s, h)) = Len(s) - 1
        /\ \A i \in 1 .. Len(s) - 1 :
             RemoveAt(s, h)[i] = IF i < h THEN s[i] ELSE s[i + 1]
    BY <1>2, <2>1, RemoveAtFacts
  <2>7. \A i \in 1 .. Len(s) - 1 : RemoveAt(s, h)[i] # Zero
    BY <1>2, <2>1, <2>5, <2>6
  <2>8. Len(RemoveAt(s, h)) <= Len(s)
    BY <1>2, <2>6
  <2> QED BY <1>1, <2>4, <2>6, <2>7, <2>8 DEF Intact, to, s
<1> QED BY <1>3, <1>4

LEMMA KeptFreeTwo ==
  ASSUME NEW tab \in Usable(AnyEntry), NEW sf, tab.cap = 3, Intact(tab)
  PROVE  LET to == FreeTwo(tab, sf)
         IN  /\ to.table \in Usable(AnyEntry) /\ to.table.cap = 3
             /\ Len(to.table.items) <= Len(tab.items) /\ Intact(to.table)
<1> DEFINE last == FreeLast(tab, sf)
           t == last.table
           f == last.frame
           tmp == pending[Len(pending) - 1].tmp
<1>1. /\ t \in Usable(AnyEntry) /\ t.cap = 3
      /\ Len(t.items) <= Len(tab.items) /\ Intact(t)
  BY KeptFree DEF FreeLast
<1>2. FreeTwo(tab, sf) = FreeTmpvar(t, f, tmp)
  BY DEF FreeTwo
<1> HIDE DEF last, t, f, tmp
<1>3. LET to == FreeTmpvar(t, f, tmp)
      IN  /\ to.table \in Usable(AnyEntry) /\ to.table.cap = 3
          /\ Len(to.table.items) <= Len(t.items) /\ Intact(to.table)
  BY <1>1, KeptFree
<1>4. Len(t.items) \in Nat /\ Len(tab.items) \in Nat
  BY <1>1 DEF Usable
<1>5. Len(FreeTmpvar(t, f, tmp).table.items) \in Nat
  BY <1>3 DEF Usable
<1> QED BY <1>1, <1>2, <1>3, <1>4, <1>5

\* The table keeps the block of three cells that _start has left it.
CInv == table.cap = 3 /\ NoneErased

LEMMA InitCInv == TableCap = 6 /\ Init => CInv
BY StartedFacts DEF Init, CInv, NoneErased, Intact

LEMMA NextCInv ==
  ASSUME MaxPending \in 0 .. 2
  PROVE  KInv /\ FewInv /\ CInv /\ [Next]_vars => CInv'
<1> SUFFICES ASSUME KInv, FewInv, CInv, [Next]_vars PROVE CInv'
  OBVIOUS
<1>0. /\ next \in Nat /\ next > 0 /\ Word \in Sizes /\ frame.end \in Nat
      /\ table \in Usable(AnyEntry) /\ ~HasEntry(table, next)
      /\ table.cap = 3 /\ Intact(table)
      /\ Len(table.items) = Len(pending) /\ Len(pending) \in Nat
      /\ Len(pending) <= 2
  <2>1. MInv /\ next > 0 /\ Word \in Sizes
    BY SizesAssumption DEF KInv, CInv, NInv
  <2>2. ~HasEntry(table, next)
    BY <2>1, NoEntryYet DEF MInv
  <2> QED BY <2>1, <2>2 DEF MInv, Mirrors, CInv, NoneErased, FewInv
<1>1. ASSUME NEW size \in Sizes, Leaf(size) PROVE CInv'
  <2>1. table' = AllocTmp(table, frame, next, size).table
    BY <1>1 DEF Leaf
  <2>2. Len(table.items) < 3
    BY <1>0
  <2> QED BY <1>0, <2>1, <2>2, KeptAppend DEF CInv, NoneErased
<1>2. CASE BinaryOp
  <2> DEFINE to == AllocTmp(table, frame, next, Word)
             t == to.table
             f == to.frame
  <2>1. table' = FreeTwo(t, f).table
    BY <1>2 DEF BinaryOp
  <2>2. Len(table.items) < 3
    BY <1>0
  <2>3. t \in Usable(AnyEntry) /\ t.cap = 3 /\ Intact(t)
    BY <1>0, <2>2, KeptAppend
  <2> HIDE DEF t, f
  <2> QED BY <2>1, <2>3, KeptFreeTwo DEF CInv, NoneErased
<1>3. CASE Compare
  <2> DEFINE at == FreeTwo(table, frame)
             t == at.table
             f == at.frame
  <2>1. table' = AllocTmp(t, f, next, Word).table
    BY <1>3 DEF Compare
  <2>2. /\ t \in Usable(AnyEntry) /\ t.cap = 3 /\ Intact(t)
        /\ Len(t.items) <= Len(table.items)
    BY <1>0, KeptFreeTwo
  <2>3. f.end \in Nat /\ ~HasEntry(t, next)
    BY <1>0, FreeTwoUsable, FreeTwoNoEntry
  <2> HIDE DEF t, f
  <2>4. Len(t.items) < 3
    <3>1. Len(t.items) \in Nat
      BY <2>2 DEF Usable
    <3> QED BY <1>0, <2>2, <3>1
  <2> QED BY <1>0, <2>1, <2>2, <2>3, <2>4, KeptAppend DEF CInv, NoneErased
<1>4. CASE Use
  <2>1. table' = FreeTmpvar(table, frame, pending[Len(pending)].tmp).table
    BY <1>4 DEF Use, FreeLast
  <2> QED BY <1>0, <2>1, KeptFree DEF CInv, NoneErased
<1>5. CASE (\E names \in Params : NextFunction(names)) \/ UNCHANGED vars
  <2>1. table' = table
    BY <1>5 DEF NextFunction, vars
  <2> QED BY <2>1 DEF CInv, NoneErased
<1> QED BY <1>1, <1>2, <1>3, <1>4, <1>5 DEF Next

\* The inductive invariant of the two theorems that follow.
TwoInv == KInv /\ FewInv /\ CInv

LEMMA InitTwoInv == TableCap = 6 /\ Init => TwoInv
BY InitKInv, InitFewInv, InitCInv DEF TwoInv

LEMMA NextTwoInv ==
  ASSUME MaxPending \in 0 .. 2
  PROVE  TwoInv /\ [Next]_vars => TwoInv'
<1>1. KInv /\ CInv => MInv
  BY DEF KInv, CInv
<1>2. KInv /\ FewInv /\ CInv /\ [Next]_vars => CInv'
  BY MaxPending \in 0 .. 2, NextCInv
<1>3. MInv /\ FewInv /\ [Next]_vars => FewInv'
  BY MaxPending \in 0 .. 2, NextFewInv
<1> QED BY <1>1, <1>2, <1>3, NextKInv DEF TwoInv

(* While no more than two values wait at one time, no resize clears an     *)
(* entry of the table that amd64_gen creates (amd64.c:415): with the       *)
(* result of their node they fill the three cells that _start leaves of    *)
(* its six, and none of the removals goes below half of them.              *)
THEOREM TwoAreKept ==
  ASSUME MaxPending \in 0 .. 2, TableCap = 6
  PROVE  Spec => []NoneErased
<1>1. TwoInv /\ [Next]_vars => TwoInv'
  BY MaxPending \in 0 .. 2, NextTwoInv
<1>2. Init => TwoInv
  BY TableCap = 6, InitTwoInv
<1>3. TwoInv => NoneErased
  BY DEF TwoInv, CInv
<1> QED BY <1>1, <1>2, <1>3, PTL DEF Spec

(* "this register is already allocated" (asmgen.c:18) holds where no more  *)
(* than two values wait at one time: the scan of tmpv_alloc_reg may stop   *)
(* at a register in use only if three do, as in a + b + c + (x - y).       *)
THEOREM TwoNeverShare ==
  ASSUME MaxPending \in 0 .. 2, TableCap = 6
  PROVE  Spec => []NoSharedRegister
<1>1. TwoInv /\ [Next]_vars => TwoInv'
  BY MaxPending \in 0 .. 2, NextTwoInv
<1>2. Init => TwoInv
  BY TableCap = 6, InitTwoInv
<1>3. TwoInv => NoSharedRegister
  BY FewAreApart DEF TwoInv, KInv, CInv
<1> QED BY <1>1, <1>2, <1>3, PTL DEF Spec

=============================================================================
