-------------------------- MODULE Intercode2Proofs --------------------------
(***************************************************************************)
(* process_intercode frees every temporary once and directly behind its    *)
(* last use, for every list of codes in which each temporary is allocated  *)
(* once and none is freed: what its four loops do, pass by pass.           *)
(***************************************************************************)
EXTENDS Intercode2, SequenceTheorems, FiniteSetTheorems, TLAPS

\* The loops that the model writes as folds.
Extracts == INSTANCE FoldProofs WITH Op <- Extract
Collects == INSTANCE FoldProofs WITH Op <- Collect
Steps    == INSTANCE FoldProofs WITH Op <- SortStep
Passes   == INSTANCE FoldProofs WITH Op <- SortPass
Inserts  == INSTANCE FoldProofs WITH Op <- InsertFree

-----------------------------------------------------------------------------
(* Part one: the sort.                                                     *)

\* q is s in another order: p says which span of s is at each place.
Orders(p, n) ==
  /\ p \in [1 .. n -> 1 .. n]
  /\ \A a, b \in 1 .. n : p[a] = p[b] => a = b
  /\ \A c \in 1 .. n : \E a \in 1 .. n : p[a] = c
Rearranges(q, s) ==
  \E p : Orders(p, Len(s)) /\ Len(q) = Len(s) /\ \A k \in 1 .. Len(s) : q[k] = s[p[k]]

\* What a swap of the neighbours j and j + 1 leaves.
Swapped(q, s, j) ==
  /\ Len(q) = Len(s) /\ q[j] = s[j + 1] /\ q[j + 1] = s[j]
  /\ \A k \in 1 .. Len(s) : k # j /\ k # j + 1 => q[k] = s[k]

LEMMA Joined ==
  ASSUME NEW S, NEW l \in Seq(S), NEW r \in Seq(S)
  PROVE  /\ l \o r \in Seq(S) /\ Len(l \o r) = Len(l) + Len(r)
         /\ \A k \in 1 .. Len(l) : (l \o r)[k] = l[k]
         /\ \A k \in Len(l) + 1 .. Len(l) + Len(r) : (l \o r)[k] = r[k - Len(l)]
  OBVIOUS

LEMMA SwapFacts ==
  ASSUME NEW S, NEW s \in Seq(S), NEW j \in 1 .. Len(s) - 1,
         NEW q, q = SubSeq(s, 1, j - 1) \o <<s[j + 1], s[j]>> \o SubSeq(s, j + 2, Len(s))
  PROVE  q \in Seq(S) /\ Swapped(q, s, j)
<1> DEFINE n == Len(s)
           l == SubSeq(s, 1, j - 1)
           m == <<s[j + 1], s[j]>>
           r == SubSeq(s, j + 2, n)
<1>1. n \in Nat /\ j \in Nat /\ j + 1 <= n /\ j >= 1 /\ s[j] \in S /\ s[j + 1] \in S
  OBVIOUS
<1>2. l \in Seq(S) /\ Len(l) = j - 1 /\ \A k \in 1 .. j - 1 : l[k] = s[k]
  BY <1>1
<1>3. m \in Seq(S) /\ Len(m) = 2 /\ m[1] = s[j + 1] /\ m[2] = s[j]
  BY <1>1
<1>4. r \in Seq(S) /\ Len(r) = n - (j + 1) /\ \A k \in 1 .. n - (j + 1) : r[k] = s[(j + 1) + k]
  BY <1>1
<1> HIDE DEF l, m, r, n
<1>5. q = (l \o m) \o r
  BY DEF l, m, r, n
<1> DEFINE lm == l \o m
<1>6. lm \in Seq(S) /\ Len(lm) = j + 1
      /\ (\A k \in 1 .. j - 1 : lm[k] = s[k]) /\ lm[j] = s[j + 1] /\ lm[j + 1] = s[j]
  <2>1. lm \in Seq(S) /\ Len(lm) = Len(l) + Len(m)
        /\ (\A k \in 1 .. Len(l) : lm[k] = l[k])
        /\ \A k \in Len(l) + 1 .. Len(l) + Len(m) : lm[k] = m[k - Len(l)]
    BY <1>2, <1>3, Joined
  <2> HIDE DEF lm
  <2>2. j \in Len(l) + 1 .. Len(l) + Len(m) /\ j + 1 \in Len(l) + 1 .. Len(l) + Len(m)
        /\ j - Len(l) = 1 /\ (j + 1) - Len(l) = 2
    BY <1>1, <1>2, <1>3
  <2>3. lm[j] = m[1] /\ lm[j + 1] = m[2]
    BY <2>1, <2>2
  <2> QED BY <1>1, <1>2, <1>3, <2>1, <2>3
<1> HIDE DEF lm
<1>7. q \in Seq(S) /\ Len(q) = Len(lm) + Len(r)
      /\ (\A k \in 1 .. Len(lm) : q[k] = lm[k])
      /\ \A k \in Len(lm) + 1 .. Len(lm) + Len(r) : q[k] = r[k - Len(lm)]
  <2>1. q = lm \o r
    BY <1>5 DEF lm
  <2>2. lm \in Seq(S) /\ r \in Seq(S)
    BY <1>4, <1>6
  <2>3. /\ lm \o r \in Seq(S) /\ Len(lm \o r) = Len(lm) + Len(r)
        /\ \A k \in 1 .. Len(lm) : (lm \o r)[k] = lm[k]
        /\ \A k \in Len(lm) + 1 .. Len(lm) + Len(r) : (lm \o r)[k] = r[k - Len(lm)]
    BY <2>2, Joined
  <2> QED BY <2>1, <2>3
<1>8. Len(q) = n
  <2>1. Len(q) = Len(lm) + Len(r) /\ Len(lm) = j + 1 /\ Len(r) = n - (j + 1)
    BY <1>4, <1>6, <1>7
  <2>2. (j + 1) + (n - (j + 1)) = n
    BY <1>1
  <2>3. Len(lm) + Len(r) = (j + 1) + (n - (j + 1))
    BY <2>1
  <2> QED BY <2>1, <2>2, <2>3
<1>9. \A k \in 1 .. j + 1 : q[k] = lm[k]
  BY <1>6, <1>7
<1>10. \A k \in j + 2 .. n : q[k] = s[k]
  <2> SUFFICES ASSUME NEW k \in j + 2 .. n PROVE q[k] = s[k]
    OBVIOUS
  <2>1. k - (j + 1) \in 1 .. n - (j + 1) /\ (j + 1) + (k - (j + 1)) = k
        /\ k \in Len(lm) + 1 .. Len(lm) + Len(r)
    BY <1>1, <1>4, <1>6
  <2>2. q[k] = r[k - (j + 1)]
    BY <1>6, <1>7, <2>1
  <2> QED BY <1>4, <2>1, <2>2
<1>11. \A k \in 1 .. n : k # j /\ k # j + 1 => k \in 1 .. j - 1 \/ k \in j + 2 .. n
  BY <1>1
<1>12. \A k \in 1 .. n : k # j /\ k # j + 1 => q[k] = s[k]
  <2> SUFFICES ASSUME NEW k \in 1 .. n, k # j, k # j + 1 PROVE q[k] = s[k]
    OBVIOUS
  <2>1. CASE k \in 1 .. j - 1
    <3>1. k \in 1 .. j + 1
      BY <1>1, <2>1
    <3> QED BY <1>6, <1>9, <2>1, <3>1
  <2> QED BY <1>10, <1>11, <2>1
<1>13. q[j] = s[j + 1] /\ q[j + 1] = s[j]
  <2>1. j \in 1 .. j + 1 /\ j + 1 \in 1 .. j + 1
    BY <1>1
  <2> QED BY <1>6, <1>9, <2>1
<1> QED BY <1>7, <1>8, <1>12, <1>13 DEF Swapped, n

(* A comparison orders two neighbours and moves nothing else.              *)
LEMMA StepFacts ==
  ASSUME NEW S, \A x \in S : x.last \in Nat,
         NEW s \in Seq(S), NEW j \in 1 .. Len(s) - 1
  PROVE  /\ SortStep(s, j) \in Seq(S)
         /\ SortStep(s, j)[j].last >= SortStep(s, j)[j + 1].last
         /\ SortStep(s, j) = s \/ Swapped(SortStep(s, j), s, j)
         /\ Len(SortStep(s, j)) = Len(s)
<1>1. s[j] \in S /\ s[j + 1] \in S /\ s[j].last \in Nat /\ s[j + 1].last \in Nat
  OBVIOUS
<1>2. CASE s[j].last < s[j + 1].last
  <2> DEFINE q == SortStep(s, j)
  <2>1. q = SubSeq(s, 1, j - 1) \o <<s[j + 1], s[j]>> \o SubSeq(s, j + 2, Len(s))
    BY <1>2 DEF SortStep
  <2> HIDE DEF q
  <2>2. q \in Seq(S) /\ Swapped(q, s, j)
    BY <2>1, SwapFacts
  <2>3. q[j].last >= q[j + 1].last /\ Len(q) = Len(s)
    BY <1>1, <1>2, <2>2 DEF Swapped
  <2> QED BY <2>2, <2>3 DEF q
<1>3. CASE ~(s[j].last < s[j + 1].last)
  <2>1. SortStep(s, j) = s
    BY <1>3 DEF SortStep
  <2> QED BY <1>1, <1>3, <2>1
<1> QED BY <1>2, <1>3

LEMMA SwapRearranges ==
  ASSUME NEW s, Len(s) \in Nat, NEW j \in 1 .. Len(s) - 1,
         NEW q, Rearranges(q, s), NEW r, Swapped(r, q, j)
  PROVE  Rearranges(r, s)
<1> DEFINE n == Len(s)
<1>1. PICK p : Orders(p, n) /\ Len(q) = n /\ \A k \in 1 .. n : q[k] = s[p[k]]
  BY DEF Rearranges
<1> DEFINE o == [k \in 1 .. n |-> IF k = j THEN p[j + 1] ELSE IF k = j + 1 THEN p[j] ELSE p[k]]
<1>2. n \in Nat /\ j \in 1 .. n /\ j + 1 \in 1 .. n /\ j # j + 1
  OBVIOUS
<1>3. p \in [1 .. n -> 1 .. n]
  BY <1>1 DEF Orders
<1> HIDE DEF n
<1>4. o \in [1 .. n -> 1 .. n]
  BY <1>2, <1>3
<1>5. o[j] = p[j + 1] /\ o[j + 1] = p[j] /\ \A k \in 1 .. n : k # j /\ k # j + 1 => o[k] = p[k]
  BY <1>2
<1> HIDE DEF o
<1>6. \A a, b \in 1 .. n : p[a] = p[b] => a = b
  BY <1>1 DEF Orders
<1>7. \A a, b \in 1 .. n : o[a] = o[b] => a = b
  BY <1>2, <1>5, <1>6
<1>8. \A c \in 1 .. n : \E a \in 1 .. n : o[a] = c
  <2> SUFFICES ASSUME NEW c \in 1 .. n PROVE \E a \in 1 .. n : o[a] = c
    OBVIOUS
  <2>1. PICK a \in 1 .. n : p[a] = c
    BY <1>1 DEF Orders
  <2>2. CASE a = j
    BY <1>2, <1>5, <2>1, <2>2
  <2>3. CASE a = j + 1
    BY <1>2, <1>5, <2>1, <2>3
  <2>4. CASE a # j /\ a # j + 1
    BY <1>5, <2>1, <2>4
  <2> QED BY <2>2, <2>3, <2>4
<1>9. Len(r) = n /\ r[j] = q[j + 1] /\ r[j + 1] = q[j]
      /\ \A k \in 1 .. n : k # j /\ k # j + 1 => r[k] = q[k]
  BY <1>1 DEF Swapped
<1>10. \A k \in 1 .. n : r[k] = s[o[k]]
  BY <1>1, <1>2, <1>5, <1>9
<1>11. Orders(o, n)
  BY <1>4, <1>7, <1>8 DEF Orders
<1> QED BY <1>9, <1>10, <1>11 DEF Rearranges, n

LEMMA RearrangesItself ==
  ASSUME NEW S, NEW s \in Seq(S)
  PROVE  Rearranges(s, s)
<1> DEFINE n == Len(s)
           p == [k \in 1 .. n |-> k]
<1>1. n \in Nat
  OBVIOUS
<1>2. Orders(p, n)
  BY <1>1 DEF Orders
<1>3. \A k \in 1 .. n : s[k] = s[p[k]]
  OBVIOUS
<1> HIDE DEF p
<1> QED BY <1>2, <1>3 DEF Rearranges

\* From place m on, what stands there is used last no later than all before.
SettledFrom(q, m) == \A a, b \in 1 .. Len(q) : a < b /\ m <= b => q[a].last >= q[b].last
\* The least of the first m is the last of them.
LeastAt(q, m) == \A a \in 1 .. m : q[a].last >= q[m].last

(* A pass carries the one used first to the end of what is not settled.    *)
LEMMA PassFacts ==
  ASSUME NEW S, \A x \in S : x.last \in Nat,
         NEW s \in Seq(S), NEW q \in Seq(S), Rearranges(q, s),
         NEW i \in 1 .. Len(s), SettledFrom(q, Len(s) - i + 2)
  PROVE  /\ SortPass(q, i) \in Seq(S) /\ Rearranges(SortPass(q, i), s)
         /\ SettledFrom(SortPass(q, i), Len(s) - i + 1)
<1> DEFINE n == Len(s)
           m == n - i
           js == [j \in 1 .. m |-> j]
<1>1. n \in Nat /\ i \in Nat /\ 1 <= i /\ m \in 0 .. n - 1 /\ m \in Nat /\ Len(q) = n
  BY DEF Rearranges
<1>2. js \in Seq(Nat) /\ Len(js) = m /\ \A j \in 1 .. m : js[j] = j
  BY <1>1
<1>3. SortPass(q, i) = FoldLeft(SortStep, q, js)
  BY <1>1 DEF SortPass
<1> HIDE DEF js
<1>4. PICK f : /\ f[0] = q
               /\ \A k \in 0 .. Len(js) - 1 : f[k + 1] = SortStep(f[k], js[k + 1])
               /\ Steps!FoldLeft(SortStep, q, js) = f[Len(js)]
  BY <1>2, Steps!FoldRuns
<1>5. Steps!FoldLeft(SortStep, q, js) = FoldLeft(SortStep, q, js)
  BY DEF FoldLeft, Steps!FoldLeft, MapThenFoldSet, Steps!MapThenFoldSet, Max, Steps!Max
<1>6. SortPass(q, i) = f[m]
  BY <1>2, <1>3, <1>4, <1>5
<1>7. \A k \in 0 .. m - 1 : f[k + 1] = SortStep(f[k], k + 1)
  <2> SUFFICES ASSUME NEW k \in 0 .. m - 1 PROVE f[k + 1] = SortStep(f[k], k + 1)
    OBVIOUS
  <2>1. k + 1 \in 1 .. m
    BY <1>1
  <2> QED BY <1>2, <1>4, <2>1
<1> HIDE DEF m
<1> DEFINE T == {k \in 0 .. m : /\ f[k] \in Seq(S) /\ Rearranges(f[k], s)
                               /\ SettledFrom(f[k], m + 2) /\ LeastAt(f[k], k + 1)}
<1>8. 0 \in T
  <2>1. SettledFrom(q, m + 2)
    BY <1>1 DEF m, n
  <2>2. q[1] \in S
    BY <1>1
  <2>3. LeastAt(q, 0 + 1)
    BY <2>2 DEF LeastAt
  <2> QED BY <1>1, <1>4, <2>1, <2>3
<1>9. ASSUME NEW k \in 0 .. m - 1, k \in T PROVE k + 1 \in T
  <2> DEFINE g == f[k]
             j == k + 1
             h == SortStep(g, j)
  <2>1. f[j] = h /\ j \in 0 .. m /\ j \in 1 .. n - 1 /\ j \in Nat /\ m \in Nat /\ j <= m
    BY <1>1, <1>7 DEF m
  <2>2. g \in Seq(S) /\ Rearranges(g, s) /\ SettledFrom(g, m + 2) /\ LeastAt(g, j)
    BY <1>9
  <2>3. Len(g) = n
    BY <2>2 DEF Rearranges
  <2> HIDE DEF j, g
  <2>4. /\ h \in Seq(S) /\ h[j].last >= h[j + 1].last /\ Len(h) = n
        /\ h = g \/ Swapped(h, g, j)
    BY <2>1, <2>2, <2>3, StepFacts
  <2> HIDE DEF h
  <2>5. Rearranges(h, s)
    BY <1>1, <2>1, <2>2, <2>4, SwapRearranges
  <2>6. SettledFrom(h, m + 2)
    <3> SUFFICES ASSUME NEW a \in 1 .. n, NEW b \in 1 .. n, a < b, m + 2 <= b
                 PROVE  h[a].last >= h[b].last
      BY <2>4 DEF SettledFrom
    <3>1. \A c \in 1 .. n : c < b => g[c].last >= g[b].last
      BY <2>2, <2>3 DEF SettledFrom
    <3>2. CASE h = g
      BY <3>1, <3>2
    <3>3. CASE Swapped(h, g, j)
      <4>1. b # j /\ b # j + 1 /\ j < b /\ j + 1 < b /\ j \in 1 .. n /\ j + 1 \in 1 .. n
        BY <1>1, <2>1
      <4>2. /\ h[j] = g[j + 1] /\ h[j + 1] = g[j]
            /\ \A c \in 1 .. n : c # j /\ c # j + 1 => h[c] = g[c]
        BY <2>3, <3>3 DEF Swapped
      <4>3. h[b] = g[b]
        BY <4>1, <4>2
      <4>4. \E c \in 1 .. n : c < b /\ h[a] = g[c]
        BY <4>1, <4>2
      <4> QED BY <3>1, <4>3, <4>4
    <3> QED BY <2>4, <3>2, <3>3
  <2>7. LeastAt(h, j + 1)
    <3> SUFFICES ASSUME NEW a \in 1 .. j + 1 PROVE h[a].last >= h[j + 1].last
      BY DEF LeastAt
    <3>1. \A c \in 1 .. j : g[c].last >= g[j].last
      BY <2>2 DEF LeastAt
    <3>2. \A c \in 1 .. n : h[c].last \in Nat /\ g[c].last \in Nat
      <4>1. \A c \in 1 .. n : h[c] \in S /\ g[c] \in S
        BY <2>2, <2>3, <2>4
      <4> QED BY <4>1
    <3>3. j \in 1 .. n /\ j + 1 \in 1 .. n /\ a \in 1 .. n
      BY <1>1, <2>1
    <3>4. CASE a = j + 1
      BY <3>2, <3>3, <3>4
    <3>5. CASE a = j
      <4>1. h[j].last >= h[j + 1].last
        BY <2>4
      <4> QED BY <3>5, <4>1
    <3>6. CASE a \in 1 .. j - 1
      <4>1. h[a] = g[a] /\ (h[j] = g[j] \/ h[j + 1] = g[j])
        BY <2>3, <2>4, <3>3, <3>6 DEF Swapped
      <4>2. g[a].last >= g[j].last
        BY <2>1, <3>1, <3>6
      <4>3. h[j].last >= h[j + 1].last
        BY <2>4
      <4> QED BY <3>2, <3>3, <4>1, <4>2, <4>3
    <3>7. a = j + 1 \/ a = j \/ a \in 1 .. j - 1
      BY <2>1
    <3> QED BY <3>4, <3>5, <3>6, <3>7
  <2> QED BY <2>1, <2>2, <2>4, <2>5, <2>6, <2>7 DEF j
<1> HIDE DEF T
<1>10. m \in T
  <2>1. \A k \in 0 .. m : k \in T
    BY <1>1, <1>8, <1>9, Steps!PassInduction
  <2> QED BY <1>1, <2>1
<1>11. /\ f[m] \in Seq(S) /\ Rearranges(f[m], s)
       /\ SettledFrom(f[m], m + 2) /\ LeastAt(f[m], m + 1)
  BY <1>10 DEF T
<1>12. SettledFrom(f[m], m + 1)
  BY <1>1, <1>11 DEF SettledFrom, LeastAt, Rearranges
<1> QED BY <1>6, <1>11, <1>12 DEF m, n

Descending(q) == \A a, b \in 1 .. Len(q) : a < b => q[a].last >= q[b].last

(* The bubble sort of intercode2.c:119 returns the spans it is given, each  *)
(* once, the last used first, however many there are.                      *)
THEOREM SortSpansSorts ==
  ASSUME NEW S, \A x \in S : x.last \in Nat, NEW s \in Seq(S)
  PROVE  /\ SortSpans(s) \in Seq(S) /\ Rearranges(SortSpans(s), s)
         /\ Descending(SortSpans(s))
<1> DEFINE n == Len(s)
           is == [i \in 1 .. n |-> i]
<1>1. n \in Nat
  OBVIOUS
<1>2. is \in Seq(Nat) /\ Len(is) = n /\ \A i \in 1 .. n : is[i] = i
  BY <1>1
<1>3. SortSpans(s) = FoldLeft(SortPass, s, is)
  BY DEF SortSpans
<1> HIDE DEF is
<1>4. PICK f : /\ f[0] = s
               /\ \A k \in 0 .. Len(is) - 1 : f[k + 1] = SortPass(f[k], is[k + 1])
               /\ Passes!FoldLeft(SortPass, s, is) = f[Len(is)]
  BY <1>2, Passes!FoldRuns
<1>5. Passes!FoldLeft(SortPass, s, is) = FoldLeft(SortPass, s, is)
  BY DEF FoldLeft, Passes!FoldLeft, MapThenFoldSet, Passes!MapThenFoldSet, Max, Passes!Max
<1>6. SortSpans(s) = f[n]
  BY <1>2, <1>3, <1>4, <1>5
<1>7. \A k \in 0 .. n - 1 : f[k + 1] = SortPass(f[k], k + 1)
  <2> SUFFICES ASSUME NEW k \in 0 .. n - 1 PROVE f[k + 1] = SortPass(f[k], k + 1)
    OBVIOUS
  <2>1. k + 1 \in 1 .. n
    BY <1>1
  <2> QED BY <1>2, <1>4, <2>1
<1> DEFINE T == {k \in 0 .. n : /\ f[k] \in Seq(S) /\ Rearranges(f[k], s)
                               /\ SettledFrom(f[k], n - k + 1)}
<1>8. 0 \in T
  <2>1. SettledFrom(s, n - 0 + 1)
    BY <1>1 DEF SettledFrom
  <2> QED BY <1>1, <1>4, <2>1, RearrangesItself
<1>9. ASSUME NEW k \in 0 .. n - 1, k \in T PROVE k + 1 \in T
  <2> DEFINE i == k + 1
             g == f[k]
             h == SortPass(g, i)
  <2>1. f[i] = h /\ i \in 0 .. n /\ i \in 1 .. n /\ n - k + 1 = n - i + 2
    BY <1>1, <1>7
  <2>2. g \in Seq(S) /\ Rearranges(g, s) /\ SettledFrom(g, n - i + 2)
    BY <1>9, <2>1
  <2> HIDE DEF i, g
  <2>3. h \in Seq(S) /\ Rearranges(h, s) /\ SettledFrom(h, n - i + 1)
    BY <2>1, <2>2, PassFacts
  <2> HIDE DEF h
  <2>4. i \in T
    BY <2>1, <2>3
  <2> QED BY <2>4 DEF i
<1> HIDE DEF T
<1>10. n \in T
  <2>1. \A k \in 0 .. n : k \in T
    BY <1>1, <1>8, <1>9, Passes!PassInduction
  <2> QED BY <1>1, <2>1
<1>11. f[n] \in Seq(S) /\ Rearranges(f[n], s) /\ SettledFrom(f[n], n - n + 1)
  BY <1>10 DEF T
<1>12. Descending(f[n])
  <2>1. Len(f[n]) = n /\ n - n + 1 = 1
    BY <1>1, <1>11 DEF Rearranges
  <2>2. SettledFrom(f[n], 1)
    BY <1>11, <2>1
  <2> QED BY <2>1, <2>2 DEF SettledFrom, Descending
<1> QED BY <1>6, <1>11, <1>12

-----------------------------------------------------------------------------
(* Part two: the life spans.                                               *)

\* What holds of a span when the codes up to place n have been looked at.
SpanUpTo(codes, n, span) ==
  /\ span.last \in 1 .. n
  /\ UsesTmp(codes[span.last], span.tmp)
  /\ \A j \in span.last + 1 .. n : ~UsesTmp(codes[j], span.tmp)
  /\ \E i \in 1 .. span.last : codes[i].op = "ALLOC_TMP" /\ codes[i].op1[2] = span.tmp
SpansUpTo(codes, n, spans) ==
  /\ \A k \in 1 .. Len(spans) : SpanUpTo(codes, n, spans[k])
  /\ \A a, b \in 1 .. Len(spans) : spans[a].tmp = spans[b].tmp => a = b
  /\ \A i \in 1 .. n : codes[i].op = "ALLOC_TMP" =>
       \E k \in 1 .. Len(spans) : spans[k].tmp = codes[i].op1[2]

(* What an ALLOC_TMP uses is what it allocates.                            *)
LEMMA AllocUses ==
  ASSUME NEW codes, AllocatesOnce(codes), NEW i \in 1 .. Len(codes), codes[i].op = "ALLOC_TMP"
  PROVE  \A t : UsesTmp(codes[i], t) <=> t = codes[i].op1[2]
  BY DEF AllocatesOnce, UsesTmp, UsedIn

SpanSet(codes) == [tmp : {codes[i].op1[2] : i \in 1 .. Len(codes)}, last : Nat]

(* One pass of the loop that collects the spans (intercode2.c:99).         *)
LEMMA CollectStep ==
  ASSUME NEW codes, Len(codes) \in Nat, AllocatesOnce(codes),
         NEW n \in 1 .. Len(codes), NEW spans \in Seq(SpanSet(codes)),
         SpansUpTo(codes, n - 1, spans),
         NEW r, r = Collect(spans, [code |-> codes[n], at |-> n])
  PROVE  r \in Seq(SpanSet(codes)) /\ SpansUpTo(codes, n, r)
<1> DEFINE S == SpanSet(codes)
           m == Len(spans)
           c == codes[n]
<1>1. m \in Nat /\ n \in Nat /\ n >= 1 /\ \A k \in 1 .. m : spans[k] \in S
  OBVIOUS
<1>2. \A k \in 1 .. m : SpanUpTo(codes, n - 1, spans[k])
  BY DEF SpansUpTo
<1>3. \A a, b \in 1 .. m : spans[a].tmp = spans[b].tmp => a = b
  BY DEF SpansUpTo
<1>4. \A i \in 1 .. n - 1 : codes[i].op = "ALLOC_TMP" =>
        \E k \in 1 .. m : spans[k].tmp = codes[i].op1[2]
  BY DEF SpansUpTo
<1>5. CASE c.op = "ALLOC_TMP"
  <2> DEFINE e == [tmp |-> c.op1[2], last |-> n]
  <2>1. r = Append(spans, e)
    BY <1>5 DEF Collect
  <2>2. e \in S /\ e.tmp = c.op1[2] /\ e.last = n
    BY DEF SpanSet
  <2>12. spans \in Seq(S)
    OBVIOUS
  <2> HIDE DEF e, S
  <2>3. /\ r \in Seq(S) /\ Len(r) = m + 1 /\ r[m + 1] = e
        /\ \A k \in 1 .. m : r[k] = spans[k]
    <3>1. e \in S
      BY <2>2
    <3>2. /\ Append(spans, e) \in Seq(S) /\ Len(Append(spans, e)) = Len(spans) + 1
          /\ \A k \in 1 .. Len(spans) : Append(spans, e)[k] = spans[k]
          /\ Append(spans, e)[Len(spans) + 1] = e
      BY <2>12, <3>1, AppendProperties
    <3> QED BY <2>1, <3>2
  <2>4. \A t : UsesTmp(c, t) <=> t = e.tmp
    BY <1>5, <2>2, AllocUses
  <2>5. \A k \in 1 .. m : spans[k].tmp # e.tmp
    <3> SUFFICES ASSUME NEW k \in 1 .. m, spans[k].tmp = e.tmp PROVE FALSE
      OBVIOUS
    <3>1. PICK i \in 1 .. spans[k].last :
            codes[i].op = "ALLOC_TMP" /\ codes[i].op1[2] = e.tmp
      BY <1>2 DEF SpanUpTo
    <3>2. spans[k].last \in 1 .. n - 1
      BY <1>2 DEF SpanUpTo
    <3>3. i \in 1 .. Len(codes) /\ i # n
      BY <1>1, <3>2
    <3> QED BY <1>5, <2>2, <3>1, <3>3 DEF AllocatesOnce
  <2>6. SpanUpTo(codes, n, e)
    <3>1. n \in 1 .. n /\ n + 1 .. n = {}
      BY <1>1
    <3>2. UsesTmp(codes[n], e.tmp) /\ codes[n].op = "ALLOC_TMP" /\ codes[n].op1[2] = e.tmp
      BY <1>5, <2>2, <2>4
    <3> QED BY <2>2, <3>1, <3>2 DEF SpanUpTo
  <2>7. ASSUME NEW k \in 1 .. m PROVE SpanUpTo(codes, n, spans[k])
    <3> DEFINE x == spans[k]
    <3>1. SpanUpTo(codes, n - 1, x) /\ x.tmp # e.tmp
      BY <1>2, <2>5
    <3> HIDE DEF x
    <3>2. ~UsesTmp(codes[n], x.tmp)
      BY <2>4, <3>1
    <3>3. x.last \in 1 .. n /\ \A j \in x.last + 1 .. n : j = n \/ j \in x.last + 1 .. n - 1
      BY <1>1, <3>1 DEF SpanUpTo
    <3>4. SpanUpTo(codes, n, x)
      BY <3>1, <3>2, <3>3 DEF SpanUpTo
    <3> QED BY <3>4 DEF x
  <2>8. \A k \in 1 .. m + 1 : k \in 1 .. m \/ k = m + 1
    BY <1>1
  <2>9. \A k \in 1 .. m + 1 : SpanUpTo(codes, n, r[k])
    BY <2>3, <2>6, <2>7, <2>8
  <2>10. \A a, b \in 1 .. m + 1 : r[a].tmp = r[b].tmp => a = b
    BY <1>3, <2>3, <2>5, <2>8
  <2>11. \A i \in 1 .. n : codes[i].op = "ALLOC_TMP" =>
           \E k \in 1 .. m + 1 : r[k].tmp = codes[i].op1[2]
    <3> SUFFICES ASSUME NEW i \in 1 .. n, codes[i].op = "ALLOC_TMP"
                 PROVE  \E k \in 1 .. m + 1 : r[k].tmp = codes[i].op1[2]
      OBVIOUS
    <3>1. CASE i = n
      <4>1. m + 1 \in 1 .. m + 1
        BY <1>1
      <4> QED BY <2>2, <2>3, <3>1, <4>1
    <3>2. CASE i \in 1 .. n - 1
      <4>1. PICK k \in 1 .. m : spans[k].tmp = codes[i].op1[2]
        BY <1>4, <3>2
      <4>2. k \in 1 .. m + 1
        BY <1>1
      <4> QED BY <2>3, <4>1, <4>2
    <3> QED BY <1>1, <3>1, <3>2
  <2> QED BY <2>3, <2>9, <2>10, <2>11 DEF SpansUpTo, S
<1>6. CASE c.op # "ALLOC_TMP"
  <2> DEFINE u(x) == IF UsesTmp(c, x.tmp) THEN [x EXCEPT !.last = n] ELSE x
  <2>1. r = [k \in 1 .. m |-> u(spans[k])]
    BY <1>6 DEF Collect
  <2>2. ASSUME NEW x \in S PROVE u(x) \in S /\ u(x).tmp = x.tmp
    <3>1. CASE UsesTmp(c, x.tmp)
      BY <1>1, <3>1 DEF SpanSet
    <3>2. CASE ~UsesTmp(c, x.tmp)
      BY <3>2
    <3> QED BY <3>1, <3>2
  <2>3. ASSUME NEW x \in S, SpanUpTo(codes, n - 1, x) PROVE SpanUpTo(codes, n, u(x))
    <3>1. x.last \in 1 .. n - 1 /\ x.last \in 1 .. n
      BY <1>1, <2>3 DEF SpanUpTo
    <3>2. PICK i \in 1 .. x.last : codes[i].op = "ALLOC_TMP" /\ codes[i].op1[2] = x.tmp
      BY <2>3 DEF SpanUpTo
    <3>3. CASE UsesTmp(c, x.tmp)
      <4> DEFINE y == u(x)
      <4>1. y.last = n /\ y.tmp = x.tmp
        BY <3>3 DEF SpanSet
      <4> HIDE DEF y
      <4>2. n \in 1 .. n /\ n + 1 .. n = {} /\ i \in 1 .. n
        BY <1>1, <3>1
      <4>3. SpanUpTo(codes, n, y)
        BY <3>2, <3>3, <4>1, <4>2 DEF SpanUpTo
      <4> QED BY <4>3 DEF y
    <3>4. CASE ~UsesTmp(c, x.tmp)
      <4>1. u(x) = x
        BY <3>4
      <4>2. \A j \in x.last + 1 .. n : j = n \/ j \in x.last + 1 .. n - 1
        BY <1>1, <3>1
      <4>3. \A j \in x.last + 1 .. n : ~UsesTmp(codes[j], x.tmp)
        BY <2>3, <3>4, <4>2 DEF SpanUpTo
      <4>4. SpanUpTo(codes, n, x)
        BY <2>3, <3>1, <4>3 DEF SpanUpTo
      <4> QED BY <4>1, <4>4
    <3> QED BY <3>3, <3>4
  <2>4. \A k \in 1 .. m : r[k] = u(spans[k])
    BY <2>1
  <2> HIDE DEF u, S
  <2>5. \A k \in 1 .. m : r[k] \in S /\ r[k].tmp = spans[k].tmp /\ SpanUpTo(codes, n, r[k])
    BY <1>1, <1>2, <2>2, <2>3, <2>4
  <2>6. r \in Seq(S) /\ Len(r) = m
    <3>1. r = [k \in 1 .. m |-> r[k]]
      BY <2>1
    <3>2. r \in [1 .. m -> S]
      BY <2>5, <3>1
    <3> QED BY <1>1, <3>2
  <2>7. \A a, b \in 1 .. m : r[a].tmp = r[b].tmp => a = b
    BY <1>3, <2>5
  <2>8. \A i \in 1 .. n : codes[i].op = "ALLOC_TMP" => i \in 1 .. n - 1
    BY <1>1, <1>6
  <2>9. \A i \in 1 .. n : codes[i].op = "ALLOC_TMP" =>
           \E k \in 1 .. m : r[k].tmp = codes[i].op1[2]
    BY <1>4, <2>5, <2>8
  <2> QED BY <2>5, <2>6, <2>7, <2>9 DEF SpansUpTo, S
<1> QED BY <1>5, <1>6

(* The spans describe the list, however the temporaries overlap: each is    *)
(* of a temporary of its own, from its ALLOC_TMP to its last use, and no    *)
(* ALLOC_TMP is without one.                                                *)
LEMMA SpansFacts ==
  ASSUME NEW codes, Len(codes) \in Nat, AllocatesOnce(codes)
  PROVE  /\ Spans(codes) \in Seq(SpanSet(codes))
         /\ SpansUpTo(codes, Len(codes), Spans(codes))
<1> DEFINE n == Len(codes)
           S == SpanSet(codes)
           xs == [i \in 1 .. n |-> [code |-> codes[i], at |-> i]]
           X == {[code |-> codes[i], at |-> i] : i \in 1 .. n}
<1>1. xs \in Seq(X) /\ Len(xs) = n /\ \A i \in 1 .. n : xs[i] = [code |-> codes[i], at |-> i]
  OBVIOUS
<1>2. Spans(codes) = FoldLeft(Collect, <<>>, xs)
  BY DEF Spans
<1> HIDE DEF xs, X
<1>3. PICK f : /\ f[0] = <<>>
               /\ \A k \in 0 .. Len(xs) - 1 : f[k + 1] = Collect(f[k], xs[k + 1])
               /\ Collects!FoldLeft(Collect, <<>>, xs) = f[Len(xs)]
  BY <1>1, Collects!FoldRuns
<1>4. Collects!FoldLeft(Collect, <<>>, xs) = FoldLeft(Collect, <<>>, xs)
  BY DEF FoldLeft, Collects!FoldLeft, MapThenFoldSet, Collects!MapThenFoldSet,
         Max, Collects!Max
<1>5. Spans(codes) = f[n]
  BY <1>1, <1>2, <1>3, <1>4
<1> DEFINE T == {k \in 0 .. n : f[k] \in Seq(S) /\ SpansUpTo(codes, k, f[k])}
<1>6. 0 \in T
  <2>1. <<>> \in Seq(S) /\ Len(<<>>) = 0 /\ 1 .. 0 = {}
    OBVIOUS
  <2>2. SpansUpTo(codes, 0, <<>>)
    BY <2>1 DEF SpansUpTo
  <2>3. f[0] \in Seq(S) /\ SpansUpTo(codes, 0, f[0])
    BY <1>3, <2>1, <2>2
  <2>4. 0 \in 0 .. n
    OBVIOUS
  <2> HIDE DEF S
  <2> QED BY <2>3, <2>4
<1>7. ASSUME NEW k \in 0 .. n - 1, k \in T PROVE k + 1 \in T
  <2> DEFINE m == k + 1
             g == f[k]
             r == f[m]
  <2>1. m \in 1 .. n /\ m \in 0 .. n /\ m - 1 = k
    OBVIOUS
  <2>2. r = Collect(g, [code |-> codes[m], at |-> m])
    BY <1>1, <1>3, <2>1
  <2>3. g \in Seq(S) /\ SpansUpTo(codes, m - 1, g)
    BY <1>7, <2>1
  <2> HIDE DEF m, g
  <2>4. r \in Seq(S) /\ SpansUpTo(codes, m, r)
    BY <2>1, <2>2, <2>3, CollectStep
  <2>5. m \in T
    BY <2>1, <2>4
  <2> QED BY <2>5 DEF m
<1> HIDE DEF T
<1>8. n \in T
  <2>1. \A k \in 0 .. n : k \in T
    BY <1>6, <1>7, Collects!PassInduction
  <2> QED BY <2>1
<1> QED BY <1>5, <1>8 DEF T

-----------------------------------------------------------------------------
(* Part three: the FREEs.                                                  *)

\* A span that waits for its FREE, and a temporary that has got one, at or
\* behind the place p.
Pending(codes, span) ==
  /\ span.last \in 1 .. Len(codes)
  /\ UsesTmp(codes[span.last], span.tmp)
  /\ \A j \in span.last + 1 .. Len(codes) : ~UsesTmp(codes[j], span.tmp)
  /\ \A i \in 1 .. Len(codes) :
       codes[i].op = "ALLOC_TMP" /\ codes[i].op1[2] = span.tmp => i <= span.last
  /\ FreesAt(codes, span.tmp) = {}
Freed(codes, t, p) ==
  \E f \in FreesAt(codes, t), j \in p .. Len(codes) :
    /\ FreesAt(codes, t) = {f} /\ j < f
    /\ \A i \in f + 1 .. Len(codes) : ~UsesTmp(codes[i], t)
    /\ UsesTmp(codes[j], t)
    /\ \A i \in 1 .. Len(codes) : codes[i].op = "ALLOC_TMP" /\ codes[i].op1[2] = t => i <= j
    /\ \A i \in j + 1 .. f - 1 : codes[i].op = "FREE"

\* What an insertion of e behind the place p leaves.
Inserted(r, codes, p, e) ==
  /\ Len(r) = Len(codes) + 1 /\ r[p + 1] = e
  /\ \A k \in 1 .. p : r[k] = codes[k]
  /\ \A k \in p + 1 .. Len(codes) : r[k + 1] = codes[k]

LEMMA InsertFacts ==
  ASSUME NEW S, NEW codes \in Seq(S), NEW e \in S, NEW p \in 1 .. Len(codes),
         NEW r, r = InsertAt(codes, p + 1, e)
  PROVE  r \in Seq(S) /\ Inserted(r, codes, p, e)
<1> DEFINE n == Len(codes)
           l == SubSeq(codes, 1, (p + 1) - 1)
           m == <<e>>
           h == SubSeq(codes, p + 1, n)
<1>1. n \in Nat /\ p \in Nat /\ 1 <= p /\ p <= n
  OBVIOUS
<1>2. l \in Seq(S) /\ Len(l) = p /\ \A k \in 1 .. p : l[k] = codes[k]
  BY <1>1
<1>3. m \in Seq(S) /\ Len(m) = 1 /\ m[1] = e
  OBVIOUS
<1>4. h \in Seq(S) /\ Len(h) = n - p /\ \A k \in 1 .. n - p : h[k] = codes[p + k]
  BY <1>1
<1>5. r = (l \o m) \o h
  BY DEF InsertAt
<1> HIDE DEF l, m, h, n
<1> DEFINE lm == l \o m
<1>6. lm \in Seq(S) /\ Len(lm) = Len(l) + Len(m)
      /\ (\A k \in 1 .. Len(l) : lm[k] = l[k])
      /\ \A k \in Len(l) + 1 .. Len(l) + Len(m) : lm[k] = m[k - Len(l)]
  BY <1>2, <1>3, Joined
<1> HIDE DEF lm
<1>7. Len(lm) = p + 1 /\ (\A k \in 1 .. p : lm[k] = codes[k]) /\ lm[p + 1] = e
  <2>1. p + 1 \in Len(l) + 1 .. Len(l) + Len(m) /\ (p + 1) - Len(l) = 1
    BY <1>1, <1>2, <1>3
  <2> QED BY <1>1, <1>2, <1>3, <1>6, <2>1
<1>8. lm \o h \in Seq(S) /\ Len(lm \o h) = Len(lm) + Len(h)
      /\ (\A k \in 1 .. Len(lm) : (lm \o h)[k] = lm[k])
      /\ \A k \in Len(lm) + 1 .. Len(lm) + Len(h) : (lm \o h)[k] = h[k - Len(lm)]
  <2>1. lm \in Seq(S) /\ h \in Seq(S)
    BY <1>4, <1>6
  <2> QED BY <2>1, Joined
<1>9. r = lm \o h
  BY <1>5 DEF lm
<1>10. r \in Seq(S) /\ Len(r) = n + 1
  <2>1. (p + 1) + (n - p) = n + 1
    BY <1>1
  <2> QED BY <1>4, <1>7, <1>8, <1>9, <2>1
<1>11. r[p + 1] = e /\ \A k \in 1 .. p : r[k] = codes[k]
  BY <1>1, <1>7, <1>8, <1>9
<1>12. \A k \in p + 1 .. n : r[k + 1] = codes[k]
  <2> SUFFICES ASSUME NEW k \in p + 1 .. n PROVE r[k + 1] = codes[k]
    OBVIOUS
  <2>1. k + 1 \in Len(lm) + 1 .. Len(lm) + Len(h) /\ (k + 1) - Len(lm) = k - p
        /\ k - p \in 1 .. n - p /\ p + (k - p) = k
    BY <1>1, <1>4, <1>7
  <2>2. r[k + 1] = h[k - p]
    BY <1>8, <1>9, <2>1
  <2> QED BY <1>4, <2>1, <2>2
<1> QED BY <1>10, <1>11, <1>12 DEF Inserted, n

(* What a FREE does not touch: every code but one is where it was or one    *)
(* place further, in the same order.                                        *)
LEMMA InsertedAre ==
  ASSUME NEW codes, Len(codes) \in Nat, NEW p \in 1 .. Len(codes), NEW e, NEW r,
         Inserted(r, codes, p, e), NEW k \in 1 .. Len(codes) + 1
  PROVE  \/ k \in 1 .. p /\ k \in 1 .. Len(codes) /\ r[k] = codes[k]
         \/ k = p + 1 /\ r[k] = e
         \/ k - 1 \in p + 1 .. Len(codes) /\ k - 1 \in 1 .. Len(codes) /\ r[k] = codes[k - 1]
<1>1. p + 1 \in Nat /\ p \in Nat /\ p <= Len(codes)
  OBVIOUS
<1>2. CASE k \in 1 .. p
  BY <1>1, <1>2 DEF Inserted
<1>3. CASE k = p + 1
  BY <1>3 DEF Inserted
<1>4. CASE k \in p + 2 .. Len(codes) + 1
  <2>1. k - 1 \in p + 1 .. Len(codes) /\ (k - 1) + 1 = k /\ k - 1 \in 1 .. Len(codes)
    BY <1>1, <1>4
  <2>2. r[(k - 1) + 1] = codes[k - 1]
    BY <2>1 DEF Inserted
  <2> QED BY <2>1, <2>2
<1> QED BY <1>1, <1>2, <1>3, <1>4

FreeOf(t) == Code("FREE", TmpOp(t), Empty, Empty)

LEMMA FreeUses ==
  ASSUME NEW t
  PROVE  /\ \A u : UsesTmp(FreeOf(t), u) <=> u = t
         /\ \A u : FreeOf(t) = FreeOf(u) <=> u = t
         /\ FreeOf(t).op = "FREE"
<1>1. /\ FreeOf(t).op1 = TmpOp(t) /\ FreeOf(t).op2 = Empty /\ FreeOf(t).op3 = Empty
      /\ FreeOf(t).op = "FREE"
  BY DEF FreeOf, Code
<1>2. \A u : TmpOp(u)[1] = "tmp" /\ TmpOp(u)[2] = u
  BY DEF TmpOp
<1>3. Empty[1] = "empty"
  BY DEF Empty
<1>4. \A u : UsesTmp(FreeOf(t), u) <=> u = t
  BY <1>1, <1>2, <1>3 DEF UsesTmp, UsedIn
<1>5. ASSUME NEW u, FreeOf(t) = FreeOf(u) PROVE u = t
  <2>1. FreeOf(u).op1 = TmpOp(u)
    BY DEF FreeOf, Code
  <2> QED BY <1>1, <1>2, <1>5, <2>1
<1> QED BY <1>1, <1>4, <1>5

\* The list with the FREE of span behind its last use.
FreedOnce(r, codes, span) == Inserted(r, codes, span.last, FreeOf(span.tmp))

LEMMA FreesMove ==
  ASSUME NEW codes, Len(codes) \in Nat, NEW span, span.last \in 1 .. Len(codes), NEW r,
         FreedOnce(r, codes, span), NEW t, t # span.tmp
  PROVE  \A k \in FreesAt(r, t) :
           \/ k \in 1 .. span.last /\ k \in FreesAt(codes, t)
           \/ k - 1 \in span.last + 1 .. Len(codes) /\ k - 1 \in FreesAt(codes, t)
<1> DEFINE p == span.last
<1>1. Inserted(r, codes, p, FreeOf(span.tmp)) /\ p \in 1 .. Len(codes)
  BY DEF FreedOnce
<1> HIDE DEF p
<1> SUFFICES ASSUME NEW k \in FreesAt(r, t)
             PROVE  \/ k \in 1 .. p /\ k \in FreesAt(codes, t)
                    \/ k - 1 \in p + 1 .. Len(codes) /\ k - 1 \in FreesAt(codes, t)
  BY DEF p
<1>2. k \in 1 .. Len(codes) + 1 /\ r[k] = FreeOf(t)
  BY <1>1 DEF FreesAt, FreeOf, Inserted
<1>3. r[k] # FreeOf(span.tmp)
  BY <1>2, FreeUses
<1>4. \/ k \in 1 .. p /\ k \in 1 .. Len(codes) /\ r[k] = codes[k]
      \/ k = p + 1 /\ r[k] = FreeOf(span.tmp)
      \/ k - 1 \in p + 1 .. Len(codes) /\ k - 1 \in 1 .. Len(codes) /\ r[k] = codes[k - 1]
  BY <1>1, <1>2, InsertedAre
<1> QED BY <1>2, <1>3, <1>4 DEF FreesAt, FreeOf

LEMMA PendingStays ==
  ASSUME NEW codes, Len(codes) \in Nat, NEW span, span.last \in 1 .. Len(codes), NEW r,
         FreedOnce(r, codes, span),
         NEW x, Pending(codes, x), x.tmp # span.tmp, x.last <= span.last
  PROVE  Pending(r, x)
<1> DEFINE p == span.last
           n == Len(codes)
           e == FreeOf(span.tmp)
<1>1. Inserted(r, codes, p, e) /\ p \in 1 .. n /\ x.last <= p /\ Len(r) = n + 1 /\ n \in Nat
  BY DEF FreedOnce, Inserted
<1>2. ~UsesTmp(e, x.tmp) /\ e.op = "FREE"
  BY FreeUses
<1> HIDE DEF p, e
<1>3. \A k \in 1 .. n + 1 :
        \/ k \in 1 .. p /\ k \in 1 .. n /\ r[k] = codes[k]
        \/ k = p + 1 /\ r[k] = e
        \/ k - 1 \in p + 1 .. n /\ k - 1 \in 1 .. n /\ r[k] = codes[k - 1]
  BY <1>1, InsertedAre
<1>4. /\ x.last \in 1 .. n
      /\ UsesTmp(codes[x.last], x.tmp)
      /\ \A j \in x.last + 1 .. n : ~UsesTmp(codes[j], x.tmp)
      /\ \A i \in 1 .. n : codes[i].op = "ALLOC_TMP" /\ codes[i].op1[2] = x.tmp => i <= x.last
      /\ FreesAt(codes, x.tmp) = {}
  BY DEF Pending
<1>5. x.last \in 1 .. n + 1 /\ r[x.last] = codes[x.last]
  BY <1>1, <1>4 DEF Inserted
<1>6. ASSUME NEW k \in x.last + 1 .. n + 1 PROVE ~UsesTmp(r[k], x.tmp)
  <2>1. k \in 1 .. n + 1
    BY <1>4
  <2>2. CASE k \in 1 .. p /\ k \in 1 .. n /\ r[k] = codes[k]
    BY <1>4, <2>2
  <2>3. CASE k - 1 \in p + 1 .. n /\ k - 1 \in 1 .. n /\ r[k] = codes[k - 1]
    <3>1. k - 1 \in x.last + 1 .. n
      BY <1>1, <1>4, <2>3
    <3> QED BY <1>4, <2>3, <3>1
  <2> QED BY <1>2, <1>3, <2>1, <2>2, <2>3
<1>7. ASSUME NEW k \in 1 .. n + 1, r[k].op = "ALLOC_TMP" /\ r[k].op1[2] = x.tmp
      PROVE  k <= x.last
  <2>1. CASE k \in 1 .. p /\ k \in 1 .. n /\ r[k] = codes[k]
    BY <1>4, <1>7, <2>1
  <2>2. CASE k - 1 \in p + 1 .. n /\ k - 1 \in 1 .. n /\ r[k] = codes[k - 1]
    <3>1. k - 1 <= x.last
      BY <1>4, <1>7, <2>2
    <3> QED BY <1>1, <1>4, <2>2, <3>1
  <2>3. CASE k = p + 1 /\ r[k] = e
    BY <1>2, <1>7, <2>3
  <2> QED BY <1>3, <2>1, <2>2, <2>3
<1>8. FreesAt(r, x.tmp) = {}
  <2>1. \A k \in FreesAt(r, x.tmp) :
          \/ k \in FreesAt(codes, x.tmp) \/ k - 1 \in FreesAt(codes, x.tmp)
    BY FreesMove
  <2> QED BY <1>4, <2>1
<1> QED BY <1>1, <1>4, <1>5, <1>6, <1>7, <1>8 DEF Pending

LEMMA PendingIsFreed ==
  ASSUME NEW codes, Len(codes) \in Nat, NEW span, Pending(codes, span), NEW r,
         FreedOnce(r, codes, span)
  PROVE  Freed(r, span.tmp, span.last)
<1> DEFINE p == span.last
           n == Len(codes)
           t == span.tmp
           e == FreeOf(t)
<1>1. /\ p \in 1 .. n
      /\ UsesTmp(codes[p], t)
      /\ \A j \in p + 1 .. n : ~UsesTmp(codes[j], t)
      /\ \A i \in 1 .. n : codes[i].op = "ALLOC_TMP" /\ codes[i].op1[2] = t => i <= p
      /\ FreesAt(codes, t) = {}
  BY DEF Pending
<1>2. Inserted(r, codes, p, e) /\ Len(r) = n + 1 /\ n \in Nat /\ r[p + 1] = e /\ r[p] = codes[p]
  BY <1>1 DEF FreedOnce, Inserted
<1>3. e.op = "FREE" /\ e = FreeOf(t)
  BY FreeUses
<1> HIDE DEF p, e, t
<1>4. \A k \in 1 .. n + 1 :
        \/ k \in 1 .. p /\ k \in 1 .. n /\ r[k] = codes[k]
        \/ k = p + 1 /\ r[k] = e
        \/ k - 1 \in p + 1 .. n /\ k - 1 \in 1 .. n /\ r[k] = codes[k - 1]
  BY <1>1, <1>2, InsertedAre
<1>5. FreesAt(r, t) = {p + 1}
  <2>1. FreesAt(r, t) = {k \in 1 .. n + 1 : r[k] = e}
    BY <1>2, <1>3 DEF FreesAt, FreeOf
  <2>2. \A k \in 1 .. n : codes[k] # e
    BY <1>1, <1>3 DEF FreesAt, FreeOf
  <2>3. \A k \in 1 .. n + 1 : r[k] = e => k = p + 1
    BY <1>4, <2>2
  <2>4. p + 1 \in 1 .. n + 1
    BY <1>1
  <2> QED BY <1>2, <2>1, <2>3, <2>4
<1>6. ASSUME NEW k \in (p + 1) + 1 .. n + 1 PROVE ~UsesTmp(r[k], t)
  <2>1. k \in 1 .. n + 1 /\ k - 1 \in p + 1 .. n /\ k \notin 1 .. p /\ k # p + 1
    BY <1>1, <1>2
  <2> QED BY <1>1, <1>4, <2>1
<1>7. ASSUME NEW k \in 1 .. n + 1, r[k].op = "ALLOC_TMP" /\ r[k].op1[2] = t
      PROVE  k <= p
  <2>1. CASE k \in 1 .. p /\ k \in 1 .. n /\ r[k] = codes[k]
    BY <2>1
  <2>2. CASE k - 1 \in p + 1 .. n /\ k - 1 \in 1 .. n /\ r[k] = codes[k - 1]
    <3>1. k - 1 <= p
      BY <1>1, <1>7, <2>2
    <3> QED BY <1>1, <2>2, <3>1
  <2>3. CASE k = p + 1 /\ r[k] = e
    BY <1>3, <1>7, <2>3
  <2> QED BY <1>4, <2>1, <2>2, <2>3
<1>8. p + 1 \in FreesAt(r, t) /\ p \in p .. n + 1 /\ p < p + 1 /\ UsesTmp(r[p], t)
      /\ p + 1 .. (p + 1) - 1 = {}
  BY <1>1, <1>2, <1>5
<1> QED BY <1>2, <1>5, <1>6, <1>7, <1>8 DEF Freed, p, t

LEMMA FreedStays ==
  ASSUME NEW codes, Len(codes) \in Nat, NEW span, span.last \in 1 .. Len(codes), NEW r,
         FreedOnce(r, codes, span),
         NEW t, t # span.tmp, NEW from \in Nat, span.last <= from, Freed(codes, t, from)
  PROVE  Freed(r, t, span.last)
<1> DEFINE p == span.last
           n == Len(codes)
           e == FreeOf(span.tmp)
           moved(k) == IF k <= p THEN k ELSE k + 1
<1>1. PICK f \in FreesAt(codes, t), j \in from .. n :
        /\ FreesAt(codes, t) = {f} /\ j < f
        /\ \A i \in f + 1 .. n : ~UsesTmp(codes[i], t)
        /\ UsesTmp(codes[j], t)
        /\ \A i \in 1 .. n : codes[i].op = "ALLOC_TMP" /\ codes[i].op1[2] = t => i <= j
        /\ \A i \in j + 1 .. f - 1 : codes[i].op = "FREE"
  BY DEF Freed
<1>2. Inserted(r, codes, p, e) /\ p \in 1 .. n /\ Len(r) = n + 1 /\ n \in Nat
  BY DEF FreedOnce, Inserted
<1>3. ~UsesTmp(e, t) /\ e.op = "FREE"
  BY FreeUses
<1>4. f \in 1 .. n /\ codes[f] = FreeOf(t) /\ p <= j /\ j \in 1 .. n /\ p < f
  BY <1>1, <1>2 DEF FreesAt, FreeOf
<1> HIDE DEF e, p
<1>5. \A k \in 1 .. n + 1 :
        \/ k \in 1 .. p /\ k \in 1 .. n /\ r[k] = codes[k]
        \/ k = p + 1 /\ r[k] = e
        \/ k - 1 \in p + 1 .. n /\ k - 1 \in 1 .. n /\ r[k] = codes[k - 1]
  BY <1>2, InsertedAre
<1> DEFINE g == f + 1
           h == IF j = p THEN p ELSE j + 1
<1>6. g \in 1 .. n + 1 /\ r[g] = FreeOf(t) /\ g \in FreesAt(r, t)
  <2>1. f \in p + 1 .. n /\ g \in 1 .. n + 1
    BY <1>2, <1>4
  <2>2. r[g] = codes[f]
    BY <1>2, <2>1 DEF Inserted
  <2> QED BY <1>2, <1>4, <2>1, <2>2 DEF FreesAt, FreeOf
<1>7. FreesAt(r, t) = {g}
  <2>1. ASSUME NEW k \in FreesAt(r, t) PROVE k = g
    <3>1. \/ k \in 1 .. p /\ k \in FreesAt(codes, t)
          \/ k - 1 \in p + 1 .. n /\ k - 1 \in FreesAt(codes, t)
      BY <1>2, FreesMove DEF p
    <3>2. k \in Nat
      BY <1>2 DEF FreesAt
    <3> QED BY <1>1, <1>2, <1>4, <3>1, <3>2
  <2> QED BY <1>6, <2>1
<1>8. h \in 1 .. n + 1 /\ r[h] = codes[j] /\ p <= h /\ h < g /\ j <= h /\ h <= j + 1
  <2>1. CASE j = p
    BY <1>1, <1>2, <1>4, <2>1 DEF Inserted
  <2>2. CASE j # p
    <3>1. j \in p + 1 .. n
      BY <1>2, <1>4, <2>2
    <3>2. r[j + 1] = codes[j]
      BY <1>2, <3>1 DEF Inserted
    <3> QED BY <1>1, <1>2, <1>4, <2>2, <3>2
  <2> QED BY <2>1, <2>2
<1>9. ASSUME NEW k \in g + 1 .. n + 1 PROVE ~UsesTmp(r[k], t)
  <2>1. k \in 1 .. n + 1 /\ k - 1 \in f + 1 .. n /\ k \notin 1 .. p /\ k # p + 1
    BY <1>2, <1>4
  <2> QED BY <1>1, <1>5, <2>1
<1>10. ASSUME NEW k \in 1 .. n + 1, r[k].op = "ALLOC_TMP" /\ r[k].op1[2] = t
       PROVE  k <= h
  <2>1. CASE k \in 1 .. p /\ k \in 1 .. n /\ r[k] = codes[k]
    BY <1>2, <1>8, <2>1
  <2>2. CASE k - 1 \in p + 1 .. n /\ k - 1 \in 1 .. n /\ r[k] = codes[k - 1]
    <3>1. k - 1 <= j
      BY <1>1, <1>10, <2>2
    <3>2. j # p
      BY <1>2, <1>4, <2>2, <3>1
    <3> QED BY <1>2, <1>4, <2>2, <3>1, <3>2
  <2>3. CASE k = p + 1 /\ r[k] = e
    BY <1>3, <1>10, <2>3
  <2> QED BY <1>5, <2>1, <2>2, <2>3
<1>11. ASSUME NEW k \in h + 1 .. g - 1 PROVE r[k].op = "FREE"
  <2>1. k \in 1 .. n + 1 /\ k \notin 1 .. p
    BY <1>2, <1>4, <1>8
  <2>2. CASE k = p + 1 /\ r[k] = e
    BY <1>3, <2>2
  <2>3. CASE k - 1 \in p + 1 .. n /\ r[k] = codes[k - 1]
    <3>1. k - 1 \in j + 1 .. f - 1
      BY <1>2, <1>4, <1>8, <2>3
    <3> QED BY <1>1, <2>3, <3>1
  <2> QED BY <1>5, <2>1, <2>2, <2>3
<1> HIDE DEF g, h
<1>12. h \in p .. n + 1 /\ UsesTmp(r[h], t)
  BY <1>1, <1>2, <1>8
<1>13. /\ g \in FreesAt(r, t) /\ h \in p .. Len(r)
       /\ FreesAt(r, t) = {g} /\ h < g
       /\ \A i \in g + 1 .. Len(r) : ~UsesTmp(r[i], t)
       /\ UsesTmp(r[h], t)
       /\ \A i \in 1 .. Len(r) : r[i].op = "ALLOC_TMP" /\ r[i].op1[2] = t => i <= h
       /\ \A i \in h + 1 .. g - 1 : r[i].op = "FREE"
  BY <1>2, <1>6, <1>7, <1>8, <1>9, <1>10, <1>11, <1>12
<1>14. Freed(r, t, p)
  BY <1>13 DEF Freed
<1> QED BY <1>14 DEF p

Sorted(codes) == SortSpans(Spans(codes))

LEMMA SortedFacts ==
  ASSUME NEW codes, Len(codes) \in Nat, AllocatesOnce(codes)
  PROVE  /\ Sorted(codes) \in Seq(SpanSet(codes)) /\ Descending(Sorted(codes))
         /\ SpansUpTo(codes, Len(codes), Sorted(codes))
         /\ Rearranges(Sorted(codes), Spans(codes))
<1> DEFINE S == SpanSet(codes)
           s == Spans(codes)
           q == Sorted(codes)
           n == Len(codes)
<1>1. s \in Seq(S) /\ SpansUpTo(codes, n, s)
  BY SpansFacts
<1>2. \A x \in S : x.last \in Nat
  BY DEF SpanSet
<1>3. q = SortSpans(s)
  BY DEF Sorted
<1> HIDE DEF S, s, q
<1>4. q \in Seq(S) /\ Rearranges(q, s) /\ Descending(q)
  BY <1>1, <1>2, <1>3, SortSpansSorts
<1>5. PICK p : Orders(p, Len(s)) /\ Len(q) = Len(s) /\ \A k \in 1 .. Len(s) : q[k] = s[p[k]]
  BY <1>4 DEF Rearranges
<1>6. /\ \A k \in 1 .. Len(s) : p[k] \in 1 .. Len(s)
      /\ \A a, b \in 1 .. Len(s) : p[a] = p[b] => a = b
      /\ \A c \in 1 .. Len(s) : \E a \in 1 .. Len(s) : p[a] = c
  BY <1>5 DEF Orders
<1>7. \A k \in 1 .. Len(q) : SpanUpTo(codes, n, q[k])
  BY <1>1, <1>5, <1>6 DEF SpansUpTo
<1>8. \A a, b \in 1 .. Len(q) : q[a].tmp = q[b].tmp => a = b
  <2> SUFFICES ASSUME NEW a \in 1 .. Len(q), NEW b \in 1 .. Len(q), q[a].tmp = q[b].tmp
               PROVE  a = b
    OBVIOUS
  <2>1. /\ p[a] \in 1 .. Len(s) /\ p[b] \in 1 .. Len(s)
        /\ q[a] = s[p[a]] /\ q[b] = s[p[b]]
    BY <1>5, <1>6
  <2>2. p[a] = p[b]
    BY <1>1, <2>1 DEF SpansUpTo
  <2> QED BY <1>5, <1>6, <2>2
<1>9. \A i \in 1 .. n : codes[i].op = "ALLOC_TMP" =>
        \E k \in 1 .. Len(q) : q[k].tmp = codes[i].op1[2]
  <2> SUFFICES ASSUME NEW i \in 1 .. n, codes[i].op = "ALLOC_TMP"
               PROVE  \E k \in 1 .. Len(q) : q[k].tmp = codes[i].op1[2]
    OBVIOUS
  <2>1. PICK c \in 1 .. Len(s) : s[c].tmp = codes[i].op1[2]
    BY <1>1 DEF SpansUpTo
  <2>2. PICK a \in 1 .. Len(s) : p[a] = c
    BY <1>6
  <2> QED BY <1>5, <2>1, <2>2
<1>10. SpansUpTo(codes, n, q)
  BY <1>7, <1>8, <1>9 DEF SpansUpTo
<1> QED BY <1>4, <1>10 DEF S, s, q

\* The lists between the insertions.
InsertRun(f, codes) ==
  /\ f[0] = codes
  /\ \A k \in 1 .. Len(Sorted(codes)) : f[k] = InsertFree(f[k - 1], Sorted(codes)[k])

\* After k of them: the temporaries of the first k spans are freed, no place of
\* the others has moved.
FreedSoFar(codes, r, k) ==
  LET q == Sorted(codes)
  IN  /\ Len(r) = Len(codes) + k
      /\ \A a \in k + 1 .. Len(q) : Pending(r, q[a])
      /\ \A a \in 1 .. k : Freed(r, q[a].tmp, q[k].last)
      /\ \A i \in 1 .. Len(r) : r[i].op = "ALLOC_TMP" =>
           \E a \in 1 .. Len(q) : q[a].tmp = r[i].op1[2]

LEMMA InsertStep ==
  ASSUME NEW codes, Len(codes) \in Nat, AllocatesOnce(codes),
         NEW S, \A x \in SpanSet(codes) : FreeOf(x.tmp) \in S,
         NEW k \in 1 .. Len(Sorted(codes)), NEW c \in Seq(S), FreedSoFar(codes, c, k - 1),
         NEW r, r = InsertFree(c, Sorted(codes)[k])
  PROVE  r \in Seq(S) /\ FreedSoFar(codes, r, k)
<1> DEFINE q == Sorted(codes)
           m == Len(q)
           x == q[k]
           p == x.last
           n == Len(c)
<1>1. q \in Seq(SpanSet(codes)) /\ Descending(q) /\ SpansUpTo(codes, Len(codes), q)
  BY SortedFacts
<1> HIDE DEF q
<1>2. /\ Len(c) = Len(codes) + (k - 1)
      /\ \A a \in (k - 1) + 1 .. m : Pending(c, q[a])
      /\ \A a \in 1 .. k - 1 : Freed(c, q[a].tmp, q[k - 1].last)
      /\ \A i \in 1 .. Len(c) : c[i].op = "ALLOC_TMP" =>
           \E a \in 1 .. m : q[a].tmp = c[i].op1[2]
  BY DEF FreedSoFar, q
<1>3. k \in 1 .. m /\ m \in Nat /\ \A a \in 1 .. m : q[a] \in SpanSet(codes) /\ q[a].last \in Nat
  <2>1. \A a \in 1 .. m : q[a] \in SpanSet(codes)
    BY <1>1
  <2>2. k \in 1 .. m /\ m \in Nat
    BY <1>1 DEF q
  <2> QED BY <2>1, <2>2 DEF SpanSet
<1> HIDE DEF m
<1>4. Pending(c, x)
  BY <1>2, <1>3
<1>5. p \in 1 .. n /\ n \in Nat
  BY <1>4 DEF Pending
<1>6. r \in Seq(S) /\ FreedOnce(r, c, x)
  <2>1. FreeOf(x.tmp) \in S /\ r = InsertAt(c, x.last + 1, FreeOf(x.tmp))
    BY <1>3 DEF InsertFree, FreeOf, q
  <2> QED BY <1>5, <2>1, InsertFacts DEF FreedOnce
<1>7. \A a, b \in 1 .. m : q[a].tmp = q[b].tmp => a = b
  BY <1>1 DEF SpansUpTo, m
<1>8. \A a, b \in 1 .. m : a < b => q[a].last >= q[b].last
  BY <1>1 DEF Descending, m
<1> HIDE DEF n, x, p
<1>9. Len(r) = Len(codes) + k
  <2>1. Len(r) = Len(c) + 1
    BY <1>6 DEF FreedOnce, Inserted
  <2> QED BY <1>2, <2>1
<1>10. ASSUME NEW a \in k + 1 .. m PROVE Pending(r, q[a])
  <2> DEFINE y == q[a]
  <2>1. a \in (k - 1) + 1 .. m /\ a \in 1 .. m /\ a # k /\ k < a
    BY <1>3
  <2>2. Pending(c, y) /\ y.tmp # x.tmp /\ y.last <= x.last
    BY <1>2, <1>3, <1>7, <1>8, <2>1 DEF x
  <2> HIDE DEF y
  <2>3. Pending(r, y)
    BY <1>5, <1>6, <2>2, PendingStays DEF n, p
  <2> QED BY <2>3 DEF y
<1>11. ASSUME NEW a \in 1 .. k PROVE Freed(r, q[a].tmp, q[k].last)
  <2>1. CASE a = k
    <3>1. Freed(r, x.tmp, x.last)
      BY <1>4, <1>5, <1>6, PendingIsFreed DEF n
    <3> QED BY <2>1, <3>1 DEF x
  <2>2. CASE a # k
    <3> DEFINE t == q[a].tmp
               from == q[k - 1].last
    <3>1. a \in 1 .. k - 1 /\ a \in 1 .. m /\ k - 1 \in 1 .. m
      BY <1>3, <2>2
    <3>2. t # x.tmp /\ from \in Nat /\ x.last <= from /\ Freed(c, t, from)
      BY <1>2, <1>3, <1>7, <1>8, <2>2, <3>1 DEF x
    <3> HIDE DEF t, from
    <3>3. Freed(r, t, x.last)
      BY <1>5, <1>6, <3>2, FreedStays DEF n, p
    <3> QED BY <3>3 DEF t, x
  <2> QED BY <2>1, <2>2
<1>12. ASSUME NEW i \in 1 .. Len(r), r[i].op = "ALLOC_TMP"
       PROVE  \E a \in 1 .. m : q[a].tmp = r[i].op1[2]
  <2> DEFINE e == FreeOf(x.tmp)
  <2>1. Inserted(r, c, p, e) /\ i \in 1 .. n + 1
    BY <1>6 DEF FreedOnce, Inserted, n, p
  <2>2. e.op = "FREE"
    BY FreeUses
  <2> HIDE DEF e
  <2>3. \/ i \in 1 .. p /\ i \in 1 .. n /\ r[i] = c[i]
        \/ i = p + 1 /\ r[i] = e
        \/ i - 1 \in p + 1 .. n /\ i - 1 \in 1 .. n /\ r[i] = c[i - 1]
    BY <1>5, <2>1, InsertedAre DEF n
  <2>4. \A j \in 1 .. n : c[j].op = "ALLOC_TMP" => \E a \in 1 .. m : q[a].tmp = c[j].op1[2]
    BY <1>2 DEF n
  <2> QED BY <1>12, <2>2, <2>3, <2>4
<1>13. FreedSoFar(codes, r, k)
  BY <1>9, <1>10, <1>11, <1>12 DEF FreedSoFar, q, m
<1> QED BY <1>6, <1>13

\* The codes that this pass is given, whatever operations and operands there
\* are.
CodeSet(ops, operands) == [op : ops, op1 : operands, op2 : operands, op3 : operands]
WithFrees(C, codes) == C \union {FreeOf(x.tmp) : x \in SpanSet(codes)}

LEMMA FreedNone ==
  ASSUME NEW C, NEW codes \in Seq(C), AllocatesOnce(codes)
  PROVE  codes \in Seq(WithFrees(C, codes)) /\ FreedSoFar(codes, codes, 0)
<1> DEFINE n == Len(codes)
           q == Sorted(codes)
<1>1. n \in Nat /\ SpansUpTo(codes, n, q)
  BY SortedFacts
<1>2. codes \in Seq(WithFrees(C, codes))
  BY DEF WithFrees
<1> HIDE DEF q
<1>3. ASSUME NEW a \in 1 .. Len(q) PROVE Pending(codes, q[a])
  <2> DEFINE x == q[a]
  <2>1. SpanUpTo(codes, n, x)
    BY <1>1 DEF SpansUpTo
  <2> HIDE DEF x
  <2>2. PICK i \in 1 .. x.last : codes[i].op = "ALLOC_TMP" /\ codes[i].op1[2] = x.tmp
    BY <2>1 DEF SpanUpTo
  <2>3. x.last \in 1 .. n /\ i \in 1 .. n
    BY <1>1, <2>1 DEF SpanUpTo
  <2>4. \A j \in 1 .. n : codes[j].op = "ALLOC_TMP" /\ codes[j].op1[2] = x.tmp => j <= x.last
    BY <2>2, <2>3 DEF AllocatesOnce
  <2>5. FreesAt(codes, x.tmp) = {}
    <3>1. FreeOf(x.tmp).op = "FREE"
      BY FreeUses
    <3> QED BY <3>1 DEF FreesAt, FreeOf, AllocatesOnce
  <2>6. Pending(codes, x)
    BY <2>1, <2>4, <2>5 DEF Pending, SpanUpTo
  <2> QED BY <2>6 DEF x
<1>4. \A i \in 1 .. n : codes[i].op = "ALLOC_TMP" =>
        \E a \in 1 .. Len(q) : q[a].tmp = codes[i].op1[2]
  BY <1>1 DEF SpansUpTo
<1>5. FreedSoFar(codes, codes, 0)
  BY <1>1, <1>3, <1>4 DEF FreedSoFar, q
<1> QED BY <1>2, <1>5

LEMMA InsertRunFacts ==
  ASSUME NEW C, NEW codes \in Seq(C), AllocatesOnce(codes), NEW f, InsertRun(f, codes)
  PROVE  \A k \in 0 .. Len(Sorted(codes)) : FreedSoFar(codes, f[k], k)
<1> DEFINE S == WithFrees(C, codes)
           m == Len(Sorted(codes))
           T == {k \in 0 .. m : f[k] \in Seq(S) /\ FreedSoFar(codes, f[k], k)}
<1>1. m \in Nat /\ Len(codes) \in Nat
  BY SortedFacts
<1>2. \A x \in SpanSet(codes) : FreeOf(x.tmp) \in S
  BY DEF WithFrees
<1>3. f[0] = codes /\ \A k \in 1 .. m : f[k] = InsertFree(f[k - 1], Sorted(codes)[k])
  BY DEF InsertRun
<1> HIDE DEF m, S
<1>4. 0 \in T
  <2>1. f[0] \in Seq(S) /\ FreedSoFar(codes, f[0], 0)
    BY <1>3, FreedNone DEF S
  <2>2. 0 \in 0 .. m
    BY <1>1
  <2> QED BY <2>1, <2>2
<1>5. ASSUME NEW k \in 0 .. m - 1, k \in T PROVE k + 1 \in T
  <2> DEFINE i == k + 1
  <2>1. i \in 1 .. m /\ i \in 0 .. m /\ i - 1 = k
    BY <1>1
  <2>2. f[i - 1] \in Seq(S) /\ FreedSoFar(codes, f[i - 1], i - 1)
    BY <1>5, <2>1
  <2>3. f[i] = InsertFree(f[i - 1], Sorted(codes)[i])
    BY <1>3, <2>1
  <2> HIDE DEF i
  <2> DEFINE c == f[i - 1]
             r == f[i]
  <2>4. c \in Seq(S) /\ FreedSoFar(codes, c, i - 1) /\ r = InsertFree(c, Sorted(codes)[i])
    BY <2>2, <2>3
  <2> HIDE DEF c, r
  <2>5. r \in Seq(S) /\ FreedSoFar(codes, r, i)
    BY <1>1, <1>2, <2>1, <2>4, InsertStep DEF m
  <2>6. i \in T
    BY <2>1, <2>5 DEF r
  <2> QED BY <2>6 DEF i
<1> HIDE DEF T
<1>6. \A k \in 0 .. m : k \in T
  BY <1>1, <1>4, <1>5, Inserts!PassInduction
<1> QED BY <1>6 DEF T, m

LEMMA InsertRuns ==
  ASSUME NEW codes, Len(codes) \in Nat, AllocatesOnce(codes)
  PROVE  \E f : InsertRun(f, codes) /\ InsertFrees(codes) = f[Len(Sorted(codes))]
<1> DEFINE q == Sorted(codes)
           m == Len(q)
<1>1. q \in Seq(SpanSet(codes)) /\ m \in Nat
  BY SortedFacts
<1> HIDE DEF q
<1>2. PICK f : /\ f[0] = codes
               /\ \A k \in 0 .. Len(q) - 1 : f[k + 1] = InsertFree(f[k], q[k + 1])
               /\ Inserts!FoldLeft(InsertFree, codes, q) = f[Len(q)]
  BY <1>1, Inserts!FoldRuns
<1>3. Inserts!FoldLeft(InsertFree, codes, q) = FoldLeft(InsertFree, codes, q)
  BY DEF FoldLeft, Inserts!FoldLeft, MapThenFoldSet, Inserts!MapThenFoldSet, Max, Inserts!Max
<1>4. InsertFrees(codes) = f[Len(q)]
  BY <1>2, <1>3 DEF InsertFrees, Sorted, q
<1>5. \A k \in 1 .. m : f[k] = InsertFree(f[k - 1], q[k])
  <2> SUFFICES ASSUME NEW k \in 1 .. m PROVE f[k] = InsertFree(f[k - 1], q[k])
    OBVIOUS
  <2>1. k - 1 \in 0 .. m - 1 /\ (k - 1) + 1 = k
    BY <1>1
  <2> QED BY <1>2, <2>1
<1> QED BY <1>2, <1>4, <1>5 DEF InsertRun, q

(* The loop of intercode2.c:129 frees every temporary of the list once, in  *)
(* the line behind its last use: for every list in which a temporary is     *)
(* allocated once and none is freed yet, however their lives overlap.       *)
THEOREM FreesFollowLastUses ==
  ASSUME NEW C, NEW codes \in Seq(C), AllocatesOnce(codes)
  PROVE  FreesBehindUses(InsertFrees(codes))
<1> DEFINE q == Sorted(codes)
           m == Len(q)
           r == InsertFrees(codes)
<1>1. m \in Nat /\ Len(codes) \in Nat
  BY SortedFacts
<1>2. PICK run : InsertRun(run, codes) /\ r = run[m]
  BY <1>1, InsertRuns
<1>3. FreedSoFar(codes, r, m)
  <2>1. m \in 0 .. m
    BY <1>1
  <2> QED BY <1>2, <2>1, InsertRunFacts
<1>4. /\ \A a \in 1 .. m : Freed(r, q[a].tmp, q[m].last)
      /\ \A i \in 1 .. Len(r) : r[i].op = "ALLOC_TMP" =>
           \E a \in 1 .. m : q[a].tmp = r[i].op1[2]
      /\ Len(r) = Len(codes) + m
  BY <1>3 DEF FreedSoFar
<1> HIDE DEF r, q, m
<1> SUFFICES ASSUME NEW i \in 1 .. Len(r), r[i].op = "ALLOC_TMP"
             PROVE  \E f \in FreesAt(r, r[i].op1[2]) :
                      /\ FreesAt(r, r[i].op1[2]) = {f}
                      /\ \A j \in f + 1 .. Len(r) : ~UsesTmp(r[j], r[i].op1[2])
                      /\ \E j \in i .. f - 1 :
                           /\ UsesTmp(r[j], r[i].op1[2])
                           /\ \A k \in j + 1 .. f - 1 : r[k].op = "FREE"
  BY DEF FreesBehindUses, r
<1> DEFINE t == r[i].op1[2]
<1>5. PICK a \in 1 .. m : q[a].tmp = t
  BY <1>4
<1>6. PICK f \in FreesAt(r, t), j \in q[m].last .. Len(r) :
        /\ FreesAt(r, t) = {f} /\ j < f
        /\ \A k \in f + 1 .. Len(r) : ~UsesTmp(r[k], t)
        /\ UsesTmp(r[j], t)
        /\ \A k \in 1 .. Len(r) : r[k].op = "ALLOC_TMP" /\ r[k].op1[2] = t => k <= j
        /\ \A k \in j + 1 .. f - 1 : r[k].op = "FREE"
  BY <1>4, <1>5 DEF Freed
<1>7. f \in Nat /\ j \in Int /\ i \in Nat
  BY <1>1, <1>4, <1>6 DEF FreesAt
<1>8. j \in i .. f - 1
  BY <1>6, <1>7
<1> QED BY <1>6, <1>8

(* list_insert's assertion (utils.c:107) holds at every insertion of that   *)
(* loop if, and only if, no span ends with the list: the one check that the *)
(* model makes before the loop stands for them all.                         *)
THEOREM InsertionsFit ==
  ASSUME NEW C, NEW codes \in Seq(C), AllocatesOnce(codes), NEW f, InsertRun(f, codes)
  PROVE  AllFit(codes) <=>
           \A k \in 1 .. Len(Sorted(codes)) : Fits(f[k - 1], Sorted(codes)[k])
<1> DEFINE n == Len(codes)
           s == Spans(codes)
           q == Sorted(codes)
           m == Len(q)
<1>1. /\ n \in Nat /\ m \in Nat /\ q \in Seq(SpanSet(codes)) /\ Descending(q)
      /\ SpansUpTo(codes, n, q) /\ Rearranges(q, s)
  BY SortedFacts
<1>2. \A k \in 1 .. m : Len(f[k - 1]) = n + (k - 1)
  <2> SUFFICES ASSUME NEW k \in 1 .. m PROVE Len(f[k - 1]) = n + (k - 1)
    OBVIOUS
  <2>1. k - 1 \in 0 .. m
    BY <1>1
  <2>2. FreedSoFar(codes, f[k - 1], k - 1)
    BY <2>1, InsertRunFacts
  <2> QED BY <2>2 DEF FreedSoFar
<1> HIDE DEF q, s
<1>3. PICK p : Orders(p, Len(s)) /\ m = Len(s) /\ \A k \in 1 .. m : q[k] = s[p[k]]
  BY <1>1 DEF Rearranges
<1>4. (\A k \in 1 .. m : p[k] \in 1 .. m) /\ \A c \in 1 .. m : \E k \in 1 .. m : p[k] = c
  BY <1>3 DEF Orders
<1>5. AllFit(codes) <=> \A k \in 1 .. m : s[k].last < n
  BY <1>3 DEF AllFit, Fits, s
<1>6. AllFit(codes) <=> \A k \in 1 .. m : q[k].last < n
  <2>1. ASSUME \A k \in 1 .. m : s[k].last < n, NEW k \in 1 .. m PROVE q[k].last < n
    <3>1. p[k] \in 1 .. m /\ q[k] = s[p[k]]
      BY <1>3, <1>4
    <3> QED BY <2>1, <3>1
  <2>2. ASSUME \A k \in 1 .. m : q[k].last < n, NEW c \in 1 .. m PROVE s[c].last < n
    <3>1. PICK k \in 1 .. m : p[k] = c
      BY <1>4
    <3>2. q[k] = s[c]
      BY <1>3, <3>1
    <3> QED BY <2>2, <3>2
  <2> QED BY <1>5, <2>1, <2>2
<1>7. \A k \in 1 .. m : q[k].last \in 1 .. n
  BY <1>1 DEF SpansUpTo, SpanUpTo
<1>8. ASSUME AllFit(codes) PROVE \A k \in 1 .. m : Fits(f[k - 1], q[k])
  <2> SUFFICES ASSUME NEW k \in 1 .. m PROVE q[k].last < Len(f[k - 1])
    BY DEF Fits
  <2>1. q[k].last < n /\ q[k].last \in Nat /\ k \in Nat /\ k >= 1
    BY <1>1, <1>6, <1>7, <1>8
  <2>2. n <= n + (k - 1)
    BY <1>1, <2>1
  <2> QED BY <1>1, <1>2, <2>1, <2>2
<1>9. ASSUME \A k \in 1 .. m : Fits(f[k - 1], q[k]) PROVE AllFit(codes)
  <2> SUFFICES ASSUME NEW k \in 1 .. m PROVE q[k].last < n
    BY <1>6
  <2>1. 1 \in 1 .. m /\ Len(f[1 - 1]) = n
    BY <1>1, <1>2
  <2>2. q[1].last < n
    BY <1>9, <2>1 DEF Fits
  <2>3. q[1].last >= q[k].last
    BY <1>1, <1>7, <2>1 DEF Descending
  <2> QED BY <1>1, <1>7, <2>1, <2>2, <2>3
<1> QED BY <1>8, <1>9 DEF q

\* r has the codes of the list, all of them and in their order, and FREEs.
KeepsCodes(r, codes) ==
  \E p \in [1 .. Len(codes) -> 1 .. Len(r)] :
    /\ \A i, j \in 1 .. Len(codes) : i < j => p[i] < p[j]
    /\ \A i \in 1 .. Len(codes) : r[p[i]] = codes[i]
    /\ \A k \in 1 .. Len(r) : r[k].op = "FREE" \/ \E i \in 1 .. Len(codes) : p[i] = k

LEMMA KeepsStep ==
  ASSUME NEW codes, NEW c, Len(c) \in Nat, KeepsCodes(c, codes),
         NEW span, span.last \in 1 .. Len(c), NEW r, FreedOnce(r, c, span)
  PROVE  KeepsCodes(r, codes)
<1> DEFINE I == 1 .. Len(codes)
           n == Len(c)
           l == span.last
           e == FreeOf(span.tmp)
<1>1. PICK p \in [I -> 1 .. n] :
        /\ \A i, j \in I : i < j => p[i] < p[j]
        /\ \A i \in I : c[p[i]] = codes[i]
        /\ \A k \in 1 .. n : c[k].op = "FREE" \/ \E i \in I : p[i] = k
  BY DEF KeepsCodes
<1>2. Inserted(r, c, l, e) /\ Len(r) = n + 1 /\ n \in Nat /\ l \in 1 .. n
  BY DEF FreedOnce, Inserted
<1>3. e.op = "FREE"
  BY FreeUses
<1> DEFINE o == [i \in I |-> IF p[i] <= l THEN p[i] ELSE p[i] + 1]
<1> HIDE DEF I, n, l, e
<1>4. \A i \in I : p[i] \in 1 .. n /\ p[i] \in Nat
  BY <1>1, <1>2
<1>5. o \in [I -> 1 .. n + 1]
  BY <1>2, <1>4
<1>6. \A i \in I : o[i] = IF p[i] <= l THEN p[i] ELSE p[i] + 1
  OBVIOUS
<1> HIDE DEF o
<1>7. ASSUME NEW i \in I, NEW j \in I, i < j PROVE o[i] < o[j]
  <2>1. p[i] < p[j]
    BY <1>1, <1>7
  <2> QED BY <1>2, <1>4, <1>6, <2>1
<1>8. ASSUME NEW i \in I PROVE r[o[i]] = codes[i]
  <2>1. CASE p[i] <= l
    <3>1. p[i] \in 1 .. l /\ o[i] = p[i]
      BY <1>2, <1>4, <1>6, <2>1
    <3> QED BY <1>1, <1>2, <3>1 DEF Inserted
  <2>2. CASE ~(p[i] <= l)
    <3>1. p[i] \in l + 1 .. n /\ o[i] = p[i] + 1
      BY <1>2, <1>4, <1>6, <2>2
    <3>2. r[p[i] + 1] = c[p[i]]
      BY <1>2, <3>1 DEF Inserted, n
    <3> QED BY <1>1, <3>1, <3>2
  <2> QED BY <2>1, <2>2
<1>9. ASSUME NEW k \in 1 .. n + 1 PROVE r[k].op = "FREE" \/ \E i \in I : o[i] = k
  <2>1. \/ k \in 1 .. l /\ k \in 1 .. n /\ r[k] = c[k]
        \/ k = l + 1 /\ r[k] = e
        \/ k - 1 \in l + 1 .. n /\ k - 1 \in 1 .. n /\ r[k] = c[k - 1]
    BY <1>2, InsertedAre DEF n
  <2>2. CASE k \in 1 .. l /\ k \in 1 .. n /\ r[k] = c[k]
    <3>1. c[k].op = "FREE" \/ \E i \in I : p[i] = k
      BY <1>1, <2>2
    <3>2. \A i \in I : p[i] = k => o[i] = k
      BY <1>2, <1>6, <2>2
    <3> QED BY <2>2, <3>1, <3>2
  <2>3. CASE k = l + 1 /\ r[k] = e
    BY <1>3, <2>3
  <2>4. CASE k - 1 \in l + 1 .. n /\ k - 1 \in 1 .. n /\ r[k] = c[k - 1]
    <3>1. c[k - 1].op = "FREE" \/ \E i \in I : p[i] = k - 1
      BY <1>1, <2>4
    <3>2. \A i \in I : p[i] = k - 1 => o[i] = k
      BY <1>2, <1>6, <2>4
    <3> QED BY <2>4, <3>1, <3>2
  <2> QED BY <2>1, <2>2, <2>3, <2>4
<1>10. /\ o \in [I -> 1 .. Len(r)]
       /\ \A i, j \in I : i < j => o[i] < o[j]
       /\ \A i \in I : r[o[i]] = codes[i]
       /\ \A k \in 1 .. Len(r) : r[k].op = "FREE" \/ \E i \in I : o[i] = k
  BY <1>2, <1>5, <1>7, <1>8, <1>9
<1> QED BY <1>10 DEF KeepsCodes, I

(* Nothing else happens to the list: no code is lost, doubled or moved past *)
(* another while the FREEs shift the places of those behind them            *)
(* (intercode2.c:129).                                                      *)
THEOREM OnlyFreesAdded ==
  ASSUME NEW C, NEW codes \in Seq(C), AllocatesOnce(codes)
  PROVE  KeepsCodes(InsertFrees(codes), codes)
<1> DEFINE q == Sorted(codes)
           m == Len(q)
           n == Len(codes)
<1>1. m \in Nat /\ n \in Nat
  BY SortedFacts
<1>2. PICK f : InsertRun(f, codes) /\ InsertFrees(codes) = f[m]
  BY <1>1, InsertRuns
<1>3. f[0] = codes /\ \A k \in 1 .. m : f[k] = InsertFree(f[k - 1], q[k])
  BY <1>2 DEF InsertRun
<1>4. \A k \in 0 .. m : FreedSoFar(codes, f[k], k)
  BY <1>2, InsertRunFacts
<1> DEFINE T == {k \in 0 .. m : f[k] \in Seq(WithFrees(C, codes)) /\ KeepsCodes(f[k], codes)}
<1> HIDE DEF q, m
<1>5. 0 \in T
  <2> DEFINE p == [i \in 1 .. n |-> i]
  <2>1. p \in [1 .. n -> 1 .. n]
        /\ (\A i, j \in 1 .. n : i < j => p[i] < p[j])
        /\ (\A i \in 1 .. n : codes[p[i]] = codes[i])
        /\ \A k \in 1 .. n : \E i \in 1 .. n : p[i] = k
    OBVIOUS
  <2> HIDE DEF p
  <2>2. KeepsCodes(codes, codes)
    BY <2>1 DEF KeepsCodes
  <2>3. codes \in Seq(WithFrees(C, codes))
    BY FreedNone
  <2>4. 0 \in 0 .. m
    BY <1>1
  <2> QED BY <1>3, <2>2, <2>3, <2>4
<1>6. ASSUME NEW k \in 0 .. m - 1, k \in T PROVE k + 1 \in T
  <2> DEFINE i == k + 1
             c == f[k]
             x == q[i]
             r == f[i]
             S == WithFrees(C, codes)
  <2>1. i \in 1 .. m /\ i \in 0 .. m /\ i - 1 = k /\ k \in 0 .. m
    BY <1>1
  <2>2. c \in Seq(S) /\ KeepsCodes(c, codes)
    BY <1>6
  <2>3. r = InsertFree(c, x)
    BY <1>3, <2>1
  <2>4. Pending(c, x)
    <3>1. FreedSoFar(codes, c, k)
      BY <1>4, <2>1
    <3>2. i \in k + 1 .. m
      BY <2>1
    <3> QED BY <3>1, <3>2 DEF FreedSoFar, q, m
  <2>5. x.last \in 1 .. Len(c) /\ Len(c) \in Nat
    BY <2>2, <2>4 DEF Pending
  <2>6. FreeOf(x.tmp) \in S
    <3>1. q \in Seq(SpanSet(codes))
      BY <1>1, SortedFacts DEF q
    <3>2. x \in SpanSet(codes)
      BY <2>1, <3>1 DEF m
    <3> QED BY <3>2 DEF WithFrees
  <2>7. r = InsertAt(c, x.last + 1, FreeOf(x.tmp))
    BY <2>3 DEF InsertFree, FreeOf
  <2> HIDE DEF i, c, x, r, S
  <2>8. r \in Seq(S) /\ FreedOnce(r, c, x)
    BY <2>2, <2>5, <2>6, <2>7, InsertFacts DEF FreedOnce
  <2>9. KeepsCodes(r, codes)
    BY <2>2, <2>5, <2>8, KeepsStep
  <2>10. i \in T
    BY <2>1, <2>8, <2>9 DEF r, S
  <2> QED BY <2>10 DEF i
<1> HIDE DEF T
<1>7. m \in T
  <2>1. \A k \in 0 .. m : k \in T
    BY <1>1, <1>5, <1>6, Inserts!PassInduction
  <2> QED BY <1>1, <2>1
<1> QED BY <1>2, <1>7 DEF T

-----------------------------------------------------------------------------
(* Part four: the sections, so that all of process_intercode follows.      *)

\* Operations and operands with those that this pass adds.
MoreOps(ops) ==
  ops \union {"DATA_SECTION", "TEXT_SECTION", "DATA", "GLOBAL_VAR_DATA"}
MoreOperands(operands) ==
  operands \union {Empty, ImmOp(0)} \union {AddrOp(ConstLabel(k)) : k \in Nat}
    \union {StringOp(ConstLabel(k)) : k \in Nat}
MoreCodes(ops, operands) == CodeSet(MoreOps(ops), MoreOperands(operands))
DataCodes(ops, operands) ==
  {c \in MoreCodes(ops, operands) : c.op \in {"DATA", "GLOBAL_VAR_DATA"}}

LEMMA CountIsNat ==
  ASSUME NEW n \in Nat, NEW T, T \subseteq 1 .. n
  PROVE  Cardinality(T) \in Nat
<1>1. IsFiniteSet(1 .. n)
  BY FS_Interval
<1>2. IsFiniteSet(T)
  BY <1>1, FS_Subset
<1> QED BY <1>2, FS_CardinalityType

LEMMA ExtractStep ==
  ASSUME NEW ops, NEW operands, NEW data \in Seq(DataCodes(ops, operands)),
         NEW c \in CodeSet(ops, operands)
  PROVE  Extract(data, c) \in Seq(DataCodes(ops, operands))
<1> DEFINE D == DataCodes(ops, operands)
           g == Code("GLOBAL_VAR_DATA", c.op1, ImmOp(0), Empty)
           used == Cardinality({i \in 1 .. Len(data) : data[i].op = "DATA"})
           d == Code("DATA", AddrOp(ConstLabel(used)), c.op2, Empty)
<1>1. used \in Nat
  BY CountIsNat
<1> HIDE DEF used
<1>2. g \in D
  BY DEF DataCodes, MoreCodes, CodeSet, MoreOps, MoreOperands, Code
<1>3. d \in D
  BY <1>1 DEF DataCodes, MoreCodes, CodeSet, MoreOps, MoreOperands, Code
<1>4. Extract(data, c) \in {data, Append(data, g), Append(data, d)}
  BY DEF Extract, used
<1>5. data \in Seq(D)
  OBVIOUS
<1> HIDE DEF D, g, d
<1>6. Append(data, g) \in Seq(D) /\ Append(data, d) \in Seq(D)
  BY <1>2, <1>3, <1>5, AppendProperties
<1> QED BY <1>4, <1>5, <1>6 DEF D

LEMMA ExtractedFacts ==
  ASSUME NEW ops, NEW operands, NEW codes \in Seq(CodeSet(ops, operands))
  PROVE  FoldLeft(Extract, <<>>, codes) \in Seq(DataCodes(ops, operands))
<1> DEFINE D == DataCodes(ops, operands)
           C == CodeSet(ops, operands)
           n == Len(codes)
<1>1. codes \in Seq(C) /\ n \in Nat
  OBVIOUS
<1> HIDE DEF C
<1>2. PICK f : /\ f[0] = <<>>
               /\ \A k \in 0 .. n - 1 : f[k + 1] = Extract(f[k], codes[k + 1])
               /\ Extracts!FoldLeft(Extract, <<>>, codes) = f[n]
  BY <1>1, Extracts!FoldRuns
<1>3. Extracts!FoldLeft(Extract, <<>>, codes) = FoldLeft(Extract, <<>>, codes)
  BY DEF FoldLeft, Extracts!FoldLeft, MapThenFoldSet, Extracts!MapThenFoldSet,
         Max, Extracts!Max
<1> DEFINE T == {k \in 0 .. n : f[k] \in Seq(D)}
<1> HIDE DEF n, D
<1>4. 0 \in T
  <2>1. f[0] \in Seq(D)
    BY <1>2
  <2> QED BY <1>1, <2>1
<1>5. ASSUME NEW k \in 0 .. n - 1, k \in T PROVE k + 1 \in T
  <2>1. codes[k + 1] \in C /\ k + 1 \in 0 .. n
    BY <1>1 DEF n
  <2>2. f[k + 1] = Extract(f[k], codes[k + 1]) /\ f[k] \in Seq(D)
    BY <1>2, <1>5
  <2>3. f[k + 1] \in Seq(D)
    BY <2>1, <2>2, ExtractStep DEF C, D
  <2> QED BY <2>1, <2>3
<1> HIDE DEF T
<1>6. n \in T
  <2>1. \A k \in 0 .. n : k \in T
    BY <1>1, <1>4, <1>5, Extracts!PassInduction
  <2> QED BY <1>1, <2>1
<1>7. f[n] \in Seq(D)
  BY <1>6 DEF T
<1> QED BY <1>2, <1>3, <1>7 DEF D

\* What a code is in the text section: the same, apart from a string.
SameButString(d, c) ==
  /\ d.op = c.op /\ d.op1 = c.op1 /\ d.op3 = c.op3
  /\ d.op2 = c.op2 \/ d.op2[1] = "string"

LEMMA LabelFacts ==
  ASSUME NEW ops, NEW operands, NEW codes \in Seq(CodeSet(ops, operands)),
         NEW i \in 1 .. Len(codes)
  PROVE  /\ UnderLabel(codes, i) \in MoreCodes(ops, operands)
         /\ SameButString(UnderLabel(codes, i), codes[i])
<1> DEFINE used == Cardinality({j \in 1 .. i - 1 : codes[j].op2[1] = "string"})
           c == codes[i]
           s == StringOp(ConstLabel(used))
<1>1. used \in Nat
  <2>1. i - 1 \in Nat
    OBVIOUS
  <2> QED BY <2>1, CountIsNat
<1>2. c \in CodeSet(ops, operands)
  OBVIOUS
<1>3. UnderLabel(codes, i) \in {c, [c EXCEPT !.op2 = s]}
  BY DEF UnderLabel
<1> HIDE DEF used, c
<1>4. s \in MoreOperands(operands) /\ s[1] = "string"
  BY <1>1 DEF MoreOperands, StringOp
<1> HIDE DEF s
<1>5. c \in MoreCodes(ops, operands)
  BY <1>2 DEF MoreCodes, CodeSet, MoreOps, MoreOperands
<1>6. [c EXCEPT !.op2 = s] \in MoreCodes(ops, operands)
  BY <1>4, <1>5 DEF MoreCodes, CodeSet
<1>7. SameButString([c EXCEPT !.op2 = s], c)
  BY <1>2, <1>4 DEF CodeSet, SameButString
<1>8. SameButString(c, c)
  BY DEF SameButString
<1> QED BY <1>3, <1>5, <1>6, <1>7, <1>8 DEF c

(* The sections neither double an ALLOC_TMP nor add one.                   *)
LEMMA SectionsFacts ==
  ASSUME NEW ops, NEW operands, NEW codes \in Seq(CodeSet(ops, operands)),
         AllocatesOnce(codes)
  PROVE  /\ Sections(codes) \in Seq(MoreCodes(ops, operands))
         /\ AllocatesOnce(Sections(codes))
<1> DEFINE S == MoreCodes(ops, operands)
           H == {c \in S : c.op \in {"DATA_SECTION", "TEXT_SECTION", "DATA", "GLOBAL_VAR_DATA"}}
           n == Len(codes)
           first == Code("DATA_SECTION", Empty, Empty, Empty)
           next == Code("TEXT_SECTION", Empty, Empty, Empty)
           data == FoldLeft(Extract, <<>>, codes)
           text == [i \in 1 .. n |-> UnderLabel(codes, i)]
           head == (<<first>> \o data) \o <<next>>
           l == Len(head)
           r == Sections(codes)
<1>1. first \in H /\ next \in H
  BY DEF MoreCodes, CodeSet, MoreOps, MoreOperands, Code
<1>2. data \in Seq(H)
  <2>1. DataCodes(ops, operands) \subseteq H
    BY DEF DataCodes
  <2>2. data \in Seq(DataCodes(ops, operands))
    BY ExtractedFacts
  <2> HIDE DEF data, H
  <2> QED BY <2>1, <2>2
<1>3. r = head \o text
  BY DEF Sections
<1>4. H \subseteq S
  OBVIOUS
<1> HIDE DEF data, first, next, H
<1>5. head \in Seq(H)
  BY <1>1, <1>2
<1>6. head \in Seq(S) /\ l \in Nat /\ \A k \in 1 .. l : head[k] \in H
  <2> HIDE DEF head, S
  <2> QED BY <1>4, <1>5
<1>7. n \in Nat
  OBVIOUS
<1>8. \A i \in 1 .. n : text[i] \in S /\ SameButString(text[i], codes[i])
  BY LabelFacts
<1>9. text \in Seq(S) /\ Len(text) = n
  BY <1>7, <1>8
<1> HIDE DEF text, head, r
<1>10. /\ head \o text \in Seq(S) /\ Len(head \o text) = Len(head) + Len(text)
       /\ \A k \in 1 .. Len(head) : (head \o text)[k] = head[k]
       /\ \A k \in Len(head) + 1 .. Len(head) + Len(text) : (head \o text)[k] = text[k - Len(head)]
  <2>1. head \in Seq(S) /\ text \in Seq(S)
    BY <1>6, <1>9
  <2> HIDE DEF S
  <2> QED BY <2>1, Joined
<1>11. /\ r \in Seq(S) /\ Len(r) = l + n
       /\ \A k \in 1 .. l : r[k] \in H
       /\ \A k \in l + 1 .. l + n : r[k] = text[k - l]
  BY <1>3, <1>6, <1>9, <1>10
<1> HIDE DEF l, n, S
<1>12. ASSUME NEW k \in 1 .. l + n
       PROVE  \/ r[k].op \notin {"ALLOC_TMP", "FREE"}
              \/ k - l \in 1 .. n /\ k = (k - l) + l /\ SameButString(r[k], codes[k - l])
  <2>1. CASE k \in 1 .. l
    <3>1. r[k] \in H
      BY <1>11, <2>1
    <3> QED BY <3>1 DEF H
  <2>2. CASE k \in l + 1 .. l + n
    <3>1. k - l \in 1 .. n /\ k = (k - l) + l
      BY <1>6, <1>7, <2>2
    <3> QED BY <1>8, <1>11, <2>2, <3>1
  <2> QED BY <1>6, <1>7, <2>1, <2>2
<1>13. \A i \in 1 .. n :
         /\ codes[i].op # "FREE"
         /\ codes[i].op = "ALLOC_TMP" =>
              /\ codes[i].op1[1] = "tmp"
              /\ codes[i].op2[1] \notin {"tmp", "offset"}
              /\ codes[i].op3[1] \notin {"tmp", "offset"}
  BY DEF AllocatesOnce, n
<1>14. \A i, j \in 1 .. n :
         codes[i].op = "ALLOC_TMP" /\ codes[j].op = "ALLOC_TMP" /\ codes[i].op1[2] = codes[j].op1[2]
           => i = j
  BY DEF AllocatesOnce, n
<1>15. ASSUME NEW k \in 1 .. l + n
       PROVE  /\ r[k].op # "FREE"
              /\ r[k].op = "ALLOC_TMP" =>
                   /\ r[k].op1[1] = "tmp"
                   /\ r[k].op2[1] \notin {"tmp", "offset"}
                   /\ r[k].op3[1] \notin {"tmp", "offset"}
  BY <1>12, <1>13 DEF SameButString
<1>16. ASSUME NEW j \in 1 .. l + n, NEW k \in 1 .. l + n,
              r[j].op = "ALLOC_TMP", r[k].op = "ALLOC_TMP", r[j].op1[2] = r[k].op1[2]
       PROVE  j = k
  <2>1. /\ j - l \in 1 .. n /\ j = (j - l) + l /\ SameButString(r[j], codes[j - l])
        /\ k - l \in 1 .. n /\ k = (k - l) + l /\ SameButString(r[k], codes[k - l])
    BY <1>12, <1>16
  <2>2. j - l = k - l
    BY <1>14, <1>16, <2>1 DEF SameButString
  <2> QED BY <2>1, <2>2
<1>17. AllocatesOnce(r)
  BY <1>11, <1>15, <1>16 DEF AllocatesOnce
<1> QED BY <1>11, <1>17 DEF r, S

(* process_intercode as a whole: whatever gen_intercode hands over, in what *)
(* comes out every temporary is freed once, directly behind its last use,   *)
(* if it was allocated once (intercode2.c:34).                              *)
THEOREM ProcessIntercodeFrees ==
  ASSUME NEW ops, NEW operands, NEW codes \in Seq(CodeSet(ops, operands)),
         AllocatesOnce(codes)
  PROVE  FreesBehindUses(ProcessIntercode(codes))
<1>1. Sections(codes) \in Seq(MoreCodes(ops, operands)) /\ AllocatesOnce(Sections(codes))
  BY SectionsFacts
<1>2. FreesBehindUses(InsertFrees(Sections(codes)))
  BY <1>1, FreesFollowLastUses
<1> QED BY <1>2 DEF ProcessIntercode
=============================================================================
