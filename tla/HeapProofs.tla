----------------------------- MODULE HeapProofs -----------------------------
(***************************************************************************)
(* The invariants of Heap for every set of addresses and any length of     *)
(* alloced_mems.  The strengthening says where the two loops can be: as    *)
(* long as no block went past the allocator the list has every block       *)
(* once, so that myfree hits at most one entry, and in free_rest this is   *)
(* the last one.                                                           *)
(***************************************************************************)
EXTENDS Heap, TLAPS

Listed(list) == {list[i] : i \in 1 .. Len(list)}
Once(list) == \A i, j \in 1 .. Len(list) : list[i] = list[j] => i = j

\* Where free_rest is: at the last entry, whose block myfree looks for, or
\* behind it.
Ahead == left + 1 = Len(alloced_mems) /\ alloced_mems[left + 1] = scan.ptr /\ scan.at <= left + 1
Behind == left = Len(alloced_mems) /\ (Idle \/ scan.ptr \notin Listed(alloced_mems))

Orderly ==
  /\ ~wild
  /\ Once(alloced_mems)
  /\ live = Listed(alloced_mems) \union raw
  /\ Listed(alloced_mems) \intersect raw = {}
  /\ held \subseteq Listed(alloced_mems) \ {scan.ptr}
  /\ phase = "rest" => Ahead \/ Behind
  /\ phase = "done" => Listed(alloced_mems) = {}
  /\ phase = "rest" /\ Ahead => ~Idle

IInv == TypeOK /\ (~bypassed => Orderly)

-----------------------------------------------------------------------------
(* What mem_list_append makes of a list without repetitions (utils.c:31).  *)
LEMMA AppendFacts ==
  ASSUME NEW S, NEW s \in Seq(S), NEW e \in S
  PROVE  /\ Append(s, e) \in Seq(S)
         /\ Listed(Append(s, e)) = Listed(s) \union {e}
         /\ Once(s) /\ e \notin Listed(s) => Once(Append(s, e))
<1>1. /\ Append(s, e) \in Seq(S)
      /\ Len(Append(s, e)) = Len(s) + 1
      /\ \A k \in 1 .. Len(s) : Append(s, e)[k] = s[k]
      /\ Append(s, e)[Len(s) + 1] = e
  OBVIOUS
<1>2. 1 .. Len(s) + 1 = (1 .. Len(s)) \union {Len(s) + 1} /\ Len(s) \in Nat
  OBVIOUS
<1>3. Listed(Append(s, e)) = Listed(s) \union {e}
  BY <1>1, <1>2 DEF Listed
<1>4. Once(s) /\ e \notin Listed(s) => Once(Append(s, e))
  BY <1>1, <1>2 DEF Once, Listed
<1> QED BY <1>1, <1>3, <1>4

(* What mem_list_remove makes of it: only the removed entry is gone        *)
(* (utils.c:55-58).                                                        *)
LEMMA RemoveFacts ==
  ASSUME NEW S, NEW s \in Seq(S), NEW i \in 1 .. Len(s)
  PROVE  /\ RemoveAt(s, i) \in Seq(S)
         /\ Len(RemoveAt(s, i)) = Len(s) - 1
         /\ Once(s) => /\ Listed(RemoveAt(s, i)) = Listed(s) \ {s[i]}
                       /\ Once(RemoveAt(s, i))
<1> DEFINE r == RemoveAt(s, i)
<1> DEFINE front == SubSeq(s, 1, i - 1)
<1> DEFINE back == SubSeq(s, i + 1, Len(s))
<1>1. /\ front \in Seq(S) /\ Len(front) = i - 1
      /\ back \in Seq(S) /\ Len(back) = Len(s) - i
      /\ \A k \in 1 .. i - 1 : front[k] = s[k]
      /\ \A k \in 1 .. Len(s) - i : back[k] = s[i + k]
  OBVIOUS
<1>2. r = front \o back
  BY DEF RemoveAt
<1>3. /\ r \in Seq(S) /\ Len(r) = Len(s) - 1
      /\ \A k \in 1 .. Len(s) - 1 : r[k] = IF k < i THEN s[k] ELSE s[k + 1]
  <2> HIDE DEF front, back, r
  <2>1. r \in Seq(S) /\ Len(r) = Len(s) - 1
    BY <1>1, <1>2
  <2>2. ASSUME NEW k \in 1 .. Len(s) - 1
        PROVE  r[k] = IF k < i THEN s[k] ELSE s[k + 1]
    <3>1. CASE k < i
      BY <1>1, <1>2, <3>1
    <3>2. CASE ~(k < i)
      <4>1. k - (i - 1) \in 1 .. Len(s) - i /\ i + (k - (i - 1)) = k + 1
        BY <3>2
      <4>2. r[k] = back[k - (i - 1)]
        BY <1>1, <1>2, <3>2
      <4> QED BY <4>1, <4>2, <1>1, <3>2
    <3> QED BY <3>1, <3>2
  <2> QED BY <2>1, <2>2
<1> HIDE DEF r, front, back
<1>4. ASSUME Once(s) PROVE Listed(r) = Listed(s) \ {s[i]}
  <2>1. ASSUME NEW x \in Listed(r) PROVE x \in Listed(s) /\ x # s[i]
    <3>1. PICK k \in 1 .. Len(s) - 1 : x = r[k]
      BY <1>3 DEF Listed
    <3>2. CASE k < i
      <4>1. x = s[k] /\ k \in 1 .. Len(s) /\ k # i
        BY <3>1, <3>2, <1>3
      <4> QED BY <4>1, <1>4 DEF Listed, Once
    <3>3. CASE ~(k < i)
      <4>1. x = s[k + 1] /\ k + 1 \in 1 .. Len(s) /\ k + 1 # i
        BY <3>1, <3>3, <1>3
      <4> QED BY <4>1, <1>4 DEF Listed, Once
    <3> QED BY <3>2, <3>3
  <2>2. ASSUME NEW x \in Listed(s), x # s[i] PROVE x \in Listed(r)
    <3>1. PICK k \in 1 .. Len(s) : x = s[k]
      BY DEF Listed
    <3>2. k # i
      BY <3>1, <2>2
    <3>3. CASE k < i
      <4>1. k \in 1 .. Len(s) - 1 /\ r[k] = x
        BY <3>1, <3>3, <1>3
      <4> QED BY <4>1, <1>3 DEF Listed
    <3>4. CASE k > i
      <4>1. k - 1 \in 1 .. Len(s) - 1 /\ ~(k - 1 < i) /\ k - 1 + 1 = k
        BY <3>4
      <4>2. r[k - 1] = x
        BY <4>1, <3>1, <1>3
      <4> QED BY <4>1, <4>2, <1>3 DEF Listed
    <3> QED BY <3>2, <3>3, <3>4
  <2> QED BY <2>1, <2>2
<1>5. ASSUME Once(s) PROVE Once(r)
  <2> SUFFICES ASSUME NEW j \in 1 .. Len(s) - 1, NEW k \in 1 .. Len(s) - 1, r[j] = r[k]
               PROVE  j = k
    BY <1>3 DEF Once
  <2> DEFINE old(n) == IF n < i THEN n ELSE n + 1
  <2>1. old(j) \in 1 .. Len(s) /\ old(k) \in 1 .. Len(s)
    OBVIOUS
  <2>2. s[old(j)] = s[old(k)]
    BY <1>3
  <2>3. old(j) = old(k)
    BY <2>1, <2>2, <1>5 DEF Once
  <2> QED BY <2>3
<1> QED BY <1>3, <1>4, <1>5 DEF r

-----------------------------------------------------------------------------
LEMMA InitIInv == Init => IInv
<1> SUFFICES ASSUME Init PROVE IInv
  OBVIOUS
<1>1. Listed(alloced_mems) = {} /\ Once(alloced_mems)
  BY DEF Init, Listed, Once
<1>2. scan \in [ptr : Addresses \union {None}, at : Nat \ {0}] /\ alloced_mems \in Seq(Addresses)
  BY DEF Init, NoScan
<1>4. TypeOK
  BY <1>2 DEF Init, TypeOK
<1>3. Orderly
  BY <1>1 DEF Init, Orderly
<1> QED BY <1>4, <1>3 DEF IInv

(* The types.                                                              *)
LEMMA TypeStep ==
  ASSUME TypeOK, [Next]_vars
  PROVE  TypeOK'
<1> USE DEF TypeOK
<1>1. ASSUME NEW a \in Addresses, Myalloc(a) PROVE TypeOK'
  BY <1>1, AppendFacts DEF Myalloc, Registered
<1>2. ASSUME NEW a \in Addresses, Myfree(a) PROVE TypeOK'
  BY <1>2 DEF Myfree
<1>3. ASSUME NEW a \in Addresses, FreeString(a) PROVE TypeOK'
  BY <1>3 DEF FreeString
<1>3a. ASSUME NEW p \in Addresses, NEW a \in Addresses, Realloc(p, a) PROVE TypeOK'
  <2>1. bypassed' \in BOOLEAN
    BY <1>3a, Zenon DEF Realloc
  <2> QED BY <1>3a, <2>1 DEF Realloc
<1>4. ASSUME NEW a \in Addresses, Malloc(a) PROVE TypeOK'
  BY <1>4 DEF Malloc
<1>5. ASSUME NEW a \in Addresses, Free(a) PROVE TypeOK'
  BY <1>5 DEF Free
<1>6. CASE ScanPast
  BY <1>6 DEF ScanPast
<1>7. CASE ScanHit
  <2>1. scan.at \in 1 .. Len(alloced_mems)
    BY <1>7 DEF ScanHit
  <2>2. alloced_mems' \in Seq(Addresses)
    BY <1>7, <2>1, RemoveFacts DEF ScanHit, Unlisted
  <2>3. wild' \in BOOLEAN
    BY <1>7, Zenon DEF ScanHit
  <2> QED BY <1>7, <2>2, <2>3 DEF ScanHit
<1>8. CASE ScanEnd
  BY <1>8 DEF ScanEnd, NoScan
<1>9. CASE CleanUp
  BY <1>9 DEF CleanUp
<1>13. CASE FreeRest
  BY <1>13 DEF FreeRest
<1>10. CASE RestNext
  <2>1. left' \in Nat /\ scan' \in [ptr : Addresses \union {None}, at : Nat \ {0}]
    BY <1>10 DEF RestNext, LeftAfter
  <2>2. wild' \in BOOLEAN
    BY <1>10, Zenon DEF RestNext
  <2> QED BY <1>10, <2>1, <2>2 DEF RestNext
<1>11. CASE RestEnd
  BY <1>11 DEF RestEnd
<1>12. CASE UNCHANGED vars
  BY <1>12 DEF vars
<1> QED
  BY <1>1, <1>2, <1>3, <1>3a, <1>4, <1>5, <1>6, <1>7, <1>8, <1>9, <1>10, <1>11, <1>12,
     <1>13 DEF Next

(* Every step of the allocator and of its callers keeps the list orderly.  *)
LEMMA OrderlyStep ==
  ASSUME TypeOK, TypeOK', Orderly, ~bypassed', [Next]_vars
  PROVE  Orderly'
<1>0. TypeOK /\ Orderly
  OBVIOUS
<1>1. ASSUME NEW a \in Addresses, Myalloc(a) PROVE Orderly'
  <2>1. a \notin Listed(alloced_mems) /\ a \notin raw
    BY <1>0, <1>1 DEF Myalloc, Orderly
  <2>2. /\ Listed(alloced_mems') = Listed(alloced_mems) \union {a}
        /\ Once(alloced_mems')
    BY <1>0, <1>1, <2>1, AppendFacts DEF Myalloc, Registered, Orderly, TypeOK
  <2>3. phase' = "work" /\ live' = live \union {a} /\ held' = held \union {a}
        /\ raw' = raw /\ wild' = wild /\ scan' = scan /\ scan.ptr = None
    BY <1>1 DEF Myalloc, Idle
  <2>4. held' \subseteq Listed(alloced_mems') \ {scan'.ptr}
    BY <1>0, <2>2, <2>3, NoneAssumption DEF Orderly
  <2> QED BY <1>0, <2>1, <2>2, <2>3, <2>4 DEF Orderly
<1>2. ASSUME NEW a \in Addresses, Myfree(a) PROVE Orderly'
  BY <1>0, <1>2 DEF Myfree, Orderly
<1>3. ASSUME NEW a \in Addresses, FreeString(a) PROVE Orderly'
  BY <1>3 DEF FreeString
<1>3a. ASSUME NEW p \in Addresses, NEW a \in Addresses, Realloc(p, a) PROVE Orderly'
  <2>1. a = p /\ p \in held
    BY <1>3a DEF Realloc
  <2>2. p \in live
    BY <1>0, <2>1 DEF Orderly
  <2>3. live' = live /\ held' = held
    BY <1>3a, <2>1, <2>2 DEF Realloc
  <2>4. UNCHANGED <<phase, alloced_mems, raw, scan, left, wild>>
    BY <1>3a DEF Realloc
  <2> QED BY <1>0, <2>3, <2>4 DEF Orderly, Ahead, Behind, Idle
<1>4. ASSUME NEW a \in Addresses, Malloc(a) PROVE Orderly'
  BY <1>0, <1>4 DEF Malloc, Orderly
<1>5. ASSUME NEW a \in Addresses, Free(a) PROVE Orderly'
  BY <1>0, <1>5 DEF Free, Orderly
<1>6. CASE ScanPast
  <2>1. /\ alloced_mems' = alloced_mems /\ phase' = phase /\ left' = left
        /\ live' = live /\ raw' = raw /\ held' = held /\ wild' = wild
        /\ scan'.ptr = scan.ptr /\ scan'.at = scan.at + 1
        /\ scan.at <= Len(alloced_mems) /\ alloced_mems[scan.at] # scan.ptr /\ scan.ptr # None
    BY <1>0, <1>6 DEF ScanPast, Scanning, TypeOK
  <2>2. Ahead => Ahead'
    BY <1>0, <2>1 DEF Ahead, TypeOK
  <2>3. Behind => Behind'
    BY <2>1 DEF Behind, Idle
  <2>4. ~Idle'
    BY <2>1 DEF Idle
  <2> QED BY <1>0, <2>1, <2>2, <2>3, <2>4 DEF Orderly
<1>7. CASE ScanHit
  <2>1. /\ scan.at \in 1 .. Len(alloced_mems) /\ alloced_mems[scan.at] = scan.ptr
        /\ phase' = phase /\ left' = left /\ raw' = raw /\ held' = held
        /\ scan'.ptr = scan.ptr /\ scan.ptr # None
        /\ live' = live \ {scan.ptr} /\ wild' = (wild \/ scan.ptr \notin live)
        /\ alloced_mems' = RemoveAt(alloced_mems, scan.at)
    BY <1>0, <1>7 DEF ScanHit, Scanning, TypeOK, Unlisted
  <2>2. scan.ptr \in Listed(alloced_mems)
    BY <2>1 DEF Listed
  <2>3. /\ Len(alloced_mems') = Len(alloced_mems) - 1
        /\ Listed(alloced_mems') = Listed(alloced_mems) \ {scan.ptr}
        /\ Once(alloced_mems')
    BY <1>0, <2>1, RemoveFacts DEF Orderly, TypeOK
  <2>4. scan.ptr \notin held'
    <3>1. scan.ptr \notin held
      BY <1>0 DEF Orderly
    <3> QED BY <3>1, <2>1
  <2>7. Ahead \/ Behind => Behind'
    <3>1. ~Behind
      BY <2>1, <2>2 DEF Behind, Idle
    <3>2. Ahead => left' = Len(alloced_mems')
      BY <1>0, <2>1, <2>3 DEF Ahead, TypeOK
    <3>3. scan'.ptr \notin Listed(alloced_mems')
      BY <2>1, <2>3
    <3> QED BY <3>1, <3>2, <3>3 DEF Behind
  <2>8. phase = "rest" => Behind'
    BY <1>0, <2>7 DEF Orderly
  <2>9. ~Idle' /\ phase # "done"
    BY <1>0, <2>1, <2>2 DEF Idle, Orderly
  <2> QED BY <1>0, <2>1, <2>2, <2>3, <2>4, <2>8, <2>9 DEF Orderly
<1>8. CASE ScanEnd
  <2>1. /\ alloced_mems' = alloced_mems /\ phase' = phase /\ left' = left
        /\ live' = live /\ raw' = raw /\ held' = held /\ wild' = wild
        /\ scan'.ptr = None /\ scan.at > Len(alloced_mems) /\ ~wild
    BY <1>8 DEF ScanEnd, NoScan, Scanning
  <2>2. ~Ahead
    BY <1>0, <2>1 DEF Ahead, TypeOK
  <2>3. Behind => Behind'
    BY <2>1 DEF Behind, Idle
  <2>4. None \notin Listed(alloced_mems)
    BY <1>0, NoneAssumption DEF TypeOK, Listed
  <2>5. Behind => ~Ahead'
    BY <1>0, <2>1 DEF Ahead, Behind, TypeOK
  <2> QED BY <1>0, <2>1, <2>2, <2>3, <2>4, <2>5 DEF Orderly
<1>9. CASE CleanUp
  BY <1>0, <1>9 DEF CleanUp, Orderly
<1>10. CASE FreeRest
  BY <1>0, <1>10 DEF FreeRest, Orderly, Behind, Ahead, Idle, TypeOK
<1>11. CASE RestNext
  <2>0. left \in 1 .. Len(alloced_mems)
    BY <1>0, <1>11 DEF RestNext, Orderly, Ahead, Behind, Idle, TypeOK
  <2>1. /\ phase = "rest" /\ phase' = "rest" /\ scan.ptr = None /\ ~wild
        /\ left \in 1 .. Len(alloced_mems) /\ left' = left - 1
        /\ alloced_mems' = alloced_mems /\ live' = live /\ raw' = raw /\ ~wild'
        /\ held' = held \ {alloced_mems[left]}
        /\ scan'.ptr = alloced_mems[left] /\ scan'.at = 1
    BY <1>11, <2>0 DEF RestNext, LeftAfter, Idle
  <2>2. left = Len(alloced_mems)
    BY <1>0, <2>1 DEF Orderly, Ahead, Behind, Idle
  <2>3. Ahead'
    BY <1>0, <2>1, <2>2 DEF Ahead, TypeOK
  <2>4. ~Idle'
    BY <1>0, <2>1, NoneAssumption DEF Idle, TypeOK
  <2>5. held' \subseteq Listed(alloced_mems') \ {scan'.ptr}
    BY <1>0, <2>1 DEF Orderly
  <2>6. Once(alloced_mems') /\ live' = Listed(alloced_mems') \union raw'
        /\ Listed(alloced_mems') \intersect raw' = {} /\ ~wild'
    BY <1>0, <2>1 DEF Orderly
  <2> QED BY <2>1, <2>3, <2>4, <2>5, <2>6 DEF Orderly
<1>12. CASE RestEnd
  BY <1>0, <1>12 DEF RestEnd, Orderly, Ahead, Behind, Idle, Listed, Once, TypeOK
<1>13. CASE UNCHANGED vars
  BY <1>0, <1>13 DEF vars, Orderly, Ahead, Behind, Idle
<1> QED
  BY <1>1, <1>2, <1>3, <1>3a, <1>4, <1>5, <1>6, <1>7, <1>8, <1>9, <1>10, <1>11, <1>12, <1>13
     DEF Next

THEOREM Orderliness == Spec => []IInv
<1>1. IInv /\ [Next]_vars => IInv'
  <2> SUFFICES ASSUME IInv, [Next]_vars PROVE IInv'
    OBVIOUS
  <2>1. TypeOK'
    BY TypeStep DEF IInv
  <2>2. ~bypassed' => ~bypassed
    BY DEF IInv, Next, vars, Myalloc, Myfree, FreeString, Realloc, Malloc, Free, ScanPast, ScanHit,
           ScanEnd, CleanUp, FreeRest, RestNext, RestEnd
  <2>3. ~bypassed' => Orderly'
    BY <2>1, <2>2, OrderlyStep DEF IInv
  <2> QED BY <2>1, <2>3 DEF IInv
<1> QED BY InitIInv, <1>1, PTL DEF Spec

(* The state stays well-formed: the loop of free_rest does not run below   *)
(* the first entry (utils.c:205).                                          *)
THEOREM HeapTypeCorrect == Spec => []TypeOK
<1>1. IInv => TypeOK
  BY DEF IInv
<1> QED BY <1>1, Orderliness, PTL

(* As long as no listed block goes past the list, no block is freed twice  *)
(* and free_rest reads no entry that is gone, for any number of blocks and *)
(* any order of the calls (utils.c:193-210).                               *)
THEOREM NeverFreedTwice == Spec => []NoWildFree
<1>1. IInv => NoWildFree
  BY DEF IInv, Orderly, NoWildFree
<1> QED BY <1>1, Orderliness, PTL

(* What the compiler holds is not freed by the myfree of something else.   *)
THEOREM HeldStayLive == Spec => []HeldAreLive
<1>1. IInv => HeldAreLive
  BY DEF IInv, Orderly, HeldAreLive
<1> QED BY <1>1, Orderliness, PTL

(* When free_rest is through, every block of myalloc has gone back.        *)
THEOREM NothingOfMyallocLeft == Spec => []NothingLeft
<1>1. IInv => NothingLeft
  BY DEF IInv, Orderly, NothingLeft
<1> QED BY <1>1, Orderliness, PTL
=============================================================================
