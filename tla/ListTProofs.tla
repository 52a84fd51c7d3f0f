---------------------------- MODULE ListTProofs ----------------------------
(***************************************************************************)
(* What the list_t operators of ListT return, for all lists.  The proofs   *)
(* about the modules that keep their state in lists cite these lemmas.     *)
(***************************************************************************)
EXTENDS ListT, SequenceTheorems, TLAPS

(* Inserting before a valid index yields a sequence one longer: the head,  *)
(* the new element, and the tail moved up by one (the memmove of           *)
(* list_insert, utils.c:115-119).                                          *)
LEMMA InsertAtFacts ==
  ASSUME NEW S, NEW s \in Seq(S), NEW e \in S, NEW i \in 1 .. Len(s)
  PROVE  /\ InsertAt(s, i, e) \in Seq(S)
         /\ Len(InsertAt(s, i, e)) = Len(s) + 1
         /\ \A k \in 1 .. i - 1 : InsertAt(s, i, e)[k] = s[k]
         /\ InsertAt(s, i, e)[i] = e
         /\ \A k \in i .. Len(s) : InsertAt(s, i, e)[k + 1] = s[k]
BY DEF InsertAt

(* Removing a valid index yields a sequence one shorter, the tail moved    *)
(* down by one (the memmove of list_remove, utils.c:126-128).              *)
LEMMA RemoveAtFacts ==
  ASSUME NEW S, NEW s \in Seq(S), NEW i \in 1 .. Len(s)
  PROVE  /\ RemoveAt(s, i) \in Seq(S)
         /\ Len(RemoveAt(s, i)) = Len(s) - 1
         /\ \A k \in 1 .. Len(s) - 1 :
              RemoveAt(s, i)[k] = IF k < i THEN s[k] ELSE s[k + 1]
<1> DEFINE front == SubSeq(s, 1, i - 1)
           rear  == SubSeq(s, i + 1, Len(s))
<1>1. /\ front \in Seq(S) /\ Len(front) = i - 1
      /\ \A k \in 1 .. i - 1 : front[k] = s[k]
  OBVIOUS
<1>2. /\ rear \in Seq(S) /\ Len(rear) = Len(s) - i
      /\ \A k \in 1 .. Len(s) - i : rear[k] = s[i + k]
  OBVIOUS
<1>3. RemoveAt(s, i) = front \o rear
  BY DEF RemoveAt
<1> HIDE DEF front, rear
<1>4. /\ front \o rear \in Seq(S)
      /\ Len(front \o rear) = Len(front) + Len(rear)
      /\ \A k \in 1 .. Len(front) + Len(rear) :
           (front \o rear)[k]
             = IF k <= Len(front) THEN front[k] ELSE rear[k - Len(front)]
  BY <1>1, <1>2, ConcatProperties
<1>5. /\ Len(front) + Len(rear) = Len(s) - 1
      /\ \A k \in 1 .. Len(s) - 1 :
           (front \o rear)[k] = IF k < i THEN s[k] ELSE s[k + 1]
  <2>1. Len(front) + Len(rear) = Len(s) - 1
    BY <1>1, <1>2
  <2>2. ASSUME NEW k \in 1 .. Len(s) - 1, k < i
        PROVE  (front \o rear)[k] = s[k]
    BY <1>1, <1>4, <2>1, <2>2
  <2>3. ASSUME NEW k \in 1 .. Len(s) - 1, ~(k < i)
        PROVE  (front \o rear)[k] = s[k + 1]
    <3>1. /\ (front \o rear)[k] = rear[k - (i - 1)]
          /\ k - (i - 1) \in 1 .. Len(s) - i
      BY <1>1, <1>4, <2>1, <2>3
    <3>2. rear[k - (i - 1)] = s[i + (k - (i - 1))]
      BY <1>2, <3>1
    <3>3. i + (k - (i - 1)) = k + 1
      OBVIOUS
    <3> QED BY <3>1, <3>2, <3>3
  <2> QED BY <2>1, <2>2, <2>3
<1> QED BY <1>3, <1>4, <1>5

-----------------------------------------------------------------------------
(* The lists over S that may be written to: not freed, and inside their    *)
(* block.                                                                  *)
Usable(S) == {l \in [cap : Nat \ {0}, items : Seq(S)] : Len(l.items) <= l.cap}

(* A move of the block keeps the length, and every cell holds what it held *)
(* or zero; nothing changes when the contents are kept.                    *)
LEMMA MovedFacts ==
  ASSUME NEW S, Zero \in S, NEW s \in Seq(S)
  PROVE  /\ Moved(s) \in Seq(S)
         /\ Len(Moved(s)) = Len(s)
         /\ \A k \in 1 .. Len(s) : Moved(s)[k] \in {s[k], Zero}
         /\ KeepsContents => Moved(s) = s
         /\ ~KeepsContents => \A k \in 1 .. Len(s) : Moved(s)[k] = Zero
BY DEF Moved

(* The block that a resize to any capacity leaves.                         *)
LEMMA InBlockFacts ==
  ASSUME NEW S, Zero \in S, NEW l \in Usable(S), NEW c \in Nat
  PROVE  /\ InBlock(l, c) \in Seq(S)
         /\ Len(InBlock(l, c)) = Len(l.items)
         /\ \A k \in 1 .. Len(l.items) :
              InBlock(l, c)[k] \in {l.items[k], Zero}
         /\ KeepsContents \/ c = l.cap => InBlock(l, c) = l.items
BY MovedFacts DEF InBlock, Usable

(* list_append: one longer, still inside the block, the new element last,  *)
(* every other cell unchanged or zero.                                     *)
LEMMA ListAppendFacts ==
  ASSUME NEW S, Zero \in S, NEW l \in Usable(S), NEW e \in S
  PROVE  LET r == ListAppend(l, e)
         IN  /\ r \in Usable(S)
             /\ Len(r.items) = Len(l.items) + 1
             /\ r.items[Len(l.items) + 1] = e
             /\ \A k \in 1 .. Len(l.items) : r.items[k] \in {l.items[k], Zero}
             /\ KeepsContents \/ r.cap = l.cap => r.items = Append(l.items, e)
<1> DEFINE c == AppendCap(l)
           b == InBlock(l, c)
<1>1. /\ l.cap \in Nat \ {0} /\ l.items \in Seq(S) /\ Len(l.items) \in Nat
      /\ Len(l.items) <= l.cap
  BY DEF Usable
<1>2. c \in Nat \ {0} /\ Len(l.items) + 1 <= c
  BY <1>1 DEF AppendCap
<1>3. /\ b \in Seq(S) /\ Len(b) = Len(l.items)
      /\ \A k \in 1 .. Len(l.items) : b[k] \in {l.items[k], Zero}
      /\ KeepsContents \/ c = l.cap => b = l.items
  BY <1>2, InBlockFacts
<1>4. ListAppend(l, e) = [cap |-> c, items |-> Append(b, e)]
  BY DEF ListAppend
<1> HIDE DEF c, b
<1>5. /\ Append(b, e) \in Seq(S) /\ Len(Append(b, e)) = Len(b) + 1
      /\ Append(b, e)[Len(b) + 1] = e
      /\ \A k \in 1 .. Len(b) : Append(b, e)[k] = b[k]
  BY <1>3
<1> QED BY <1>1, <1>2, <1>3, <1>4, <1>5 DEF Usable

(* list_insert: one longer, inside the block, the new element at its       *)
(* position, every other cell the one it was moved from or zero.           *)
LEMMA ListInsertFacts ==
  ASSUME NEW S, Zero \in S, NEW l \in Usable(S), NEW e \in S,
         NEW p \in Nat, CanInsert(l, p)
  PROVE  LET r == ListInsert(l, p, e)
         IN  /\ r \in Usable(S)
             /\ Len(r.items) = Len(l.items) + 1
             /\ \A k \in 1 .. Len(l.items) + 1 :
                  r.items[k] \in {InsertAt(l.items, p + 1, e)[k], Zero}
             /\ KeepsContents \/ r.cap = l.cap
                  => r.items = InsertAt(l.items, p + 1, e)
<1> DEFINE c == InsertCap(l)
           b == InBlock(l, c)
<1>1. /\ l.cap \in Nat \ {0} /\ l.items \in Seq(S) /\ Len(l.items) \in Nat
      /\ Len(l.items) <= l.cap /\ p + 1 \in 1 .. Len(l.items)
  BY DEF Usable, CanInsert
<1>2. c \in Nat \ {0} /\ Len(l.items) + 1 <= c
  BY <1>1 DEF InsertCap
<1>3. /\ b \in Seq(S) /\ Len(b) = Len(l.items)
      /\ \A k \in 1 .. Len(l.items) : b[k] \in {l.items[k], Zero}
      /\ KeepsContents \/ c = l.cap => b = l.items
  BY <1>2, InBlockFacts
<1>4. ListInsert(l, p, e) = [cap |-> c, items |-> InsertAt(b, p + 1, e)]
  BY DEF ListInsert
<1> DEFINE q == p + 1
<1>5. q \in 1 .. Len(l.items)
  BY <1>1
<1> HIDE DEF c, b, q
<1>6. /\ InsertAt(b, q, e) \in Seq(S)
      /\ Len(InsertAt(b, q, e)) = Len(b) + 1
      /\ \A k \in 1 .. q - 1 : InsertAt(b, q, e)[k] = b[k]
      /\ InsertAt(b, q, e)[q] = e
      /\ \A k \in q .. Len(b) : InsertAt(b, q, e)[k + 1] = b[k]
  <2>1. b \in Seq(S) /\ q \in 1 .. Len(b)
    BY <1>3, <1>5
  <2> QED BY <2>1 DEF InsertAt
<1>7. /\ \A k \in 1 .. q - 1 : InsertAt(l.items, q, e)[k] = l.items[k]
      /\ InsertAt(l.items, q, e)[q] = e
      /\ \A k \in q .. Len(l.items) : InsertAt(l.items, q, e)[k + 1] = l.items[k]
  <2> DEFINE s == l.items
  <2>1. s \in Seq(S) /\ q \in 1 .. Len(s)
    BY <1>1, <1>5
  <2> HIDE DEF s
  <2>2. /\ \A k \in 1 .. q - 1 : InsertAt(s, q, e)[k] = s[k]
        /\ InsertAt(s, q, e)[q] = e
        /\ \A k \in q .. Len(s) : InsertAt(s, q, e)[k + 1] = s[k]
    BY <2>1, InsertAtFacts
  <2> QED BY <2>2 DEF s
<1>8. ASSUME NEW k \in 1 .. Len(l.items) + 1
      PROVE  InsertAt(b, q, e)[k] \in {InsertAt(l.items, q, e)[k], Zero}
  <2>1. CASE k < q
    <3>1. k \in 1 .. q - 1 /\ k \in 1 .. Len(l.items)
      BY <1>1, <1>5, <2>1
    <3> QED BY <1>3, <1>6, <1>7, <3>1
  <2>2. CASE k = q
    BY <1>1, <1>3, <1>5, <1>6, <1>7, <2>2
  <2>3. CASE k > q
    <3> DEFINE j == k - 1
    <3>1. j \in q .. Len(l.items) /\ j \in 1 .. Len(l.items) /\ k = j + 1
      BY <1>1, <1>5, <2>3
    <3> HIDE DEF j
    <3>2. /\ InsertAt(b, q, e)[j + 1] = b[j]
          /\ InsertAt(l.items, q, e)[j + 1] = l.items[j]
      BY <1>1, <1>3, <1>6, <1>7, <3>1
    <3> QED BY <1>3, <3>1, <3>2
  <2> QED BY <1>1, <1>5, <2>1, <2>2, <2>3
<1> QED BY <1>1, <1>2, <1>3, <1>4, <1>6, <1>8 DEF Usable, q

(* list_remove: one shorter, inside the possibly halved block, every cell  *)
(* the one it was moved from or zero.                                      *)
LEMMA ListRemoveFacts ==
  ASSUME NEW S, Zero \in S, NEW l \in Usable(S),
         NEW i \in Nat, CanRemove(l, i)
  PROVE  LET r == ListRemove(l, i)
         IN  /\ r \in Usable(S)
             /\ Len(r.items) = Len(l.items) - 1
             /\ \A k \in 1 .. Len(l.items) - 1 :
                  r.items[k] \in {RemoveAt(l.items, i + 1)[k], Zero}
             /\ KeepsContents \/ r.cap = l.cap
                  => r.items = RemoveAt(l.items, i + 1)
<1> DEFINE c == RemoveCap(l)
           rest == RemoveAt(l.items, i + 1)
           b == IF c = l.cap THEN rest ELSE Moved(rest)
<1>1. /\ l.cap \in Nat \ {0} /\ l.items \in Seq(S) /\ Len(l.items) \in Nat
      /\ Len(l.items) <= l.cap /\ i + 1 \in 1 .. Len(l.items)
  BY DEF Usable, CanRemove
<1>2. c \in Nat \ {0} /\ Len(l.items) - 1 <= c
  BY <1>1 DEF RemoveCap
<1>3. /\ rest \in Seq(S) /\ Len(rest) = Len(l.items) - 1
  BY <1>1, RemoveAtFacts
<1>4. ListRemove(l, i) = [cap |-> c, items |-> b]
  BY DEF ListRemove
<1> HIDE DEF c, rest
<1>5. /\ b \in Seq(S) /\ Len(b) = Len(rest)
      /\ \A k \in 1 .. Len(rest) : b[k] \in {rest[k], Zero}
      /\ KeepsContents \/ c = l.cap => b = rest
  BY <1>3, MovedFacts
<1> HIDE DEF b
<1> QED BY <1>1, <1>2, <1>3, <1>4, <1>5 DEF Usable, rest
-----------------------------------------------------------------------------
(* A list that is intact after a call is what it is where nothing is ever  *)
(* cleared.                                                                *)
LEMMA IntactAppend ==
  ASSUME NEW S, Zero \in S, NEW l \in Usable(S), NEW e \in S,
         Intact(ListAppend(l, e))
  PROVE  ListAppend(l, e).items = Append(l.items, e) /\ Intact(l)
<1> DEFINE r == ListAppend(l, e).items
           s == l.items
<1>1. /\ ListAppend(l, e) \in Usable(S)
      /\ Len(r) = Len(s) + 1
      /\ r[Len(s) + 1] = e
      /\ \A k \in 1 .. Len(s) : r[k] \in {s[k], Zero}
  BY ListAppendFacts
<1>2. r \in Seq(S) /\ s \in Seq(S)
  BY <1>1 DEF Usable
<1>3. \A k \in 1 .. Len(r) : r[k] # Zero
  BY DEF Intact
<1> HIDE DEF r, s
<1>4. \A k \in 1 .. Len(s) : r[k] = s[k] /\ s[k] # Zero
  BY <1>1, <1>2, <1>3
<1>5. r = Append(s, e)
  BY <1>1, <1>2, <1>4
<1> QED BY <1>4, <1>5 DEF r, s, Intact

LEMMA IntactRemove ==
  ASSUME NEW S, Zero \in S, NEW l \in Usable(S), NEW i \in Nat, CanRemove(l, i),
         Intact(ListRemove(l, i))
  PROVE  /\ ListRemove(l, i).items = RemoveAt(l.items, i + 1)
         /\ l.items[i + 1] # Zero => Intact(l)
<1> DEFINE r == ListRemove(l, i)
           q == i + 1
           c == RemoveAt(l.items, q)
<1>1. /\ r.items \in Seq(S) /\ l.items \in Seq(S) /\ q \in 1 .. Len(l.items)
      /\ Len(r.items) = Len(l.items) - 1
      /\ \A k \in 1 .. Len(l.items) - 1 : r.items[k] \in {c[k], Zero}
  BY ListRemoveFacts DEF Usable, CanRemove
<1>2. \A k \in 1 .. Len(r.items) : r.items[k] # Zero
  BY DEF Intact
<1>3. /\ c \in Seq(S) /\ Len(c) = Len(l.items) - 1
      /\ \A k \in 1 .. Len(l.items) - 1 :
           c[k] = IF k < q THEN l.items[k] ELSE l.items[k + 1]
  <2> HIDE DEF q
  <2> QED BY <1>1, RemoveAtFacts
<1> HIDE DEF r, c
<1>4. \A k \in 1 .. Len(l.items) - 1 : r.items[k] = c[k] /\ c[k] # Zero
  BY <1>1, <1>2
<1>5. r.items = c
  BY <1>1, <1>3, <1>4
<1>6. ASSUME l.items[q] # Zero, NEW k \in 1 .. Len(l.items) PROVE l.items[k] # Zero
  <2> HIDE DEF q
  <2>1. CASE k < q
    <3>1. k \in 1 .. Len(l.items) - 1 /\ c[k] = l.items[k]
      BY <1>1, <1>3, <2>1
    <3> QED BY <1>4, <3>1
  <2>2. CASE k > q
    <3> DEFINE j == k - 1
    <3>1. j \in 1 .. Len(l.items) - 1 /\ c[j] = l.items[j + 1] /\ j + 1 = k
      BY <1>1, <1>3, <2>2
    <3> QED BY <1>4, <3>1
  <2>3. k = q \/ k < q \/ k > q
    BY <1>1
  <2> QED BY <1>6, <2>1, <2>2, <2>3
<1> QED BY <1>5, <1>6 DEF r, c, Intact

LEMMA IntactInsert ==
  ASSUME NEW S, Zero \in S, NEW l \in Usable(S), NEW e \in S,
         NEW p \in Nat, CanInsert(l, p), Intact(ListInsert(l, p, e))
  PROVE  ListInsert(l, p, e).items = InsertAt(l.items, p + 1, e) /\ Intact(l)
<1> DEFINE r == ListInsert(l, p, e).items
           s == l.items
           q == p + 1
           a == InsertAt(s, q, e)
<1>1. /\ ListInsert(l, p, e) \in Usable(S)
      /\ Len(r) = Len(s) + 1
      /\ \A k \in 1 .. Len(s) + 1 : r[k] \in {a[k], Zero}
  BY ListInsertFacts
<1>2. r \in Seq(S) /\ s \in Seq(S) /\ q \in 1 .. Len(s)
  BY <1>1 DEF Usable, CanInsert
<1>3. \A k \in 1 .. Len(r) : r[k] # Zero
  BY DEF Intact
<1>4. /\ a \in Seq(S) /\ Len(a) = Len(s) + 1
      /\ \A k \in 1 .. q - 1 : a[k] = s[k]
      /\ \A k \in q .. Len(s) : a[k + 1] = s[k]
  <2> HIDE DEF q, s, r
  <2>1. s \in Seq(S) /\ q \in 1 .. Len(s)
    BY <1>2
  <2>2. \A t \in Seq(S) : \A n \in 1 .. Len(t) :
          /\ InsertAt(t, n, e) \in Seq(S) /\ Len(InsertAt(t, n, e)) = Len(t) + 1
          /\ \A k \in 1 .. n - 1 : InsertAt(t, n, e)[k] = t[k]
          /\ \A k \in n .. Len(t) : InsertAt(t, n, e)[k + 1] = t[k]
    <3> TAKE t \in Seq(S)
    <3> TAKE n \in 1 .. Len(t)
    <3> QED BY DEF InsertAt
  <2> QED BY <2>1, <2>2
<1> HIDE DEF r, s, q, a
<1>5. \A k \in 1 .. Len(s) + 1 : r[k] = a[k] /\ a[k] # Zero
  BY <1>1, <1>2, <1>3
<1>6. r = a
  BY <1>1, <1>2, <1>4, <1>5
<1>7. ASSUME NEW k \in 1 .. Len(s) PROVE s[k] # Zero
  <2>1. CASE k < q
    <3>1. k \in 1 .. q - 1 /\ k \in 1 .. Len(s) + 1
      BY <1>2, <2>1
    <3> QED BY <1>4, <1>5, <3>1
  <2>2. CASE k >= q
    <3>1. k \in q .. Len(s) /\ k + 1 \in 1 .. Len(s) + 1
      BY <1>2, <2>2
    <3> QED BY <1>4, <1>5, <3>1
  <2> QED BY <1>2, <2>1, <2>2
<1> QED BY <1>6, <1>7 DEF r, s, q, a, Intact

=============================================================================
