--------------------------- MODULE GrowListProofs ---------------------------
(***************************************************************************)
(* The lists of utils.c, for every element set and every capacity: the     *)
(* elements stay inside the block, a cell is what was stored or zero,      *)
(* nothing is lost between two resizes, and the realloc variant is the     *)
(* sequence utils.h promises.                                              *)
(***************************************************************************)
EXTENDS GrowList, ListTProofs

\* A list that is not freed has room for its elements; a freed one is empty.
Shape ==
  \/ list \in Usable(Cell)
  \/ list = ListFreed

\* The inductive invariant: FitsBlock needs a capacity that is not 0, which
\* only Shape excludes, and ZeroOrStored needs the lengths to agree.
IInv ==
  /\ Shape
  /\ stored \in Seq(Elements)
  /\ last \in {"fresh", "freed", "same", "grew", "shrank"}
  /\ ZeroOrStored

(* A list just created is usable and empty.                                *)
LEMMA CreateFacts == ListCreate(InitCap) \in Usable(Cell)
                     /\ ListCreate(InitCap).items = << >>
BY InitCapAssumption DEF ListCreate, Usable

(* Live distinguishes the two shapes.                                      *)
LEMMA LiveUsable == Shape /\ Live => list \in Usable(Cell)
BY DEF Shape, Live, ListFreed

(* The invariant implies the three properties that the runs check.         *)
LEMMA IInvImplies == IInv => TypeOK /\ FitsBlock /\ ZeroOrStored
<1> SUFFICES ASSUME IInv PROVE TypeOK /\ FitsBlock
  BY DEF IInv
<1>1. CASE list \in Usable(Cell)
  BY <1>1 DEF IInv, TypeOK, FitsBlock, Usable
<1>2. CASE list = ListFreed
  BY <1>2 DEF IInv, TypeOK, FitsBlock, ListFreed
<1> QED BY <1>1, <1>2 DEF IInv, Shape

(* The initial state has the invariant.                                    *)
LEMMA InitIInv == Init => IInv
BY CreateFacts DEF Init, IInv, Shape, ZeroOrStored

(* append keeps the invariant, and loses nothing unless it grows the block *)
(* of a list_xxx.                                                          *)
LEMMA AppendStep ==
  ASSUME IInv, NEW e \in Elements, DoAppend(e)
  PROVE  /\ IInv'
         /\ KeepsContents \/ list'.cap = list.cap
              => list'.items = Append(list.items, e)
<1>1. /\ list \in Usable(Cell) /\ Zero \in Cell /\ e \in Cell
      /\ stored \in Seq(Elements) /\ Len(stored) = Len(list.items)
      /\ \A k \in 1 .. Len(stored) : list.items[k] \in {stored[k], Zero}
  BY LiveUsable DEF IInv, DoAppend, Cell, ZeroOrStored
<1>2. list' = ListAppend(list, e) /\ stored' = Append(stored, e)
  BY DEF DoAppend
<1>3. /\ list' \in Usable(Cell)
      /\ Len(list'.items) = Len(list.items) + 1
      /\ list'.items[Len(list.items) + 1] = e
      /\ \A k \in 1 .. Len(list.items) : list'.items[k] \in {list.items[k], Zero}
      /\ KeepsContents \/ list'.cap = list.cap
           => list'.items = Append(list.items, e)
  BY <1>1, <1>2, ListAppendFacts
<1>4. /\ stored' \in Seq(Elements) /\ Len(stored') = Len(stored) + 1
      /\ stored'[Len(stored) + 1] = e
      /\ \A k \in 1 .. Len(stored) : stored'[k] = stored[k]
  BY <1>1, <1>2
<1>5. ZeroOrStored'
  BY <1>1, <1>3, <1>4 DEF ZeroOrStored
<1>6. last' \in {"fresh", "freed", "same", "grew", "shrank"}
  BY DEF DoAppend, BlockChange
<1> QED BY <1>3, <1>4, <1>5, <1>6 DEF IInv, Shape

(* insert keeps the invariant.                                             *)
LEMMA InsertStep ==
  ASSUME IInv, NEW p \in Index, NEW e \in Elements, DoInsert(p, e)
  PROVE  /\ IInv'
         /\ KeepsContents \/ list'.cap = list.cap
              => list'.items = InsertAt(list.items, p + 1, e)
<1> DEFINE n == Len(stored)
           q == p + 1
           s == list.items
<1>1. /\ list \in Usable(Cell) /\ Zero \in Cell /\ e \in Cell
      /\ stored \in Seq(Elements) /\ n = Len(s) /\ s \in Seq(Cell)
      /\ \A k \in 1 .. n : s[k] \in {stored[k], Zero}
      /\ n \in Nat /\ p \in Nat /\ q \in 1 .. n
  BY LiveUsable DEF IInv, DoInsert, Cell, ZeroOrStored, Index, CanInsert, Usable
<1>2. list' = ListInsert(list, p, e) /\ stored' = InsertAt(stored, q, e)
  BY DEF DoInsert
<1>3. /\ list' \in Usable(Cell)
      /\ Len(list'.items) = Len(list.items) + 1
      /\ \A k \in 1 .. Len(list.items) + 1 :
           list'.items[k] \in {InsertAt(list.items, p + 1, e)[k], Zero}
      /\ KeepsContents \/ list'.cap = list.cap
           => list'.items = InsertAt(list.items, p + 1, e)
  <2>1. CanInsert(list, p)
    BY DEF DoInsert
  <2> QED BY <1>1, <1>2, <2>1, ListInsertFacts
<1> HIDE DEF n, q, s
<1>4. /\ stored' \in Seq(Elements) /\ Len(stored') = n + 1
      /\ \A k \in 1 .. q - 1 : stored'[k] = stored[k]
      /\ stored'[q] = e
      /\ \A k \in q .. n : stored'[k + 1] = stored[k]
  <2>1. stored \in Seq(Elements) /\ e \in Elements /\ q \in 1 .. Len(stored)
    BY <1>1 DEF n
  <2>2. /\ InsertAt(stored, q, e) \in Seq(Elements)
        /\ Len(InsertAt(stored, q, e)) = Len(stored) + 1
        /\ \A k \in 1 .. q - 1 : InsertAt(stored, q, e)[k] = stored[k]
        /\ InsertAt(stored, q, e)[q] = e
        /\ \A k \in q .. Len(stored) : InsertAt(stored, q, e)[k + 1] = stored[k]
    BY <2>1, InsertAtFacts
  <2> QED BY <1>2, <2>2 DEF n
<1>5. /\ \A k \in 1 .. q - 1 : InsertAt(s, q, e)[k] = s[k]
      /\ InsertAt(s, q, e)[q] = e
      /\ \A k \in q .. n : InsertAt(s, q, e)[k + 1] = s[k]
  <2>1. s \in Seq(Cell) /\ e \in Cell /\ q \in 1 .. Len(s)
    BY <1>1
  <2>2. /\ \A k \in 1 .. q - 1 : InsertAt(s, q, e)[k] = s[k]
        /\ InsertAt(s, q, e)[q] = e
        /\ \A k \in q .. Len(s) : InsertAt(s, q, e)[k + 1] = s[k]
    BY <2>1, InsertAtFacts
  <2> QED BY <1>1, <2>2
<1>6. ASSUME NEW k \in 1 .. n + 1
      PROVE  list'.items[k] \in {stored'[k], Zero}
  <2>1. list'.items[k] \in {InsertAt(s, q, e)[k], Zero}
    BY <1>1, <1>3 DEF n, q, s
  <2>2. CASE k < q
    <3>1. k \in 1 .. q - 1 /\ k \in 1 .. n
      BY <1>1, <2>2
    <3> QED BY <1>1, <1>4, <1>5, <2>1, <3>1
  <2>3. CASE k = q
    BY <1>4, <1>5, <2>1, <2>3
  <2>4. CASE k > q
    <3> DEFINE j == k - 1
    <3>1. j \in q .. n /\ j \in 1 .. n /\ k = j + 1
      BY <1>1, <2>4
    <3> HIDE DEF j
    <3> QED BY <1>1, <1>4, <1>5, <2>1, <3>1
  <2> QED BY <1>1, <2>2, <2>3, <2>4
<1>7. ZeroOrStored'
  BY <1>1, <1>3, <1>4, <1>6 DEF ZeroOrStored, n, s
<1>8. last' \in {"fresh", "freed", "same", "grew", "shrank"}
  BY DEF DoInsert, BlockChange
<1> QED BY <1>3, <1>4, <1>7, <1>8 DEF IInv, Shape

(* remove keeps the invariant.                                             *)
LEMMA RemoveStep ==
  ASSUME IInv, NEW i \in Index, DoRemove(i)
  PROVE  /\ IInv'
         /\ KeepsContents \/ list'.cap = list.cap
              => list'.items = RemoveAt(list.items, i + 1)
<1> DEFINE n == Len(stored)
           q == i + 1
           s == list.items
<1>1. /\ list \in Usable(Cell) /\ Zero \in Cell
      /\ stored \in Seq(Elements) /\ n = Len(s) /\ s \in Seq(Cell)
      /\ \A k \in 1 .. n : s[k] \in {stored[k], Zero}
      /\ n \in Nat /\ i \in Nat /\ q \in 1 .. n
  BY LiveUsable DEF IInv, DoRemove, Cell, ZeroOrStored, Index, CanRemove, Usable
<1>2. list' = ListRemove(list, i) /\ stored' = RemoveAt(stored, q)
  BY DEF DoRemove
<1>3. /\ list' \in Usable(Cell)
      /\ Len(list'.items) = Len(list.items) - 1
      /\ \A k \in 1 .. Len(list.items) - 1 :
           list'.items[k] \in {RemoveAt(list.items, i + 1)[k], Zero}
      /\ KeepsContents \/ list'.cap = list.cap
           => list'.items = RemoveAt(list.items, i + 1)
  <2>1. CanRemove(list, i)
    BY DEF DoRemove
  <2> QED BY <1>1, <1>2, <2>1, ListRemoveFacts
<1> HIDE DEF n, q, s
<1>4. /\ stored' \in Seq(Elements) /\ Len(stored') = n - 1
      /\ \A k \in 1 .. n - 1 : stored'[k] = IF k < q THEN stored[k] ELSE stored[k + 1]
  BY <1>1, <1>2, RemoveAtFacts DEF n
<1>5. \A k \in 1 .. n - 1 : RemoveAt(s, q)[k] = IF k < q THEN s[k] ELSE s[k + 1]
  BY <1>1, RemoveAtFacts
<1>6. ASSUME NEW k \in 1 .. n - 1
      PROVE  list'.items[k] \in {stored'[k], Zero}
  <2>1. list'.items[k] \in {RemoveAt(s, q)[k], Zero}
    BY <1>1, <1>3 DEF n, q, s
  <2>2. k \in 1 .. n /\ k + 1 \in 1 .. n
    BY <1>1
  <2> QED BY <1>1, <1>4, <1>5, <2>1, <2>2
<1>7. ZeroOrStored'
  BY <1>1, <1>3, <1>4, <1>6 DEF ZeroOrStored, n, s
<1>8. last' \in {"fresh", "freed", "same", "grew", "shrank"}
  BY DEF DoRemove, BlockChange
<1> QED BY <1>3, <1>4, <1>7, <1>8 DEF IInv, Shape

(* swap keeps the invariant and is never a resize.                         *)
LEMMA SwapStep ==
  ASSUME IInv, NEW i \in Index, NEW j \in Index, DoSwap(i, j)
  PROVE  /\ IInv'
         /\ list'.items = [list.items EXCEPT ![i + 1] = list.items[j + 1],
                                             ![j + 1] = list.items[i + 1]]
<1>1. /\ list \in Usable(Cell) /\ list.items \in Seq(Cell)
      /\ stored \in Seq(Elements) /\ Len(stored) = Len(list.items)
      /\ \A k \in 1 .. Len(stored) : list.items[k] \in {stored[k], Zero}
      /\ i + 1 \in 1 .. Len(stored) /\ j + 1 \in 1 .. Len(stored)
  BY LiveUsable DEF IInv, DoSwap, Cell, ZeroOrStored, Index, CanSwap, Usable
<1>2. /\ list' = [list EXCEPT !.items =
                   [list.items EXCEPT ![i + 1] = list.items[j + 1],
                                      ![j + 1] = list.items[i + 1]]]
      /\ stored' = [stored EXCEPT ![i + 1] = stored[j + 1],
                                  ![j + 1] = stored[i + 1]]
  BY DEF DoSwap, ListSwap
<1>3. /\ list' \in Usable(Cell) /\ Len(list'.items) = Len(list.items)
      /\ list'.items = [list.items EXCEPT ![i + 1] = list.items[j + 1],
                                          ![j + 1] = list.items[i + 1]]
  <2> DEFINE x == [list.items EXCEPT ![i + 1] = list.items[j + 1],
                                     ![j + 1] = list.items[i + 1]]
  <2>1. x \in Seq(Cell) /\ Len(x) = Len(list.items)
    BY <1>1
  <2> HIDE DEF x
  <2>2. list' = [list EXCEPT !.items = x]
    BY <1>2 DEF x
  <2>3. list' \in Usable(Cell) /\ list'.items = x
    BY <1>1, <2>1, <2>2 DEF Usable
  <2> QED BY <2>1, <2>3 DEF x
<1>4. stored' \in Seq(Elements) /\ Len(stored') = Len(stored)
  BY <1>1, <1>2
<1>5. ZeroOrStored'
  BY <1>1, <1>2, <1>3, <1>4 DEF ZeroOrStored
<1>6. last' \in {"fresh", "freed", "same", "grew", "shrank"}
  BY DEF DoSwap, BlockChange
<1> QED BY <1>3, <1>4, <1>5, <1>6 DEF IInv, Shape

(* A copy of the list onto itself is the list.                             *)
LEMMA CopyStep ==
  ASSUME IInv, DoCopy
  PROVE  list' = list /\ stored' = stored /\ IInv'
<1>1. list \in Usable(Cell)
  BY LiveUsable DEF IInv, DoCopy
<1>2. list' = list
  BY <1>1 DEF DoCopy, ListCopy, Usable
<1>3. stored' = stored /\ last' \in {"fresh", "freed", "same", "grew", "shrank"}
  BY DEF DoCopy, BlockChange
<1> QED BY <1>2, <1>3 DEF IInv, Shape, ZeroOrStored

(* Every call keeps the invariant.                                         *)
LEMMA NextIInv == IInv /\ [Next]_vars => IInv'
<1> SUFFICES ASSUME IInv, [Next]_vars PROVE IInv'
  OBVIOUS
<1>1. ASSUME NEW e \in Elements, DoAppend(e) PROVE IInv'
  BY <1>1, AppendStep
<1>2. ASSUME NEW p \in Index, NEW e \in Elements, DoInsert(p, e) PROVE IInv'
  BY <1>2, InsertStep
<1>3. ASSUME NEW i \in Index, DoRemove(i) PROVE IInv'
  BY <1>3, RemoveStep
<1>4. ASSUME NEW i \in Index, NEW j \in Index, DoSwap(i, j) PROVE IInv'
  BY <1>4, SwapStep
<1>5. CASE DoFree
  BY <1>5 DEF DoFree, IInv, Shape, ZeroOrStored, ListFreed
<1>6. CASE DoInit
  BY <1>6, CreateFacts DEF DoInit, IInv, Shape, ZeroOrStored
<1>7. CASE DoCopy
  BY <1>7, CopyStep
<1>8. CASE UNCHANGED vars
  BY <1>8 DEF vars, IInv, Shape, ZeroOrStored
<1> QED BY <1>1, <1>2, <1>3, <1>4, <1>5, <1>6, <1>7, <1>8 DEF Next

(* The elements of every list stay inside its block, and every cell is the *)
(* element stored at its place or zero (utils.c:84-134).                   *)
THEOREM ListSafety == Spec => [](TypeOK /\ FitsBlock /\ ZeroOrStored)
BY InitIInv, NextIInv, IInvImplies, PTL DEF Spec

(* The same, one property at a time: the list, what its caller stored and  *)
(* the last change of the block have their types,                          *)
THEOREM ListTypes == Spec => []TypeOK
BY ListSafety, PTL

(* and a cell never shows an element at another's place: it is the element *)
(* stored there, or zero after a resize (utils.c:84-134).                  *)
THEOREM CellsZeroOrStored == Spec => []ZeroOrStored
BY ListSafety, PTL

-----------------------------------------------------------------------------
(* A call that leaves the capacity alone treats the list as a sequence: it *)
(* loses nothing (utils.c:84-134).                                         *)
THEOREM NothingLostBetweenResizes == Spec => LossOnlyAtResize
<1>1. IInv /\ [Next]_vars => [LosesNothing]_vars
  <2> SUFFICES ASSUME IInv, Next, list'.cap = list.cap, list.items = stored
              PROVE  list'.items = stored'
    BY DEF LosesNothing
  <2>1. ASSUME NEW e \in Elements, DoAppend(e) PROVE list'.items = stored'
    BY <2>1, AppendStep DEF DoAppend
  <2>2. ASSUME NEW p \in Index, NEW e \in Elements, DoInsert(p, e)
        PROVE  list'.items = stored'
    BY <2>2, InsertStep DEF DoInsert
  <2>3. ASSUME NEW i \in Index, DoRemove(i) PROVE list'.items = stored'
    BY <2>3, RemoveStep DEF DoRemove
  <2>4. ASSUME NEW i \in Index, NEW j \in Index, DoSwap(i, j)
        PROVE  list'.items = stored'
    BY <2>4, SwapStep DEF DoSwap
  <2>5. CASE DoFree
    BY <2>5 DEF DoFree, ListFreed
  <2>6. CASE DoInit
    BY <2>6, CreateFacts DEF DoInit
  <2>7. CASE DoCopy
    BY <2>7, CopyStep
  <2> QED BY <2>1, <2>2, <2>3, <2>4, <2>5, <2>6, <2>7 DEF Next
<1> QED BY <1>1, InitIInv, NextIInv, PTL DEF Spec, LossOnlyAtResize

-----------------------------------------------------------------------------
(* With realloc (the mem_list_xxx of utils.c:11-67, behind the table of    *)
(* allocated blocks) the list is the sequence of utils.h:27-32.            *)
THEOREM MemListImplementsSequence ==
  ASSUME KeepsContents
  PROVE  Spec => ImplementsSequence
<1>1. Init => Promise!Init
  BY CreateFacts DEF Init, Promise!Init
<1>2. IInv /\ [Next]_vars => [Promise!Next]_(list.items)
  <2> SUFFICES ASSUME IInv, Next PROVE Promise!Next \/ UNCHANGED list.items
    BY DEF vars
  <2>1. ASSUME NEW e \in Elements, DoAppend(e) PROVE Promise!Next
    BY <2>1, AppendStep, KeepsContents DEF Promise!Next, Promise!DoAppend
  <2>2. ASSUME NEW p \in Index, NEW e \in Elements, DoInsert(p, e)
        PROVE  Promise!Next
    BY <2>2, InsertStep, KeepsContents
       DEF Promise!Next, Promise!DoInsert, Promise!Index, Index,
           Promise!InsertAt, InsertAt
  <2>3. ASSUME NEW i \in Index, DoRemove(i) PROVE Promise!Next
    BY <2>3, RemoveStep, KeepsContents
       DEF Promise!Next, Promise!DoRemove, Promise!Index, Index,
           Promise!RemoveAt, RemoveAt
  <2>4. ASSUME NEW i \in Index, NEW j \in Index, DoSwap(i, j)
        PROVE  Promise!Next
    BY <2>4, SwapStep DEF Promise!Next, Promise!DoSwap, Promise!Index, Index
  <2>5. CASE DoFree
    BY <2>5 DEF DoFree, ListFreed, Promise!Next, Promise!DoClear
  <2>6. CASE DoInit
    BY <2>6, CreateFacts DEF DoInit, Promise!Next, Promise!DoClear
  <2>7. CASE DoCopy
    BY <2>7, CopyStep
  <2> QED BY <2>1, <2>2, <2>3, <2>4, <2>5, <2>6, <2>7 DEF Next
<1> QED BY <1>1, <1>2, InitIInv, NextIInv, PTL
        DEF Spec, ImplementsSequence, Promise!Spec

-----------------------------------------------------------------------------
\* How far the length is from both thresholds after a resize.
Slack ==
  /\ last = "grew" => list.cap \div 2 <= Len(list.items)
  /\ last = "shrank" => Len(list.items) + 2 <= list.cap

(* A resize leaves that much room.                                         *)
LEMMA NextSlack == IInv /\ Slack /\ [Next]_vars => Slack'
<1> SUFFICES ASSUME IInv, Slack, [Next]_vars PROVE Slack'
  OBVIOUS
<1>1. ASSUME NEW e \in Elements, DoAppend(e) PROVE Slack'
  <2>1. list \in Usable(Cell) /\ Zero \in Cell /\ e \in Cell
    BY <1>1, LiveUsable DEF IInv, DoAppend, Cell
  <2>2. list' = ListAppend(list, e) /\ list'.cap = AppendCap(list)
    BY <1>1 DEF DoAppend, ListAppend
  <2>3. Len(list'.items) = Len(list.items) + 1
    BY <2>1, <2>2, ListAppendFacts
  <2> QED BY <1>1, <2>1, <2>2, <2>3
          DEF DoAppend, BlockChange, AppendCap, Slack, Usable
<1>2. ASSUME NEW p \in Index, NEW e \in Elements, DoInsert(p, e) PROVE Slack'
  <2>1. /\ list \in Usable(Cell) /\ Zero \in Cell /\ e \in Cell
        /\ p \in Nat /\ CanInsert(list, p)
    BY <1>2, LiveUsable DEF IInv, DoInsert, Cell, Index
  <2>2. list' = ListInsert(list, p, e) /\ list'.cap = InsertCap(list)
    BY <1>2 DEF DoInsert, ListInsert
  <2>3. Len(list'.items) = Len(list.items) + 1
    BY <2>1, <2>2, ListInsertFacts
  <2> QED BY <1>2, <2>1, <2>2, <2>3
          DEF DoInsert, BlockChange, InsertCap, Slack, Usable
<1>3. ASSUME NEW i \in Index, DoRemove(i) PROVE Slack'
  <2>1. /\ list \in Usable(Cell) /\ Zero \in Cell
        /\ i \in Nat /\ CanRemove(list, i)
    BY <1>3, LiveUsable DEF IInv, DoRemove, Cell, Index
  <2>2. list' = ListRemove(list, i) /\ list'.cap = RemoveCap(list)
    BY <1>3 DEF DoRemove, ListRemove
  <2>3. Len(list'.items) = Len(list.items) - 1
    BY <2>1, <2>2, ListRemoveFacts
  <2> QED BY <1>3, <2>1, <2>2, <2>3
          DEF DoRemove, BlockChange, RemoveCap, Slack, Usable
<1>4. ASSUME NEW i \in Index, NEW j \in Index, DoSwap(i, j) PROVE Slack'
  <2>1. list'.cap = list.cap /\ list \in Usable(Cell)
    BY <1>4, LiveUsable DEF IInv, DoSwap, ListSwap, Usable
  <2> QED BY <1>4, <2>1 DEF DoSwap, BlockChange, Usable, Slack
<1>5. CASE DoFree
  BY <1>5 DEF DoFree, Slack
<1>6. CASE DoInit
  BY <1>6 DEF DoInit, Slack
<1>7. CASE DoCopy
  <2>1. list' = list
    BY <1>7, CopyStep
  <2>2. list.cap \in Nat
    BY <1>7, LiveUsable DEF IInv, DoCopy, Usable
  <2> QED BY <1>7, <2>1, <2>2 DEF DoCopy, BlockChange, Slack
<1>8. CASE UNCHANGED vars
  BY <1>8 DEF vars, Slack
<1> QED BY <1>1, <1>2, <1>3, <1>4, <1>5, <1>6, <1>7, <1>8 DEF Next

(* No call undoes the resize of the call before it (utils.c:86, 110, 129). *)
THEOREM ResizesDoNotThrash == Spec => NoThrash
<1>1. Init => Slack
  BY DEF Init, Slack
<1>2. IInv /\ Slack /\ [Next]_vars => [KeepsDirection]_vars
  <2> SUFFICES ASSUME IInv, Slack, Next PROVE KeepsDirection
    OBVIOUS
  <2>1. ASSUME NEW e \in Elements, DoAppend(e) PROVE KeepsDirection
    <3>1. list \in Usable(Cell) /\ list'.cap = AppendCap(list)
      BY <2>1, LiveUsable DEF IInv, DoAppend, ListAppend
    <3> QED BY <2>1, <3>1
            DEF DoAppend, BlockChange, AppendCap, Slack, Usable, KeepsDirection
  <2>2. ASSUME NEW p \in Index, NEW e \in Elements, DoInsert(p, e)
        PROVE  KeepsDirection
    <3>1. list \in Usable(Cell) /\ list'.cap = InsertCap(list)
      BY <2>2, LiveUsable DEF IInv, DoInsert, ListInsert
    <3> QED BY <2>2, <3>1
            DEF DoInsert, BlockChange, InsertCap, Slack, Usable, KeepsDirection
  <2>3. ASSUME NEW i \in Index, DoRemove(i) PROVE KeepsDirection
    <3>1. list \in Usable(Cell) /\ list'.cap = RemoveCap(list)
      BY <2>3, LiveUsable DEF IInv, DoRemove, ListRemove
    <3> QED BY <2>3, <3>1
            DEF DoRemove, BlockChange, RemoveCap, Slack, Usable, KeepsDirection
  <2>4. ASSUME NEW i \in Index, NEW j \in Index, DoSwap(i, j)
        PROVE  KeepsDirection
    <3>1. list'.cap = list.cap /\ list \in Usable(Cell)
      BY <2>4, LiveUsable DEF IInv, DoSwap, ListSwap, Usable
    <3> QED BY <2>4, <3>1 DEF DoSwap, BlockChange, Usable, KeepsDirection
  <2>5. CASE DoFree \/ DoInit
    BY <2>5 DEF DoFree, DoInit, KeepsDirection
  <2>6. CASE DoCopy
    <3>1. list' = list
      BY <2>6, CopyStep
    <3>2. list.cap \in Nat
      BY <2>6, LiveUsable DEF IInv, DoCopy, Usable
    <3> QED BY <2>6, <3>1, <3>2 DEF DoCopy, BlockChange, KeepsDirection
  <2> QED BY <2>1, <2>2, <2>3, <2>4, <2>5, <2>6 DEF Next
<1> QED BY <1>1, <1>2, InitIInv, NextIInv, NextSlack, PTL DEF Spec, NoThrash
=============================================================================
