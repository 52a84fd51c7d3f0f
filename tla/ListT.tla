------------------------------- MODULE ListT -------------------------------
(***************************************************************************)
(* The growable array list_t of utils.c, as a record of its capacity and   *)
(* of the elements in use (items[i+1] is the element at C index i).  Every *)
(* table of the compiler is such a list: tokens, syntax nodes, symbols,    *)
(* types, intermediate codes, register and frame slots, assembly lines.    *)
(*                                                                         *)
(* The file has the list twice: mem_list_xxx moves the array with realloc, *)
(* list_xxx with myrealloc, which frees the block and returns a new one    *)
(* that is all zero.  KeepsContents says which of the two is meant.        *)
(*                                                                         *)
(* The operators are the whole calls; their assert()s are the caller's     *)
(* obligation and are stated by CanInsert, CanRemove and CanSwap.          *)
(***************************************************************************)
EXTENDS Integers, Sequences, SequencesExt

CONSTANTS
  KeepsContents,  \* TRUE: mem_list_xxx (realloc); FALSE: list_xxx (myrealloc)
  Zero            \* the element that a block of zero bytes is read as

ASSUME KeepsContentsAssumption == KeepsContents \in BOOLEAN

\* list_create: a capacity of 0 is turned into 1.
ListCreate(capacity) ==
  [cap |-> IF capacity = 0 THEN 1 ELSE capacity, items |-> <<>>]

\* What the move to a block of another size leaves of the elements.
Moved(items) ==
  IF KeepsContents THEN items ELSE [i \in 1 .. Len(items) |-> Zero]

\* Mutant of InBlock: every append moves the block, full or not.
InBlockAlways(l, capacity) == Moved(l.items)

\* The elements that sit in the block when it has to become capacity long.
InBlock(l, capacity) == IF capacity = l.cap THEN l.items ELSE Moved(l.items)

\* Mutant of AppendCap: the list grows one append too late.
AppendCapLate(l) == IF Len(l.items) > l.cap THEN 2 * l.cap ELSE l.cap

AppendCap(l) == IF Len(l.items) = l.cap THEN 2 * l.cap ELSE l.cap
ListAppend(l, e) ==
  [cap |-> AppendCap(l), items |-> Append(InBlock(l, AppendCap(l)), e)]

\* Inserts before position; it grows one element early, and cannot insert at
\* the end.
\* Mutant of CanInsert: nor before the last element.
CanInsertNotLast(l, position) == position < Len(l.items) - 1
CanInsert(l, position) == position < Len(l.items)
InsertCap(l) == IF l.cap <= Len(l.items) + 1 THEN 2 * l.cap ELSE l.cap
ListInsert(l, position, e) ==
  [cap   |-> InsertCap(l),
   items |-> InsertAt(InBlock(l, InsertCap(l)), position + 1, e)]

\* Removes first and shrinks afterwards, on the length before the removal.
CanRemove(l, index) == index < Len(l.items)
\* Mutants of RemoveCap: the block shrinks one removal early; the block is
\* cut to what is in use.
RemoveCapEager(l) ==
  IF Len(l.items) <= l.cap \div 2 + 1 THEN l.cap \div 2 ELSE l.cap
RemoveCapToFit(l) ==
  IF Len(l.items) < l.cap \div 2 THEN Len(l.items) - 2 ELSE l.cap

RemoveCap(l) == IF Len(l.items) < l.cap \div 2 THEN l.cap \div 2 ELSE l.cap
\* Mutant of ListRemove: the tail is not moved down over the removed element.
ListRemoveLast(l, index) == [l EXCEPT !.items = Front(@)]

ListRemove(l, index) ==
  [cap   |-> RemoveCap(l),
   items |-> LET rest == RemoveAt(l.items, index + 1)
             IN  IF RemoveCap(l) = l.cap THEN rest ELSE Moved(rest)]

CanSwap(l, pos1, pos2) == pos1 < Len(l.items) /\ pos2 < Len(l.items)
ListSwap(l, pos1, pos2) ==
  [l EXCEPT !.items = [@ EXCEPT ![pos1 + 1] = l.items[pos2 + 1],
                                ![pos2 + 1] = l.items[pos1 + 1]]]

\* list_copy: a block of the source's size, whose bytes are copied before the
\* caller's callback gives each cell its own copy of what the element points to.
ListCopy(dest, src) == [dest EXCEPT !.cap = src.cap, !.items = src.items]

\* No element is one that a resize has cleared.
Intact(l) == \A i \in 1 .. Len(l.items) : l.items[i] # Zero

\* free_list leaves capacity 0: the list may be read as empty, and an append
\* to it would "double" 0 and write past the block.
ListFreed == [cap |-> 0, items |-> <<>>]
=============================================================================
