------------------------------ MODULE GrowList ------------------------------
(***************************************************************************)
(* The life of one list_t: any caller's sequence of create, append,        *)
(* insert, remove, swap, copy, free and init_list calls that respects the        *)
(* assert()s of utils.c.  "stored" is a history variable: the sequence the *)
(* caller has built, whatever the block really holds.                      *)
(***************************************************************************)
EXTENDS ListT

CONSTANTS
  Elements,       \* what callers store
  InitCap,        \* the capacity the owner of the list creates it with
  MaxLen          \* bound of the model: no call makes the list longer

ASSUME ElementsAssumption == Zero \notin Elements
ASSUME InitCapAssumption == InitCap \in Nat
ASSUME MaxLenAssumption == MaxLen \in Nat

VARIABLES
  list,           \* the list_t
  stored,         \* history: what the caller has stored in it
  last            \* history: what the last call did to the block

vars == <<list, stored, last>>

Init ==
  /\ list = ListCreate(InitCap)
  /\ stored = <<>>
  /\ last = "fresh"

Live == list.cap # 0

BlockChange ==
  last' = IF list'.cap > list.cap THEN "grew"
          ELSE IF list'.cap < list.cap THEN "shrank" ELSE "same"

DoAppend(e) ==
  /\ Live
  /\ Len(list.items) < MaxLen
  /\ list' = ListAppend(list, e)
  /\ stored' = Append(stored, e)
  /\ BlockChange

DoInsert(position, e) ==
  /\ Live
  /\ CanInsert(list, position)
  /\ Len(list.items) < MaxLen
  /\ list' = ListInsert(list, position, e)
  /\ stored' = InsertAt(stored, position + 1, e)
  /\ BlockChange

DoRemove(index) ==
  /\ Live
  /\ CanRemove(list, index)
  /\ list' = ListRemove(list, index)
  /\ stored' = RemoveAt(stored, index + 1)
  /\ BlockChange

DoSwap(pos1, pos2) ==
  /\ Live
  /\ CanSwap(list, pos1, pos2)
  /\ list' = ListSwap(list, pos1, pos2)
  /\ stored' = [stored EXCEPT ![pos1 + 1] = stored[pos2 + 1],
                              ![pos2 + 1] = stored[pos1 + 1]]
  /\ BlockChange

\* list_copy of the list onto itself, its only use (sematic.c:698).
DoCopy ==
  /\ Live
  /\ list' = ListCopy(list, list)
  /\ UNCHANGED stored
  /\ BlockChange

\* free_list
DoFree ==
  /\ Live
  /\ list' = ListFreed
  /\ stored' = <<>>
  /\ last' = "freed"

\* init_list "will ignore the previous data of the initialized list".
DoInit ==
  /\ list' = ListCreate(InitCap)
  /\ stored' = <<>>
  /\ last' = "fresh"

Index == 0 .. Len(list.items) - 1

Next ==
  \/ \E e \in Elements : DoAppend(e)
  \/ \E position \in Index, e \in Elements : DoInsert(position, e)
  \/ \E index \in Index : DoRemove(index)
  \/ \E pos1, pos2 \in Index : DoSwap(pos1, pos2)
  \/ DoCopy
  \/ DoFree
  \/ DoInit

Spec == Init /\ [][Next]_vars

-----------------------------------------------------------------------------
Cell == Elements \union {Zero}

\* The list record, the history and the kind of the last block change have
\* their types.
TypeOK ==
  /\ list \in [cap : Nat, items : Seq(Cell)]
  /\ stored \in Seq(Elements)
  /\ last \in {"fresh", "freed", "same", "grew", "shrank"}

\* The elements always fit in the block: no append, insert (which moves the
\* tail one up) or shrink of utils.c:84-134 leaves an element outside it.
FitsBlock == Len(list.items) <= list.cap

\* Whatever the resizes did, a cell is the element stored at that place or
\* all zero: the list never shows an element at another's place, and its
\* length is right (list_append to list_remove, utils.c:84-134).
ZeroOrStored ==
  /\ Len(list.items) = Len(stored)
  /\ \A i \in 1 .. Len(stored) : list.items[i] \in {stored[i], Zero}

\* Contents are lost only by a call that changes the capacity: between two
\* resizes the list is the sequence its caller built.
LosesNothing ==
  list.cap' = list.cap /\ list.items = stored => list.items' = stored'
LossOnlyAtResize == [][LosesNothing]_vars

\* The grow and shrink thresholds leave room between them: the call after a
\* growth never shrinks the block and the call after a shrink never grows it
\* (the conditions of utils.c:86, 110 and 129 taken together).
KeepsDirection ==
  /\ last = "grew" => last' # "shrank"
  /\ last = "shrank" => last' # "grew"
NoThrash == [][KeepsDirection]_vars

\* The list is the sequence that utils.h promises.
Promise == INSTANCE Sequence WITH seq <- list.items
ImplementsSequence == Promise!Spec
=============================================================================
