------------------------------ MODULE TmpTable ------------------------------
(***************************************************************************)
(* asmgen.c: where the temporaries of the intermediate code live.          *)
(*                                                                         *)
(* The table is a list_t of tmpvar_alloc_info_t: the index of a temporary, *)
(* whether it is on the stack, and, in one C union, the register's index   *)
(* or the stack offset ("loc").  The stack frame counts the bytes in use   *)
(* below rbp and keeps a list_t of the named locals and of the spilled     *)
(* temporaries.  Flags are the C integers 0 and 1, a name of 0 is a NULL   *)
(* varname.data.                                                           *)
(***************************************************************************)
EXTENDS ListT

ASSUME ZeroAssumption == Zero \notin [tmp : Nat, onstack : {0, 1}, loc : Nat]

\* A cell zeroed by a resize reads 0 in every field.
Field(cell, f) == IF cell = Zero THEN 0 ELSE cell[f]

Tmp(cell) == Field(cell, "tmp")
OnStack(cell) == Field(cell, "onstack")
Loc(cell) == Field(cell, "loc")

InReg(tmp, reg) == [tmp |-> tmp, onstack |-> 0, loc |-> reg]
InSlot(tmp, offset) == [tmp |-> tmp, onstack |-> 1, loc |-> offset]

\* The first index of the list whose cell passes the test, 0 if none does:
\* the for loops over list_get that return from their first hit.
FirstCell(l, Test(_)) == SelectInSeq(l.items, Test)

\* The entry of a temporary.
EntryOf(table, tmp) == FirstCell(table, LAMBDA cell : Tmp(cell) = tmp)
HasEntry(table, tmp) ==
  \E i \in 1 .. Len(table.items) : Tmp(table.items[i]) = tmp

\* The scan of tmpv_alloc_reg starts at register 0 and moves on by one when it
\* meets an entry with that register: it passes register n when the numbers
\* 0 .. n occur in this order among the table's entries.
PassesInOrder(items, n) ==
  \E at \in [0 .. n - 1 -> 1 .. Len(items)] :
    /\ \A k \in 0 .. n - 1 : Loc(items[at[k]]) = k
    /\ \A j, k \in 0 .. n - 1 : j < k => at[j] < at[k]

ScanStop(items) ==
  CHOOSE n \in 0 .. Len(items) :
    PassesInOrder(items, n) /\ ~PassesInOrder(items, n + 1)

\* The same scan as the loop of the code runs it (reference for ScanStop).
ScanPass(toalloc, cell) == IF Loc(cell) = toalloc THEN toalloc + 1 ELSE toalloc
ScanLoop(items) == FoldLeft(ScanPass, 0, items)

\* -1 of the code: the temporary has an entry, or the scan stopped at the
\* number of registers.
NoReg == -1
\* Mutant of AllocReg: the scan does not stop at the number of registers.
AllocRegUnchecked(table, tmp, regNum) ==
  IF HasEntry(table, tmp) THEN NoReg ELSE ScanStop(table.items)

AllocReg(table, tmp, regNum) ==
  IF HasEntry(table, tmp) \/ ScanStop(table.items) = regNum
  THEN NoReg ELSE ScanStop(table.items)
TmpvAllocReg(table, tmp, regNum) ==
  IF AllocReg(table, tmp, regNum) = NoReg
  THEN table
  ELSE ListAppend(table, InReg(tmp, AllocReg(table, tmp, regNum)))

\* The answer of is_reg_used.
IsRegUsed(table, reg) ==
  \E i \in 1 .. Len(table.items) :
    OnStack(table.items[i]) = 0 /\ Loc(table.items[i]) = reg

-----------------------------------------------------------------------------
LocalCell(name, offset, size) ==
  [istmp |-> 0, offset |-> offset, size |-> size, tmp |-> 0, name |-> name]
SpillCell(tmp, offset, size) ==
  [istmp |-> 1, offset |-> offset, size |-> size, tmp |-> tmp, name |-> 0]

CreateStackframe(capacity) == [end |-> 0, locals |-> ListCreate(capacity)]

\* grow_stack returns the new end: a variable lies at [rbp-end].
GrowStack(sf, size) == sf.end + size

\* add_local for every name of a function, each of the same size.
NamedLocals(sf, names, size) ==
  FoldLeft(ListAppend, sf.locals,
           [i \in 1 .. Len(names) |->
              LocalCell(names[i], sf.end + i * size, size)])
AddLocals(sf, names, size) ==
  [end    |-> GrowStack(sf, Len(names) * size),
   locals |-> NamedLocals(sf, names, size)]

\* get_local_offset compares names with strcmp from the first cell on; a cell
\* without a name (a spilled temporary, or a zeroed cell) met before a hit is
\* a strcmp on NULL.
NotFound == -1
NullName == -2
Nameless(cell) == Field(cell, "istmp") = 1 \/ cell = Zero
LocalOffset(sf, name) ==
  LET hit == FirstCell(sf.locals, LAMBDA cell : Nameless(cell) \/ Field(cell, "name") = name)
  IN  IF hit = 0 THEN NotFound
      ELSE IF Nameless(sf.locals.items[hit]) THEN NullName
      ELSE sf.locals.items[hit].offset

StackframeAddTmpvar(sf, tmp, size) ==
  [end    |-> GrowStack(sf, size),
   locals |-> ListAppend(sf.locals, SpillCell(tmp, GrowStack(sf, size), size))]

\* Mutant of StackframeRemoveTmpvar: the frame gives the bytes back.
StackframeRemoveShrinks(sf, tmp) ==
  LET hit == FirstCell(sf.locals, LAMBDA cell : Field(cell, "tmp") = tmp)
  IN  IF hit = 0 THEN sf
      ELSE [end    |-> sf.end - Field(sf.locals.items[hit], "size"),
            locals |-> ListRemove(sf.locals, hit - 1)]

\* stackframe_remove_tmpvar looks at tmpvar_index only, not at is_tmpvar, and
\* gives no bytes of the frame back.
StackframeRemoveTmpvar(sf, tmp) ==
  LET hit == FirstCell(sf.locals, LAMBDA cell : Field(cell, "tmp") = tmp)
  IN  IF hit = 0 THEN sf
      ELSE [end |-> sf.end, locals |-> ListRemove(sf.locals, hit - 1)]

TmpvarOffset(sf, tmp) ==
  LET hit == FirstCell(sf.locals, LAMBDA cell : /\ Field(cell, "istmp") = 1
                                                /\ Field(cell, "tmp") = tmp)
  IN  IF hit = 0 THEN NotFound ELSE sf.locals.items[hit].offset

\* The loop of clear_stack counts i up while the list shrinks: the i-th pass
\* removes the cell at len-1-i and the loop ends when i reaches the length.
ClearPass(locals, i) ==
  IF i < Len(locals.items)
  THEN ListRemove(locals, Len(locals.items) - 1 - i) ELSE locals
ClearLocals(list) ==
  FoldLeft(ClearPass, list, [k \in 1 .. Len(list.items) |-> k - 1])
ClearStack(sf) == [end |-> 0, locals |-> ClearLocals(sf.locals)]

-----------------------------------------------------------------------------
\* tmpv_alloc_stack: nothing at all for a temporary that has an entry.
TmpvAllocStack(table, sf, tmp, size) ==
  IF HasEntry(table, tmp) THEN [table |-> table, frame |-> sf]
  ELSE LET grown == StackframeAddTmpvar(sf, tmp, size)
       IN  [table |-> ListAppend(table, InSlot(tmp, grown.end)),
            frame |-> grown]

\* Mutant of FreeTmpvar: the entry of a spilled temporary stays.
FreeTmpvarKeepsSpilled(table, sf, tmp) ==
  LET hit == EntryOf(table, tmp)
  IN  IF hit = 0 THEN [table |-> table, frame |-> sf]
      ELSE IF OnStack(table.items[hit]) = 1
      THEN [table |-> table, frame |-> StackframeRemoveTmpvar(sf, tmp)]
      ELSE [table |-> ListRemove(table, hit - 1), frame |-> sf]

\* free_tmpvar: the entry goes, and with it the frame's cell of a spilled one.
FreeTmpvar(table, sf, tmp) ==
  LET hit == EntryOf(table, tmp)
  IN  IF hit = 0 THEN [table |-> table, frame |-> sf]
      ELSE [table |-> ListRemove(table, hit - 1),
            frame |-> IF OnStack(table.items[hit]) = 1
                      THEN StackframeRemoveTmpvar(sf, tmp) ELSE sf]
=============================================================================
