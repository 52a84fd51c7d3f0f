------------------------------ MODULE RegAlloc ------------------------------
(***************************************************************************)
(* Register allocation while one translation unit is turned into assembly. *)
(*                                                                         *)
(* The code generators evaluate expressions with one temporary per node,   *)
(* so the temporaries that hold a value not yet used form a stack.  An     *)
(* action is one node of gen_node (intercode.c) with the CODE_FREEs that   *)
(* process_intercode puts behind the last use of its operands, as the      *)
(* CODE_ALLOC_TMP and CODE_FREE cases of amd64_translate carry them out.   *)
(* Operands of one instruction are freed last allocated first.             *)
(***************************************************************************)
EXTENDS TmpTable, FiniteSets

CONSTANTS
  RegNum,      \* the count of registers that CODE_ALLOC_TMP offers
  TableRegs,   \* the length of the register table the index is used with
  TableCap,    \* the first capacity of the table of temporaries (6)
  FrameCap,    \* the first capacity of a stack frame's list (10)
  Word,        \* the bytes of a register
  Sizes,       \* the sizes of operands
  Params,      \* the possible lists of names of a function's locals
  Ops,         \* the kinds of node the program is built from
  MaxTmp,      \* bound of the model: temporaries in the unit
  MaxPending   \* bound of the model: temporaries waiting at one time

ASSUME RegNumAssumption == RegNum \in Nat \ {0}
ASSUME TableRegsAssumption == TableRegs \in Nat
ASSUME CapAssumption == TableCap \in Nat /\ FrameCap \in Nat
ASSUME ParamsAssumption == \A names \in Params : Len(names) \in Nat
ASSUME SizesAssumption == Sizes \subseteq Nat /\ Word \in Sizes
ASSUME MaxTmpAssumption == MaxTmp \in Nat \ {0}

VARIABLES
  table,       \* tmpvar_table of amd64_gen
  frame,       \* current_sf of amd64_translate
  next,        \* TMPVAR_ALLOC of intercode.c
  pending,     \* the waiting temporaries, each with the home it was given
  mine         \* history: the locals of this function and their offsets

vars == <<table, frame, next, pending, mine>>

-----------------------------------------------------------------------------
\* CODE_ALLOC_TMP: a register for a temporary of at most a word, and stack
\* space when there is none.
GetsReg(tab, tmp, size) == size <= Word /\ AllocReg(tab, tmp, RegNum) # NoReg
AllocTmp(tab, sf, tmp, size) ==
  IF GetsReg(tab, tmp, size)
  THEN [table |-> TmpvAllocReg(tab, tmp, RegNum), frame |-> sf]
  ELSE TmpvAllocStack(tab, sf, tmp, size)
\* Mutant of Home: -1 of tmpv_alloc_reg taken for a register.
HomeAlwaysReg(tab, sf, tmp, size) ==
  [tmp |-> tmp, size |-> size, onstack |-> 0, loc |-> AllocReg(tab, tmp, RegNum)]

Home(tab, sf, tmp, size) ==
  [tmp |-> tmp, size |-> size,
   onstack |-> IF GetsReg(tab, tmp, size) THEN 0 ELSE 1,
   loc |-> IF GetsReg(tab, tmp, size) THEN AllocReg(tab, tmp, RegNum)
           ELSE GrowStack(sf, size)]

\* CODE_FREE of the last waiting temporary, and of the last two, the last
\* allocated first.
FreeLast(tab, sf) == FreeTmpvar(tab, sf, pending[Len(pending)].tmp)
FreeTwo(tab, sf) ==
  LET last == FreeLast(tab, sf)
  IN  FreeTmpvar(last.table, last.frame, pending[Len(pending) - 1].tmp)

\* The unit begins with _start, whose temporary for main's result is freed
\* before any other is allocated: a unit whose globals have no initial value.
Started ==
  LET to == AllocTmp(ListCreate(TableCap), CreateStackframe(FrameCap), 0, Word)
  IN  FreeTmpvar(to.table, to.frame, 0)

\* The first function, one without locals, has been entered.
Init ==
  /\ table = Started.table
  /\ frame = Started.frame
  /\ next = 1
  /\ pending = <<>>
  /\ mine = <<>>

-----------------------------------------------------------------------------
Waiting(n) == Len(pending) >= n
Rest(n) == SubSeq(pending, 1, Len(pending) - n)
Fresh == next < MaxTmp

\* An identifier, constant, array element, array or object: a new operand.
Leaf(size) ==
  /\ "leaf" \in Ops
  /\ Fresh
  /\ Len(pending) < MaxPending
  /\ LET to == AllocTmp(table, frame, next, size)
     IN  table' = to.table /\ frame' = to.frame
  /\ pending' = Append(pending, Home(table, frame, next, size))
  /\ next' = next + 1
  /\ UNCHANGED mine

\* TWOOP_INTERCODE: the result is allocated while both operands are alive.
BinaryOp ==
  /\ "binary" \in Ops
  /\ Fresh
  /\ Waiting(2)
  /\ LET to == AllocTmp(table, frame, next, Word)
         at == FreeTwo(to.table, to.frame)
     IN  table' = at.table /\ frame' = at.frame
  /\ pending' = Append(Rest(2), Home(table, frame, next, Word))
  /\ next' = next + 1
  /\ UNCHANGED mine

\* CMP_INTERCODE: the operands are compared, and freed, before the result is
\* allocated.
Compare ==
  /\ "compare" \in Ops
  /\ Fresh
  /\ Waiting(2)
  /\ LET at == FreeTwo(table, frame)
         to == AllocTmp(at.table, at.frame, next, Word)
     IN  /\ table' = to.table /\ frame' = to.frame
         /\ pending' = Append(Rest(2), Home(at.table, at.frame, next, Word))
  /\ next' = next + 1
  /\ UNCHANGED mine

\* The last use of a value: an assignment, a pushed argument, a condition.
Use ==
  /\ "use" \in Ops
  /\ Waiting(1)
  /\ LET at == FreeLast(table, frame)
     IN  table' = at.table /\ frame' = at.frame
  /\ pending' = Rest(1)
  /\ UNCHANGED <<next, mine>>

\* CODE_DEF_FUNC_END clears the frame, and the next CODE_DEF_FUNC adds the
\* locals of its function; between statements no temporary waits.
NextFunction(names) ==
  /\ "function" \in Ops
  /\ pending = <<>>
  /\ frame' = AddLocals(ClearStack(frame), names, Word)
  /\ mine' = [i \in 1 .. Len(names) |-> [name |-> names[i], loc |-> i * Word]]
  /\ UNCHANGED <<table, next, pending>>

Next ==
  \/ \E size \in Sizes : Leaf(size)
  \/ BinaryOp
  \/ Compare
  \/ Use
  \/ \E names \in Params : NextFunction(names)

Spec == Init /\ [][Next]_vars

-----------------------------------------------------------------------------
TypeOK ==
  /\ table.cap \in Nat /\ frame.locals.cap \in Nat /\ frame.end \in Nat
  /\ \A i \in 1 .. Len(table.items) : OnStack(table.items[i]) \in {0, 1}
  /\ next \in 0 .. MaxTmp
  /\ \A i \in 1 .. Len(pending) :
       pending[i] \in [tmp : 0 .. MaxTmp, size : Sizes,
                       onstack : {0, 1}, loc : Nat]

Homes == {pending[i] : i \in 1 .. Len(pending)}
InRegister == {h \in Homes : h.onstack = 0}
Spilled == {h \in Homes : h.onstack = 1}

\* "the index of register in the register table" (asmgen.h:8): a register that
\* tmpv_alloc_reg hands out has a name in the table that format_operand
\* (amd64.c:24) looks it up in.
RegInTable == \A h \in InRegister : h.loc < TableRegs

\* A resize of the table has cleared no entry of it.  Up to two waiting values
\* are safe from that: with the result of their node they fill the room for
\* three that _start leaves of the six of amd64.c:415.
NoneErased == Intact(table)

\* The entry of every waiting value is in the table, unchanged, and no entry
\* is left of a value that is gone.
AllFound ==
  /\ \A h \in Homes :
       \E i \in 1 .. Len(table.items) :
         /\ Tmp(table.items[i]) = h.tmp
         /\ OnStack(table.items[i]) = h.onstack
         /\ Loc(table.items[i]) = h.loc
  /\ Len(table.items) = Len(pending)

\* "tmpvar used before alloced" (amd64.c:29) has one cause: a resize of the
\* table.  Until one clears an entry, free_tmpvar has removed the right ones
\* and every waiting value is found again where it was put.
EntriesAreHomes == NoneErased => AllFound

\* "this register is already allocated" (asmgen.c:18): as long as the table is
\* intact, a register is given to one waiting value at a time.
NoSharedRegister ==
  AllFound => \A h, g \in InRegister : h.loc = g.loc => h = g

\* The stack bytes of two spilled values, or of a spilled value and a local,
\* never overlap, though values are freed in any order and the frame never
\* shrinks (asmgen.c:148-151, 194-212).
Bytes(loc, size) == loc - size + 1 .. loc
SlotsDisjoint ==
  /\ \A h \in Spilled : h.loc <= frame.end
  /\ \A h, g \in Spilled :
       h # g => Bytes(h.loc, h.size) \intersect Bytes(g.loc, g.size) = {}
  /\ \A h \in Spilled, i \in 1 .. Len(mine) :
       Bytes(h.loc, h.size) \intersect Bytes(mine[i].loc, Word) = {}
=============================================================================
