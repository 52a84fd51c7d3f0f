------------------------------- MODULE Amd64 -------------------------------
(***************************************************************************)
(* What the instructions that amd64.c emits do when they run.              *)
(*                                                                         *)
(* Each action is a node of RegAlloc together with the instructions that   *)
(* amd64_translate emits for its intermediate codes, carried out at once:  *)
(* the code between two labels is straight-line, so translating it and     *)
(* running it go hand in hand.  A value is known by the temporary whose    *)
(* node computes it, or by the local that holds it; anything else is Junk. *)
(* Memory is the words around rbp, mem[d] at [rbp-8d], and rsp = d says     *)
(* that the last word pushed is mem[d].                                    *)
(*                                                                         *)
(* The program runs only if the assembler takes it: the instructions used  *)
(* here have at most one memory operand, and one operand at least has to   *)
(* be a register, which tells the size.  A node for which amd64.c emits    *)
(* anything else is disabled (NotInMemory).  An operand whose entry a      *)
(* resize of the table has cleared is formatted as whatever the buffer     *)
(* held; what such a program does is not followed, and the properties are  *)
(* about tables without such an entry (NoneErased).                        *)
(***************************************************************************)
EXTENDS RegAlloc

CONSTANTS
  ArgRegs,     \* the argument registers, as indices of the register table
  Rax, Rdx,    \* the indices of these two registers
  Arities,     \* the counts of arguments that calls have
  ParamCounts, \* the counts of parameters that functions have
  Depth,       \* bound of the model: words of stack below rbp
  Over         \* bound of the model: words above rbp that rsp may reach

ASSUME ArgRegsAssumption ==
  Len(ArgRegs) \in Nat /\ \A i \in 1 .. Len(ArgRegs) : ArgRegs[i] \in 0 .. TableRegs - 1
ASSUME WordAssumption == Word # 0
ASSUME RaxAssumption == Rax \in 0 .. TableRegs - 1 /\ Rdx \in 0 .. TableRegs - 1 /\ Rax # Rdx
ASSUME CountsAssumption == ParamCounts \subseteq Nat /\ Arities \subseteq Nat
ASSUME BoundsAssumption ==
  Depth \in Nat /\ Over \in Nat /\ \A names \in Params : Len(names) <= Depth

VARIABLES
  cpu,         \* the registers, the words below rbp, and rsp
  argsz,       \* stk_argsz, in words: a static of the translator
  pushed,      \* history: the arguments pushed for calls not yet emitted
  passed,      \* history: the arguments of the last call, wanted and received
  todo         \* parameters whose NODE_ARGPAIR is still to be generated

run == <<cpu, argsz, pushed, passed, todo>>

Junk == <<"junk">>
ValueOf(tmp) == <<"tmp", tmp>>
LocalValue(i) == <<"local", i>>

-----------------------------------------------------------------------------
\* Instructions.

Stack == -Over .. Depth
WordAt(c, d) == IF d \in Stack THEN c.mem[d] ELSE Junk
Get(c, h) == IF h.onstack = 1 THEN WordAt(c, h.loc \div Word) ELSE c.regs[h.loc]
Put(c, h, v) == IF h.onstack = 1 THEN [c EXCEPT !.mem[h.loc \div Word] = v]
                ELSE [c EXCEPT !.regs[h.loc] = v]
Holds(c, h) == Get(c, h) = ValueOf(h.tmp)

PushWord(c, v) == [c EXCEPT !.rsp = @ + 1, !.mem[c.rsp + 1] = v]
PushReg(c, r) == PushWord(c, c.regs[r])
PopReg(c, r) == [c EXCEPT !.rsp = @ - 1, !.regs[r] = WordAt(c, c.rsp)]

\* CODE_ALLOC_TMP makes room on the stack for what gets no register.
SubRsp(c, h) == IF h.onstack = 1 THEN [c EXCEPT !.rsp = @ + h.size \div Word]
                ELSE c

\* A temporary that got no register.
InMemory(h) == h.onstack = 1
NotInMemory(homes) == \A h \in homes : ~InMemory(h)

\* TWOOP(ADD, SUB, BITAND, BITOR): mov res,lhs and then op res,rhs.
Twoop(c, lhs, rhs, res) ==
  LET moved == Put(c, res, Get(c, lhs))
  IN  Put(moved, res, IF Holds(c, lhs) /\ Holds(moved, rhs)
                      THEN ValueOf(res.tmp) ELSE Junk)

\* "if the dest operand is one of them, we do not need to store them": a
\* register that is pushed around an instruction unless it is the result's,
\* one that is pushed, and one that is popped.
Aside(r, res) == [reg |-> r, saved |-> InMemory(res) \/ res.loc # r]
PushAside(c, s) == IF s.saved THEN PushReg(c, s.reg) ELSE c
PopAside(c, s) == IF s.saved THEN PopReg(c, s.reg) ELSE c

\* Mutant of Muldiv: the registers are popped in the order of the pushes.
MuldivPopsInOrder(c, lhs, rhs, res, answer) ==
  LET saved == <<Aside(Rdx, res), Aside(Rax, res)>>
      pushes == FoldLeft(PushAside, c, saved)
      loaded == [pushes EXCEPT !.regs[Rax] = Get(pushes, lhs), !.regs[Rdx] = Junk]
      right == Holds(pushes, lhs) /\ Holds(loaded, rhs)
      done == [loaded EXCEPT !.regs[Rax] = Junk, !.regs[Rdx] = Junk,
                             !.regs[answer] = IF right THEN ValueOf(res.tmp) ELSE Junk]
  IN  FoldLeft(PopAside, Put(done, res, done.regs[answer]), saved)

\* CODE_MUL, CODE_DIV and CODE_MOD: rdx and rax are saved unless they are the
\* destination; the answer is in rax, the remainder of div in rdx.
Muldiv(c, lhs, rhs, res, answer) ==
  LET saved == <<Aside(Rdx, res), Aside(Rax, res)>>
      pushes == FoldLeft(PushAside, c, saved)
      loaded == [pushes EXCEPT !.regs[Rax] = Get(pushes, lhs), !.regs[Rdx] = Junk]
      right == Holds(pushes, lhs) /\ Holds(loaded, rhs)
      done == [loaded EXCEPT !.regs[Rax] = Junk, !.regs[Rdx] = Junk,
                             !.regs[answer] = IF right THEN ValueOf(res.tmp) ELSE Junk]
  IN  FoldLeft(PopAside, Put(done, res, done.regs[answer]), Reverse(saved))

\* Mutant of SavedRegs: rax, the register of the answer, is not looked at.
SavedRegsNotRax(tab, res) ==
  [i \in 1 .. TableRegs |->
     [Aside(i - 1, res) EXCEPT !.saved = @ /\ IsRegUsed(tab, i - 1) /\ i - 1 # Rax]]

\* What the loops over the register table do at a call: those that an entry of
\* the table names are saved, but not the one of the result.
SavedRegs(tab, res) ==
  [i \in 1 .. TableRegs |-> [Aside(i - 1, res) EXCEPT !.saved = @ /\ IsRegUsed(tab, i - 1)]]
PushedRegsNum(saved) == Cardinality({i \in DOMAIN saved : saved[i].saved})

\* Mutant of LoadArg: the registers saved since the pushes are forgotten.
LoadArgOverSaved(c, pass) ==
  LET word == WordAt(c, c.rsp - pass.i)
  IN  IF pass.i < Len(ArgRegs) THEN [c EXCEPT !.regs[ArgRegs[pass.i + 1]] = word]
      ELSE PushWord([c EXCEPT !.regs[Rax] = word], word)

\* "mov %s,[rsp+%zu+%zu]": a pass of the loop that loads the arguments; beyond
\* the argument registers it pushes what it loads.
LoadArg(c, pass) ==
  LET word == WordAt(c, c.rsp - (pass.above + pass.i))
  IN  IF pass.i < Len(ArgRegs) THEN [c EXCEPT !.regs[ArgRegs[pass.i + 1]] = word]
      ELSE PushWord([c EXCEPT !.regs[Rax] = word], word)
LoadArgs(c, saved) ==
  FoldLeft(LoadArg, c, [k \in 1 .. argsz |-> [above |-> PushedRegsNum(saved), i |-> k - 1]])

\* The callee owns the caller-saved registers and the stack below rsp, which
\* it gives back with its result in rax.
Callee(c, res) ==
  [c EXCEPT !.regs = [r \in DOMAIN c.regs |-> IF r = Rax THEN ValueOf(res.tmp)
                                                         ELSE Junk],
            !.mem = [d \in DOMAIN c.mem |-> IF d > c.rsp THEN Junk ELSE c.mem[d]]]

DropWords(c, n) == [c EXCEPT !.rsp = @ - n]
Overflow == IF argsz > Len(ArgRegs) THEN argsz - Len(ArgRegs) ELSE 0

AtCall(c, tab, res) ==
  LET saved == SavedRegs(tab, res)
  IN  LoadArgs(FoldLeft(PushAside, c, saved), saved)
\* Mutant of AfterCall: the pushed arguments stay on the stack.
AfterCallKeepsArgs(c, tab, res) ==
  LET back == DropWords(Callee(AtCall(c, tab, res), res), Overflow)
      stored == Put(back, res, back.regs[Rax])
  IN  FoldLeft(PopAside, stored, Reverse(SavedRegs(tab, res)))

AfterCall(c, tab, res) ==
  LET back == DropWords(Callee(AtCall(c, tab, res), res), Overflow)
      stored == Put(back, res, back.regs[Rax])
  IN  DropWords(FoldLeft(PopAside, stored, Reverse(SavedRegs(tab, res))), argsz)

\* Where the callee finds its k-th argument.
Received(c, k) ==
  IF k <= Len(ArgRegs) THEN c.regs[ArgRegs[k]]
  ELSE WordAt(c, c.rsp - (k - Len(ArgRegs) - 1))

\* Mutants of Entered: no room is made below rbp for the locals; the
\* registers are numbered from 1.
EnteredNoRoom(names) ==
  [regs |-> [r \in 0 .. TableRegs - 1 |-> Junk],
   mem  |-> [d \in Stack |-> IF d \in 1 .. Len(names) THEN LocalValue(d) ELSE Junk],
   rsp  |-> 0]
EnteredFromOne(names) ==
  [regs |-> [r \in 1 .. TableRegs |-> Junk],
   mem  |-> [d \in Stack |-> IF d \in 1 .. Len(names) THEN LocalValue(d) ELSE Junk],
   rsp  |-> Len(names)]

\* CODE_DEF_FUNC and the CODE_DECL_ARGs: the locals are allocated, and the
\* parameters among them are filled.
Entered(names) ==
  [regs |-> [r \in 0 .. TableRegs - 1 |-> Junk],
   mem  |-> [d \in Stack |-> IF d \in 1 .. Len(names) THEN LocalValue(d) ELSE Junk],
   rsp  |-> Len(names)]

-----------------------------------------------------------------------------
RunInit ==
  /\ Init
  /\ cpu = Entered(<<>>)
  /\ argsz = 0
  /\ pushed = <<>>
  /\ passed = [want |-> <<>>, have |-> <<>>]
  /\ todo = 0

\* The home of a node's result, whose cell in the frame is a new one.
Result == pending'[Len(pending')]

\* The n-th operand from the last, where format_operand looks for it: it takes
\* the offset of a spilled temporary from the frame's list, and after an
\* allocation from the list that holds the result as well.
Located(sf, h) == IF InMemory(h) THEN [h EXCEPT !.loc = TmpvarOffset(sf, h.tmp)] ELSE h
Latest(n) == pending[Len(pending) + 1 - n]
Operand(n) == Located(frame, Latest(n))
OperandBehind(n) == Located(AllocTmp(table, frame, next, Word).frame, Latest(n))

\* get_local_offset, for the i-th name of the function; a cell without a name
\* is a strcmp on NULL.
OffsetOf(i) == LocalOffset(frame, mine[i].name)
Finds(i) == OffsetOf(i) > 0

\* The operands of an expression lie above those that waited when the last
\* argument was pushed; the model's stack has room for what a node pushes.
Above(n) == Len(pending) - n >= IF pushed = <<>> THEN 0 ELSE Last(pushed).depth
\* An operand that begins after an argument was pushed belongs to a call of
\* two or more arguments.
Begins == pushed = <<>> \/ \E n \in Arities : n > 1
Fits == cpu.rsp + TableRegs + argsz + 1 <= Depth /\ cpu.rsp - argsz >= -Over
Body == todo = 0

\* NODE_CONSTANT, NODE_IDENTIFIER: mov tmp,imm and mov tmp,[local].
Constant ==
  /\ Body /\ Fits /\ Begins
  /\ Leaf(Word)
  /\ NotInMemory({Result})
  /\ cpu' = Put(cpu, Result, ValueOf(next))
  /\ UNCHANGED <<argsz, pushed, passed, todo>>

Identifier(i) ==
  /\ Body /\ Fits /\ Begins
  /\ "variable" \in Ops /\ Finds(i)
  /\ Leaf(Word)
  /\ NotInMemory({Result})
  /\ cpu' = Put(cpu, Result,
                IF WordAt(cpu, OffsetOf(i) \div Word) = LocalValue(i)
                THEN ValueOf(next) ELSE Junk)
  /\ UNCHANGED <<argsz, pushed, passed, todo>>

Arithmetic ==
  /\ Body /\ Fits /\ Above(2)
  /\ BinaryOp
  /\ InMemory(Result) => NotInMemory({Latest(1), Latest(2)})
  /\ cpu' = Twoop(SubRsp(cpu, Result), OperandBehind(2), OperandBehind(1), Result)
  /\ UNCHANGED <<argsz, pushed, passed, todo>>

Multiply(answer) ==
  /\ Body /\ Fits /\ Above(2)
  /\ "multiply" \in Ops
  /\ BinaryOp
  /\ NotInMemory({Latest(1)})
  /\ cpu' = Muldiv(SubRsp(cpu, Result), OperandBehind(2), OperandBehind(1), Result, answer)
  /\ UNCHANGED <<argsz, pushed, passed, todo>>

\* CODE_CMP and the two moves of 0 or 1 behind its jump.  The result's room is
\* made between the cmp and the jump, where "sub rsp" would change the flags;
\* but a result in memory is refused for its moves.
Comparison ==
  /\ Body /\ Fits /\ Above(2)
  /\ Compare
  /\ NotInMemory({Result})
  /\ NotInMemory({Latest(1)}) \/ NotInMemory({Latest(2)})
  /\ cpu' = Put(cpu, Result, IF Holds(cpu, Operand(2)) /\ Holds(cpu, Operand(1))
                             THEN ValueOf(next) ELSE Junk)
  /\ UNCHANGED <<argsz, pushed, passed, todo>>

\* NODE_ASSIGN to a local, and a statement that drops its value.
Assign(i) ==
  /\ Body /\ pushed = <<>> /\ Len(pending) = 1
  /\ "variable" \in Ops /\ Finds(i)
  /\ Use
  /\ NotInMemory({Latest(1)})
  /\ cpu' = [cpu EXCEPT !.mem[OffsetOf(i) \div Word] =
                IF Holds(cpu, Latest(1)) THEN LocalValue(i) ELSE Junk]
  /\ UNCHANGED <<argsz, pushed, passed, todo>>

Discard ==
  /\ Body /\ pushed = <<>> /\ Len(pending) = 1
  /\ Use
  /\ UNCHANGED run

\* CODE_PUSHARG of an argument of a call.
PushArg ==
  /\ Body /\ Fits /\ Above(1)
  /\ "call" \in Ops
  /\ Use
  /\ NotInMemory({Latest(1)})
  /\ cpu' = PushWord(cpu, Get(cpu, Latest(1)))
  /\ argsz' = argsz + 1
  /\ pushed' = Append(pushed, [value |-> ValueOf(Latest(1).tmp),
                               depth |-> Len(pending')])
  /\ UNCHANGED <<passed, todo>>

\* CODE_ALLOC_TMP of the result and CODE_FUNCCALL; whatever stk_argsz counts
\* is loaded and dropped, though only the last n pushes are this call's.
Call(n) ==
  LET own == SubSeq(pushed, Len(pushed) + 1 - n, Len(pushed))
      c == SubRsp(cpu, Result)
  IN  /\ Body /\ Fits
      /\ "call" \in Ops
      /\ n <= Len(pushed) /\ (n = 0 => Begins)
      /\ \A k \in 1 .. n : own[k].depth = Len(pending)
      /\ Leaf(Word)
      /\ cpu' = AfterCall(c, table', Result)
      /\ passed' = [want |-> [k \in 1 .. n |-> own[k].value],
                    have |-> [k \in 1 .. n |-> Received(AtCall(c, table', Result), k)]]
      /\ pushed' = SubSeq(pushed, 1, Len(pushed) - n)
      /\ argsz' = 0
      /\ UNCHANGED todo

\* The next function of the file; stk_argsz is not reset.
DefFunc(names, params) ==
  /\ Body /\ pushed = <<>>
  /\ params <= Len(names)
  /\ NextFunction(names)
  /\ cpu' = Entered(names)
  /\ todo' = params
  /\ UNCHANGED <<argsz, pushed, passed>>

\* gen_node walks into the parameter list of the function: each NODE_ARGPAIR
\* loads the parameter and pushes it like an argument of a call.
LoadParam ==
  /\ todo > 0 /\ Fits /\ pending = <<>>
  /\ Leaf(Word)
  /\ NotInMemory({Result})
  /\ cpu' = Put(cpu, Result, ValueOf(next))
  /\ UNCHANGED <<argsz, pushed, passed, todo>>
PushParam ==
  /\ todo > 0 /\ Fits
  /\ Use
  /\ NotInMemory({Latest(1)})
  /\ cpu' = PushWord(cpu, Get(cpu, Latest(1)))
  /\ argsz' = argsz + 1
  /\ todo' = todo - 1
  /\ UNCHANGED <<pushed, passed>>

RunNext ==
  \/ Constant
  \/ \E i \in 1 .. Len(mine) : Identifier(i) \/ Assign(i)
  \/ Arithmetic
  \/ \E answer \in {Rax, Rdx} : Multiply(answer)
  \/ Comparison
  \/ Discard
  \/ PushArg
  \/ \E n \in Arities : Call(n)
  \/ \E names \in Params, params \in ParamCounts : DefFunc(names, params)
  \/ LoadParam
  \/ PushParam

RunSpec == RunInit /\ [][RunNext]_<<vars, run>>

-----------------------------------------------------------------------------
\* The records and the counters of the machine have their types.
RunTypeOK ==
  /\ DOMAIN cpu.regs = 0 .. TableRegs - 1 /\ DOMAIN cpu.mem = Stack
  /\ cpu.rsp \in Int /\ argsz \in Nat
  /\ todo \in Nat

\* "restore the stacks used to pass args" (amd64.c:384, 390-392): between two
\* nodes rsp lies below the locals, the spilled values and the arguments
\* pushed so far, and nowhere else.
RspTracksFrame == cpu.rsp = frame.end \div Word + argsz

\* "save used caller-saved regs" (amd64.c:356): whatever the nodes between do,
\* calls among them, a value that waits is still where it was put.
ValuesSurvive == \A h \in Homes : Holds(cpu, h)

\* "if the dest operand is one of them, we do not need to store them"
\* (amd64.c:201, 218, 236) and the same around a call: a node leaves every
\* other waiting value alone, in a register or on the stack, unless its
\* register was handed out twice or a resize has cleared an entry of the table,
\* and as long as rsp is where it should be.
Alone(h) == \A g \in Homes : g # h => g.loc # h.loc \/ g.onstack # h.onstack
Undisturbed ==
  RspTracksFrame /\ NoneErased' =>
  \A h \in Homes : h \in Homes' /\ Holds(cpu, h) /\ Alone(h)' => Holds(cpu', h)
OthersUndisturbed == [][Undisturbed]_<<vars, run>>

\* No push, and no callee, writes over a local: the words of the locals stay
\* above rsp (amd64.c:135-136).
LocalsIntact == \A i \in 1 .. Len(mine) : cpu.mem[i] = LocalValue(i)

\* What the lookups by name and by temporary find: a local is found where it
\* was put, or in no place; each spilled value where it was put.
NamesFound == \A i \in 1 .. Len(mine) : Finds(i) => OffsetOf(i) = mine[i].loc
SlotsFound == \A h \in Spilled : TmpvarOffset(frame, h.tmp) = h.loc

\* "we copy the part that overflows registers reversely since the earlier
\* pushargs are from left to right" (amd64.c:366-367): the callee receives its
\* arguments in the order in which the call names them.
ArgsInOrder == passed.have = passed.want
=============================================================================
