------------------------------ MODULE Aarch64 ------------------------------
(***************************************************************************)
(* aarch64.c: the translation of intermediate code to instructions of      *)
(* aarch64, and their run next to the run of the intermediate code.        *)
(*                                                                         *)
(* aarch64_translate goes over the codes once, in the order of the text;   *)
(* what it knows then (the table of temporaries, the frame, stk_argsz) is  *)
(* kept for every code next to the instructions emitted for it, its site.  *)
(* The machine then follows the jumps.  Its memory is the words below fp,  *)
(* a word at depth d being the 8 bytes at fp-d, and sp is a depth, so that *)
(* the stack grows upwards in numbers.  Unlike in Compile, where any value *)
(* may be read and numbers are ordered without sign, a variable holds what *)
(* was last stored in it, what a called function returns is free, and the  *)
(* jumps are those with sign (aarch64.c:369-374), by the machine's flags.  *)
(***************************************************************************)
EXTENDS Compile, TmpTable

VARIABLES
  asm,      \* the site of every code, and whether a register was shared
  cpu,      \* the registers, the memory, sp, the flags, and what was seen last
  memory,   \* history: what the program has stored in each variable
  wanted,   \* history: what the last call or return should have been
  rooms     \* history: the ALLOC_TMPs that have moved sp, and whether one of
            \* them did so although one before it in the text had not

target == <<asm, cpu, memory, wanted, rooms>>

-----------------------------------------------------------------------------
\* abis: the registers are numbered as in caller_saved_regs, x0 to x18.
ArgRegs == 8          \* arg_regs_num
CallerSaved == 19     \* caller_saved_regs_num
Offered == 12         \* callee_saved_regs_num, the count given to tmpv_alloc_reg
TableCap == 6
FrameCap == 10
AlignUp(size) == ((size + 15) \div 16) * 16

Translator == [table |-> ListCreate(TableCap), frame |-> CreateStackframe(FrameCap),
               argsz |-> 0, lines |-> <<>>]

\* format_operand: a register, a word at a depth below fp, or one behind the
\* address in a register.
Reg(r) == <<"reg", r>>
AtFp(d) == <<"fp", d>>
AtReg(r, off) == <<"at", r, off>>
NoOperand == <<"none">>
FormatTmp(t, entry, off) ==
  IF OnStack(entry) = 1 THEN AtFp(Loc(entry) - off) ELSE Reg(Loc(entry))
FormatOffset(t, entry, off) ==
  IF OnStack(entry) = 1 THEN AtFp(Loc(entry) - off) ELSE AtReg(Loc(entry), off)
FormatOperand(t, op) ==
  LET hit == EntryOf(t.table, TmpOf(op))
      entry == t.table.items[hit]
  IN  CASE op[1] = "value" -> AtFp(LocalOffset(t.frame, op[2]))
        [] op[1] = "imm" -> <<"imm", op[2]>>
        [] op[1] = "string" -> <<"label", op[2]>>
        [] op[1] = "tmp" /\ hit # 0 -> FormatTmp(t, entry, 0)
        [] op[1] = "offset" /\ hit # 0 /\ TmpOf(op) > 0 -> FormatOffset(t, entry, op[3])
        [] OTHER -> NoOperand

IsReg(operand) == operand[1] = "reg"
IsMem(operand) == operand[1] \in {"fp", "at"}

\* An instruction that needs registers and is given anything else is refused
\* by the assembler.
Refused == <<<<"refused">>>>
WithRegs(operands, lines) == IF \A o \in operands : IsReg(o) THEN lines ELSE Refused

-----------------------------------------------------------------------------
\* The instructions of each code; dst and src are formatted operands.

\* aarch64_mov: an offset of more than a signed byte is added in a register of
\* its own, and then the load reads through another one.
Far(offset) == offset > 255
Spare(r) == IF r = 0 THEN 1 ELSE 0
Load(r, src, offset) ==
  IF ~Far(offset) THEN <<<<"ldr", r, src>>>>
  ELSE LET base == IF src[1] = "fp" THEN Spare(r) ELSE src[2]
       IN  <<<<"junk", r>>, <<"ldr", r, AtReg(base, 0)>>>>
StoreTo(r, dst, offset) ==
  IF ~Far(offset) THEN <<<<"str", r, dst>>>>
  ELSE <<<<"push", Spare(r)>>, <<"str", r, dst>>, <<"pop", Spare(r)>>>>
OffsetIn(t, op) == IF op[1] = "value" THEN LocalOffset(t.frame, op[2]) ELSE op[3]
Place(op) == op[1] \in {"value", "offset"}
SmallMov(t, code, dst, src) ==
  CASE Place(code.op1) /\ Place(code.op2) ->
         <<<<"push", 0>>, <<"ldr", 0, src>>, <<"str", 0, dst>>, <<"pop", 0>>>>
    [] IsReg(dst) /\ IsMem(src) -> Load(dst[2], src, OffsetIn(t, code.op2))
    [] IsMem(dst) /\ IsReg(src) -> StoreTo(src[2], dst, OffsetIn(t, code.op1))
    [] IsReg(dst) /\ src[1] \in {"imm", "label", "reg"} -> <<<<"mov", dst[2], src>>>>
    [] OTHER -> Refused

\* A large MOV copies byte by byte, with x1 to x4 pushed around it; a place
\* that is not found stops the compiler.
SizesOf(op) == {codes[i].op2[2] : i \in {k \in 1 .. Len(codes) :
                                         codes[k].op = "ALLOC_TMP" /\ codes[k].op1 = op}}
LargeSizes(op) == {n \in SizesOf(op) : n > 8}
DepthOf(t, op) == CASE op[1] = "tmp" -> TmpvarOffset(t.frame, TmpOf(op))
                    [] op[1] = "value" -> LocalOffset(t.frame, op[2])
                    [] OTHER -> NotFound
Each(what, regs) == [i \in 1 .. Len(regs) |-> <<what, regs[i]>>]
LargeMov(t, code) ==
  LET size == CHOOSE n \in LargeSizes(IF code.op1[1] = "tmp" THEN code.op1 ELSE code.op2) : TRUE
      from == DepthOf(t, code.op2)
      to == DepthOf(t, code.op1)
  IN  IF from < 0 \/ to < 0 THEN Refused
      ELSE Each("push", <<1, 2, 3, 4>>) \o <<<<"copy", to, from, size>>>>
             \o Each("pop", <<4, 3, 2, 1>>)
Mov(t, code, dst, src) ==
  IF LargeSizes(code.op1) \union LargeSizes(code.op2) # {} THEN LargeMov(t, code)
  ELSE SmallMov(t, code, dst, src)

\* Mutant of SavedRegs: the register of the result is taken for one that the
\* callee saves.
SavedRegsButX0(t, ret) ==
  SelectSeq([i \in 1 .. CallerSaved - 1 |-> i],
            LAMBDA r : IsRegUsed(t.table, r) /\ ret # Reg(r))

\* The registers in use around a call, but not that of the result.
SavedRegs(t, ret) ==
  SelectSeq([i \in 1 .. CallerSaved |-> i - 1],
            LAMBDA r : IsRegUsed(t.table, r) /\ ret # Reg(r))

\* Mutant of LoadArg: the registers saved in between are forgotten.
LoadArgNear(saved, i) ==
  IF i < ArgRegs THEN <<<<"ldrsp", i, 16 * i>>>> ELSE <<<<"ldrsp", 0, 16 * i>>, <<"push", 0>>>>

\* CODE_FUNCCALL: what is beyond the argument registers is loaded to x0 and
\* pushed again.
LoadArg(saved, i) ==
  IF i < ArgRegs THEN <<<<"ldrsp", i, 16 * (Len(saved) + i)>>>>
  ELSE <<<<"ldrsp", 0, 16 * (Len(saved) + i)>>, <<"push", 0>>>>
CallLines(t, saved, ret) ==
  Each("push", saved)
    \o FlattenSeq([i \in 1 .. t.argsz \div 16 |-> LoadArg(saved, i - 1)])
    \o <<<<"bl">>>>
    \o (IF t.argsz > 16 * ArgRegs THEN <<<<"addsp", t.argsz - 16 * ArgRegs>>>> ELSE <<>>)
    \o <<<<"mov", ret[2], Reg(0)>>>>
    \o Each("pop", Reverse(saved))
    \o <<<<"addsp", t.argsz>>>>

\* CODE_DEF_FUNC: every ALLOC_LOCAL of the function gets its place, and the
\* rest up to a multiple of 16 stays free below.
LocalsOf(i) ==
  LET end == CHOOSE j \in i .. Len(codes) :
               codes[j].op = "DEF_FUNC_END" /\ \A k \in i .. j - 1 : codes[k].op # "DEF_FUNC_END"
  IN  SelectSeq(SubSeq(codes, i, end), LAMBDA code : code.op = "ALLOC_LOCAL")
AddLocal(sf, code) ==
  LET offset == GrowStack(sf, code.op2[2])
  IN  [end |-> offset, locals |-> ListAppend(sf.locals, LocalCell(code.op1[2], offset, code.op2[2]))]
\* Mutant of Rounded: the room is not rounded.
RoundedNot(size) == size
Rounded(size) == ((size + 16) \div 16) * 16
\* Mutant of DefFunc: only what is left over is taken from sp.
DefFuncRest(t, locals) ==
  LET size == FoldLeft(LAMBDA sum, code : sum + code.op2[2], 0, locals)
      sf == FoldLeft(AddLocal, t.frame, locals)
  IN  [t EXCEPT !.frame = [sf EXCEPT !.end = GrowStack(sf, Rounded(size) - size)],
                !.lines = <<<<"enter", sf.locals.items>>, <<"subsp", Rounded(size) - size>>>>]
DefFunc(t, locals) ==
  LET size == FoldLeft(LAMBDA sum, code : sum + code.op2[2], 0, locals)
      sf == FoldLeft(AddLocal, t.frame, locals)
  IN  [t EXCEPT !.frame = [sf EXCEPT !.end = GrowStack(sf, Rounded(size) - size)],
                !.lines = <<<<"enter", sf.locals.items>>, <<"subsp", Rounded(size)>>>>]

\* CODE_ALLOC_TMP: a register for a word, stack for more or when none is left.
AllocatedTmp(t, tmp, size) ==
  IF size <= 8 /\ AllocReg(t.table, tmp, Offered) # NoReg
  THEN [t EXCEPT !.table = TmpvAllocReg(@, tmp, Offered), !.lines = <<>>]
  ELSE LET to == TmpvAllocStack(t.table, t.frame, tmp, AlignUp(size))
       IN  [t EXCEPT !.table = to.table, !.frame = to.frame,
                     !.lines = <<<<"subsp", AlignUp(size)>>>>]
FreedTmp(t, tmp) ==
  LET left == FreeTmpvar(t.table, t.frame, tmp)
  IN  [t EXCEPT !.table = left.table, !.frame = left.frame, !.lines = <<>>]

\* The other codes; op3 of an operator is the result.
Emitted(t, code, op1, op2, op3) ==
  CASE code.op \in Operators \ {"MOD"} ->
         WithRegs({op1, op2, op3}, <<<<"alu", code.op, op3[2], op1[2], op2[2]>>>>)
    [] code.op = "MOD" ->
         WithRegs({op1, op2, op3}, <<<<"alu", "DIV", op3[2], op1[2], op2[2]>>,
                                     <<"msub", op3[2], op3[2], op2[2], op1[2]>>>>)
    [] code.op = "REFER" -> WithRegs({op1}, <<<<"lea", op1[2], DepthOf(t, code.op2)>>>>)
    [] code.op = "DEFER" /\ code.op2[1] = "value" ->
         WithRegs({op1}, <<<<"lea", op1[2], DepthOf(t, code.op2)>>>>)
    [] code.op = "DEFER" ->
         WithRegs({op1, op2}, <<<<"mov", op1[2], op2>>, <<"ldr", op1[2], AtReg(op1[2], 0)>>>>)
    [] code.op = "CMP" -> WithRegs({op1}, <<<<"cmp", op1, op2>>>>)
    [] code.op = "MOV" -> Mov(t, code, op1, op2)
    [] code.op = "PUSHARG" -> WithRegs({op1}, <<<<"push", op1[2]>>>>)
    [] code.op = "FUNCCALL" -> WithRegs({op2}, CallLines(t, SavedRegs(t, op2), op2))
    [] code.op = "RETURN" /\ code.op1 = Empty -> <<<<"leave">>>>
    [] code.op = "RETURN" /\ code.op1[1] \in {"tmp", "imm"} ->
         IF IsMem(op1) THEN Refused ELSE <<<<"mov", 0, op1>>, <<"leave">>>>
    [] code.op = "RETURN" -> <<<<"ldr", 0, op1>>, <<"leave">>>>
    [] code.op = "DECL_ARG" -> <<<<"str", code.op2[2], op1>>>>
    [] OTHER -> <<>>
ArgSize(t, code) == CASE code.op = "PUSHARG" -> t.argsz + 16
                      [] code.op = "FUNCCALL" -> 0
                      [] OTHER -> t.argsz

\* One pass of the loop of aarch64_translate.
TranslateCode(t, i) ==
  LET code == codes[i]
  IN  CASE code.op = "DEF_FUNC" -> DefFunc(t, LocalsOf(i))
        [] code.op = "ALLOC_TMP" -> AllocatedTmp(t, TmpOf(code.op1), code.op2[2])
        [] code.op = "FREE" -> FreedTmp(t, TmpOf(code.op1))
        [] code.op = "DEF_FUNC_END" -> [t EXCEPT !.frame = ClearStack(@), !.lines = <<>>]
        [] OTHER -> [t EXCEPT !.argsz = ArgSize(t, code),
                              !.lines = Emitted(t, code, FormatOperand(t, code.op1),
                                                FormatOperand(t, code.op2), FormatOperand(t, code.op3))]

\* What the translator knows behind each code, the first being before them all.
Sites ==
  FoldLeft(LAMBDA sites, i : Append(sites, TranslateCode(Last(sites), i)),
           <<Translator>>, [i \in 1 .. Len(codes) |-> i])
InRegs(t) == {i \in 1 .. Len(t.table.items) : OnStack(t.table.items[i]) = 0}
SharesAt(t) == \E i, j \in InRegs(t) : i # j /\ Loc(t.table.items[i]) = Loc(t.table.items[j])

-----------------------------------------------------------------------------
\* The machine.

NothingSeen == [op |-> "none", values |-> <<>>]
Cold == [regs |-> [r \in 0 .. CallerSaved - 1 |-> Junk], mem |-> [d \in {} |-> Junk],
         sp |-> 0, flags |-> <<>>, view |-> <<>>, seen |-> NothingSeen]

\* A store over a part of a word loses the word.
Put(c, d, v) ==
  [c EXCEPT !.mem = [e \in {e \in DOMAIN c.mem : e <= d - 8 \/ e >= d + 8} \union {d} |->
                       IF e = d THEN v ELSE c.mem[e]]]
At(c, d) == IF d \in DOMAIN c.mem THEN c.mem[d] ELSE Junk
SetReg(c, r, v) == [c EXCEPT !.regs[r] = v]

\* An address of the frame is known by the local that begins there.
Pointer(c, d) ==
  LET hit == SelectInSeq(c.view, LAMBDA cell : cell.offset = d)
  IN  IF hit = 0 THEN <<"fp", d>> ELSE <<"addr", c.view[hit].name>>
DepthAt(c, address) ==
  IF address[1] = "fp" THEN address[2]
  ELSE c.view[CHOOSE i \in 1 .. Len(c.view) : c.view[i].name = address[2]].offset
IsAddress(v) == Len(v) = 2 /\ v[1] \in {"addr", "fp"}

\* The depth that a memory operand means, and what it does when there is none.
Means(c, operand) == operand[1] = "fp" \/ IsAddress(c.regs[operand[2]])
Depth(c, operand) ==
  IF operand[1] = "fp" THEN operand[2] ELSE DepthAt(c, c.regs[operand[2]]) - operand[3]
Fetch(c, operand) == IF Means(c, operand) THEN At(c, Depth(c, operand)) ELSE Junk
Keep(c, operand, v) == IF Means(c, operand) THEN Put(c, Depth(c, operand), v) ELSE c

Content(c, operand) ==
  CASE operand[1] = "reg" -> c.regs[operand[2]]
    [] operand[1] = "imm" -> <<operand[2]>>
    [] operand[1] = "label" -> Labelled(operand[2])

Push(c, r) == [Put(c, c.sp + 16, c.regs[r]) EXCEPT !.sp = c.sp + 16]
Pop(c, r) == [SetReg(c, r, At(c, c.sp)) EXCEPT !.sp = c.sp - 16]
Copy(c, to, from, size) ==
  FoldLeft(LAMBDA d, k : Put(d, to - 8 * k, At(d, from - 8 * k)), c,
           [k \in 1 .. size \div 8 |-> k - 1])

\* msub: a minus the quotient times b is the remainder, if it is that quotient.
Msub(c, line) ==
  LET a == c.regs[line[5]]
      b == c.regs[line[4]]
  IN  SetReg(c, line[2], IF c.regs[line[3]] = Apply("DIV", a, b) THEN Apply("MOD", a, b) ELSE Junk)

\* The called function owns the registers and the stack below sp.
Called(c, n, value) ==
  [c EXCEPT !.regs = [r \in DOMAIN c.regs |-> IF r = 0 THEN value ELSE Junk],
            !.mem = [d \in {d \in DOMAIN c.mem : d <= c.sp} |-> c.mem[d]],
            !.seen = [op |-> "call", values |-> [k \in 1 .. n |-> c.regs[k - 1]]]]
Left(c) == [c EXCEPT !.sp = 0, !.seen = [op |-> "return", values |-> <<c.regs[0]>>]]

Execute(c, line, value) ==
  CASE line[1] = "enter" -> [c EXCEPT !.view = line[2]]
    [] line[1] = "subsp" -> [c EXCEPT !.sp = @ + line[2]]
    [] line[1] = "addsp" -> [c EXCEPT !.sp = @ - line[2]]
    [] line[1] = "push" -> Push(c, line[2])
    [] line[1] = "pop" -> Pop(c, line[2])
    [] line[1] = "ldrsp" -> SetReg(c, line[2], At(c, c.sp - line[3]))
    [] line[1] = "ldr" -> SetReg(c, line[2], Fetch(c, line[3]))
    [] line[1] = "str" -> Keep(c, line[3], c.regs[line[2]])
    [] line[1] = "junk" -> SetReg(c, line[2], Junk)
    [] line[1] = "mov" -> SetReg(c, line[2], Content(c, line[3]))
    [] line[1] = "lea" -> SetReg(c, line[2], Pointer(c, line[3]))
    [] line[1] = "alu" -> SetReg(c, line[3], Apply(line[2], c.regs[line[4]], c.regs[line[5]]))
    [] line[1] = "msub" -> Msub(c, line)
    [] line[1] = "cmp" -> [c EXCEPT !.flags = <<Content(c, line[2]), Content(c, line[3])>>]
    [] line[1] = "copy" -> Copy(c, line[2], line[3], line[4])
    [] line[1] = "bl" -> Called(c, Len(args), value)
    [] line[1] = "leave" -> Left(c)

\* The lines of a site, one after the other.
Carried(c, lines, value) == FoldLeft(LAMBDA d, line : Execute(d, line, value), c, lines)

-----------------------------------------------------------------------------
\* The two runs together.

Site == asm.sites[pc]
NoAsm == [sites |-> <<>>, shared |-> FALSE]

TargetInit ==
  /\ Init
  /\ asm = NoAsm /\ cpu = Cold /\ memory = [x \in {} |-> Junk] /\ wanted = NothingSeen
  /\ rooms = [made |-> {}, skipped |-> FALSE]

\* aarch64_gen: behind the first site, which is before all codes, there is one
\* for each code.
Assembled(sites) == [sites |-> Tail(sites), shared |-> \E i \in 1 .. Len(sites) : SharesAt(sites[i])]
Translate ==
  /\ phase = "processed" /\ asm = NoAsm
  /\ asm' = Assembled(Sites)
  /\ UNCHANGED <<vars, cpu, memory, wanted, rooms>>

\* main is entered.
Enter ==
  /\ asm # NoAsm
  /\ Start
  /\ cpu' = Carried(cpu, asm.sites[pc' - 1].lines, Junk)
  /\ UNCHANGED <<asm, memory, wanted, rooms>>

\* The translator counts on every ALLOC_TMP before the one it is at, the jumps
\* may have passed some of them.
MakesRoom(i) == codes[i].op = "ALLOC_TMP" /\ asm.sites[i].lines # <<>>
MissedBefore(i) ==
  \E k \in 1 .. i - 1 : MakesRoom(k) /\ SameFunction(k, i) /\ k \notin rooms.made

\* A code that nobody sees.
Quietly ==
  /\ SilentTo(NextCode(cpu.flags))
  /\ cpu' = Carried(cpu, Site.lines, Junk)
  /\ rooms' = IF MakesRoom(pc) THEN [made |-> rooms.made \union {pc},
                                     skipped |-> rooms.skipped \/ MissedBefore(pc)]
              ELSE rooms
  /\ UNCHANGED <<mixed, asm, memory, wanted>>

\* What the program holds at an address: the variable, or its first word.
InMemory(x) == IF x \in DOMAIN memory THEN memory[x] ELSE Junk
FirstWord(v) == IF Len(v) = 2 /\ v[1] = "array" THEN v[2][1] ELSE v
Pointed(address) == IF IsAddress(address) THEN FirstWord(InMemory(address[2])) ELSE Junk
Stored(x, v) == [y \in DOMAIN memory \union {x} |-> IF y = x THEN v ELSE memory[y]]

\* A code that is seen, with the value that a read or a load finds there.
Openly(value) ==
  /\ Seen1(value)
  /\ cpu' = Carried(cpu, Site.lines, value)
  /\ UNCHANGED <<asm, rooms>>
ReadMemory ==
  /\ phase = "run" /\ (Reads \/ Loads)
  /\ Openly(IF Reads THEN InMemory(Instr.op2[2]) ELSE Pointed(ValueIn(Instr.op2)))
  /\ UNCHANGED <<memory, wanted>>
WriteMemory ==
  /\ phase = "run" /\ (Writes \/ Stores)
  /\ Openly(Junk)
  /\ memory' = IF Writes THEN Stored(Instr.op1[2], ValueIn(Instr.op2))
               ELSE Stored(ValueIn(Instr.op1)[2], ValueIn(Instr.op2))
  /\ UNCHANGED wanted
CallOut(n) ==
  /\ phase = "run" /\ Instr.op = "FUNCCALL"
  /\ Openly(<<n>>)
  /\ wanted' = [op |-> "call", values |-> args]
  /\ UNCHANGED memory
ReturnFrom ==
  /\ phase = "run" /\ Instr.op = "RETURN"
  /\ Openly(Junk)
  /\ wanted' = [op |-> "return", values |-> <<ValueIn(Instr.op1)>>]
  /\ UNCHANGED memory

\* The two runs part when a register is handed out twice (see RegShared) or
\* when the translator's stack is not the machine's.
Parted == asm.shared \/ rooms.skipped

TargetNext ==
  \/ (Parse \/ Check \/ Generate \/ Process \/ Stopped) /\ UNCHANGED target
  \/ Translate
  \/ Enter
  \/ Quietly
  \/ ReadMemory
  \/ WriteMemory
  \/ \E n \in Values : CallOut(n)
  \/ ReturnFrom

TargetSpec == TargetInit /\ [][TargetNext]_<<vars, target>>

-----------------------------------------------------------------------------
\* All of this is about programs for which tmpv_alloc_reg hands out no register
\* twice, and about a run as long as no ALLOC_TMP moves sp behind another that
\* was jumped over: the translator counts them in the order of the text
\* (aarch64.c:282-290), so a value of more than a word made in a branch that is
\* not taken leaves the slots of later ones below sp.
Running == phase = "run" /\ ~Parted

\* "save used caller-saved regs" (aarch64.c:450): on every path, through loops,
\* breaks and calls, each temporary in the table has in its register or its
\* slot the value that the intermediate code has in it.
SiteBefore == asm.sites[pc - 1]
WordsAt(d, vs) == \A k \in 1 .. Len(vs) : vs[k] = Junk \/ At(cpu, d - 8 * (k - 1)) = vs[k]
HoldsAt(d, v) == IF Len(v) = 2 /\ v[1] = "array" THEN WordsAt(d, v[2]) ELSE At(cpu, d) = v
Held(entry) ==
  LET v == tmps[Tmp(entry)]
  IN  v = Junk \/ IF OnStack(entry) = 1 THEN HoldsAt(Loc(entry), v) ELSE cpu.regs[Loc(entry)] = v
TemporariesHeld ==
  Running => \A i \in 1 .. Len(SiteBefore.table.items) :
               Tmp(SiteBefore.table.items[i]) \in DOMAIN tmps => Held(SiteBefore.table.items[i])

\* No push, no callee and no copy of an object writes over a variable: each has
\* in its place what was last stored in it ("mov args passed by registers to
\* stackmem", "alloc stack for locals", aarch64.c:183 and 233).
VariablesHeld ==
  Running => \A x \in DOMAIN memory :
               HoldsAt(LocalOffset(SiteBefore.frame, x), memory[x])

\* "str arg,[sp,#-16]!" (aarch64.c:441): sp is a multiple of 16 and lies below
\* every local and every spilled temporary that is in use, however often loops
\* allocate again, wherever breaks leave them and whatever calls push.
StackBelowFrame ==
  Running =>
    /\ cpu.sp % 16 = 0
    /\ \A i \in 1 .. Len(SiteBefore.frame.locals.items) :
         SiteBefore.frame.locals.items[i].offset <= cpu.sp


\* The callee finds its argument in x0, and the caller main's value.
ArrivesInX0 == ~Parted => cpu.seen = wanted
=============================================================================
