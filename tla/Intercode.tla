----------------------------- MODULE Intercode -----------------------------
(***************************************************************************)
(* intercode.c: checked syntax tree to intermediate code.                  *)
(*                                                                         *)
(* The statics of the file are the fields of the generator's record: the   *)
(* next temporary, the next label, the labels that break jumps to; "types" *)
(* and "tables" are those of the semantic check.  "val" is the temporary   *)
(* that gen_node returned last, "crash" that the compiler has stopped.     *)
(* The size of a temporary is the second operand of its ALLOC_TMP.  The    *)
(* numbers of labels count from 0; NoLabel is the NULL of a break that is  *)
(* in no loop.                                                             *)
(***************************************************************************)
EXTENDS Sematic, Intercode2

\* The operands that intercode2.c does not make.
ValueOp(name) == <<"value", name>>
OffsetOp(t, offset) == <<"offset", t, offset>>

NoTmp == -1
NoLabel == -1
Generator(types, tables) ==
  [codes |-> <<>>, tmps |-> 0, labels |-> 0, loops |-> <<>>, val |-> NoTmp,
   types |-> types, tables |-> tables, crash |-> FALSE]
Emit(g, codes) == [g EXCEPT !.codes = @ \o codes]
Stop(g) == [g EXCEPT !.crash = TRUE]
SizeOf(g, t) == TypeAtIndex(g.types, t).size

\* Mutant of MakeTmpvar: the counter does not move.
MakeTmpvarAgain(g) == [g EXCEPT !.val = g.tmps]

\* make_tmpvar, and mklabel called n times.
MakeTmpvar(g) == [g EXCEPT !.tmps = @ + 1, !.val = g.tmps]

\* Mutant of MkLabels: the counter moves by one whatever is taken.
MkLabelsOne(g, n) == [g EXCEPT !.labels = @ + 1]
MkLabels(g, n) == [g EXCEPT !.labels = @ + n]

AllocSized(g, size) == Emit(g, <<Code("ALLOC_TMP", TmpOp(g.val), ImmOp(size), Empty)>>)
AllocTmp(g) == AllocSized(g, 8)
Label(l) == Code("LABEL", AddrOp(l), Empty, Empty)
Jump(op, l) == Code(op, AddrOp(l), Empty, Empty)

\* imm_str
ImmStr(value) == IF value \in DOMAIN Chars THEN Chars[value] ELSE Atoi(value)

\* allocate_syms: a home for every variable of a scope.
AllocateSyms(g, t) ==
  LET locals == SelectSeq(g.tables[t].syms, LAMBDA s : s.kind = "variable" /\ ~s.extern)
  IN  Emit(g, [i \in 1 .. Len(locals) |->
                 Code("ALLOC_LOCAL", AddrOp(locals[i].name),
                      ImmOp(SizeOf(g, locals[i].type)), Empty)])
ScopeEnd == Code("SCOPE_END", Empty, Empty, Empty)

Twoops == [NODE_ADD |-> "ADD", NODE_SUB |-> "SUB", NODE_MUL |-> "MUL",
           NODE_DIV |-> "DIV", NODE_MOD |-> "MOD", NODE_BITAND |-> "BITAND",
           NODE_BITOR |-> "BITOR"]
Compares == [NODE_EQUAL |-> "JE", NODE_GREATER |-> "JA", NODE_LESS |-> "JB",
             NODE_NOT_EQUAL |-> "JNE", NODE_GREATER_EQUAL |-> "JAE",
             NODE_LESS_EQUAL |-> "JBE"]

RECURSIVE GenNode(_, _), GenArglist(_, _)

\* Both children of a node, left first, where they are there.
GenChild(child, g) == IF child = NULL THEN g ELSE GenNode(child, g)
GenChildren(node, g) ==
  [GenChild(node.right, GenChild(node.left, g)) EXCEPT !.val = NoTmp]

\* NODE_COMMALIST: the value is that of the right side.
GenComma(node, g) == GenNode(node.right, GenNode(node.left, g))

\* A leaf: a new temporary, and a move of the operand to it.
GenOperand(g, operand) ==
  LET t == MakeTmpvar(g)
  IN  Emit(AllocTmp(t), <<Code("MOV", TmpOp(t.val), operand, Empty)>>)

\* TWOOP_INTERCODE: the result is allocated before the instruction.
GenTwoop(node, g) ==
  LET lhs == GenNode(node.left, g)
      rhs == GenNode(node.right, lhs)
      res == AllocTmp(MakeTmpvar(rhs))
  IN  Emit(res, <<Code(Twoops[node.type], TmpOp(lhs.val), TmpOp(rhs.val), TmpOp(res.val))>>)

\* CMP_INTERCODE: 1 if the jump is taken, else 0.
GenCompare(node, g) ==
  LET lhs == GenNode(node.left, g)
      rhs == GenNode(node.right, lhs)
      res == MkLabels(MakeTmpvar(rhs), 2)
      compared == Emit(res, <<Code("CMP", TmpOp(lhs.val), TmpOp(rhs.val), Empty)>>)
      donelbl == rhs.labels
      truelbl == rhs.labels + 1
  IN  Emit(AllocTmp(compared),
           <<Jump(Compares[node.type], truelbl),
             Code("MOV", TmpOp(res.val), ImmOp(0), Empty),
             Jump("JMP", donelbl),
             Label(truelbl),
             Code("MOV", TmpOp(res.val), ImmOp(1), Empty),
             Label(donelbl)>>)

\* gen_arglist_node: the arguments from left to right, each pushed as soon as
\* it is there.
GenArglist(node, g) ==
  IF node.type = "NODE_COMMALIST"
  THEN GenArglist(node.right, GenArglist(node.left, g))
  ELSE LET arg == GenNode(node, g)
       IN  Emit(arg, <<Code("PUSHARG", TmpOp(arg.val), Empty, Empty)>>)

GenFunccall(node, g) ==
  LET ret == AllocTmp(MakeTmpvar(GenArglist(node.right, g)))
  IN  Emit(ret, <<Code("FUNCCALL", AddrOp(node.left.value), TmpOp(ret.val), Empty)>>)

\* The address of an array plus the index, which is not multiplied by the size
\* of an element.
GenElement(node, g) ==
  LET index == GenNode(node.right, g)
      array == FindSymbol(index.tables, node.syms, node.left.value)
      elesz == TypeAtIndex(index.types, array.type).elem
      cont == AllocSized(MakeTmpvar(index), elesz)
  IN  IF array = NULL THEN Stop(index)
      ELSE Emit(cont, <<Code("REFER", TmpOp(cont.val), ValueOp(node.left.value), Empty),
                        Code("ADD", TmpOp(cont.val), TmpOp(index.val), TmpOp(cont.val))>>)
Loaded(g, offset) == Emit(g, <<Code("MOV", TmpOp(g.val), OffsetOp(g.val, offset), Empty)>>)

\* gen_lhs, and the move of rhs to what it returns.
MoveTo(g, operand, rhs) == Emit(g, <<Code("MOV", operand, TmpOp(rhs), Empty)>>)
MoveThrough(g, rhs) == MoveTo(g, OffsetOp(g.val, 0), rhs)
GenLhs(node, g) ==
  CASE node.type = "NODE_IDENTIFIER" -> MoveTo(g, ValueOp(node.value), g.val)
    [] node.type = "NODE_DEFER" -> MoveThrough(GenNode(node.right, g), g.val)
    [] node.type = "NODE_INDEX" -> MoveThrough(GenElement(node, g), g.val)
    [] OTHER -> MoveTo(g, Empty, g.val)

\* NODE_ASSIGN, NODE_DEFINITION: the right side, then the move to the left.
GenMove(lhs, right, g) == [GenLhs(lhs, GenNode(right, g)) EXCEPT !.val = NoTmp]

\* NODE_REFER, and NODE_DEFER, whose temporary is not allocated.
GenRefer(name, g) ==
  LET res == AllocTmp(MakeTmpvar(g))
  IN  Emit(res, <<Code("REFER", TmpOp(res.val), ValueOp(name), Empty)>>)
GenDefer(name, g) ==
  LET res == MakeTmpvar(g)
  IN  Emit(res, <<Code("DEFER", TmpOp(res.val), AddrOp(name), Empty)>>)

\* The offset of the first member of a name, behind all if there is none.
RECURSIVE MemberOffset(_, _, _)
MemberOffset(types, members, name) ==
  IF members = <<>> \/ Head(members).name = name THEN 0
  ELSE TypeAtIndex(types, Head(members).type).size + MemberOffset(types, Tail(members), name)

\* NODE_PROPERTY: the object's type is not the one the check found, but that of
\* the preprocessing, which an identifier does not have.
GenProperty(node, g) ==
  LET members == TypeAtIndex(g.types, node.left.vt).members
  IN  Loaded(GenRefer(node.left.value, g), MemberOffset(g.types, members, node.right.value))

\* The nodes of a list in breadth first order, nodes of "inner" taken apart.
RECURSIVE BreadthFirst(_, _)
BreadthFirst(nodes, inner) ==
  IF nodes = <<>> THEN <<>>
  ELSE IF Head(nodes).type \in inner
  THEN BreadthFirst(Tail(nodes) \o <<Head(nodes).left, Head(nodes).right>>, inner)
  ELSE <<Head(nodes)>> \o BreadthFirst(Tail(nodes), inner)

\* gen_arrayfill: what can be an element, in the order found, from the last to
\* the first; the size of an element is that of the array by the number of
\* constants below it.
Fillers == {"NODE_ARRAYFILL", "NODE_CLASSFILL", "NODE_IDENTIFIER", "NODE_CONSTANT"}
StoreElement(g, array, offset) == MoveTo(g, OffsetOp(array, offset), g.val)
GenArrayfill(node, g) ==
  LET eles == SelectSeq(BreadthFirst(<<node.left>>, {"NODE_COMMALIST"}),
                        LAMBDA e : e.type \in Fillers)
      elesz == SizeOf(g, node.vt) \div CountElement(node.left)
      array == AllocSized(MakeTmpvar(g), CountElement(node.left) * elesz)
      fill(h, i) == StoreElement(GenNode(eles[i], h), array.val, elesz * (i - 1))
  IN  IF CountElement(node.left) = 0 THEN Stop(g)
      ELSE [FoldLeft(fill, array, Reverse([i \in 1 .. Len(eles) |-> i])) EXCEPT !.val = array.val]

\* NODE_CLASSFILL and gen_classfill: the pairs of a name and a value below it.
GenMember(pair, object, members, g) ==
  LET value == GenNode(pair.right, g)
      member == SelectInSeq(members, LAMBDA m : m.name = pair.left.value)
  IN  IF member = 0 THEN value
      ELSE StoreElement(value, object, MemberOffset(g.types, members, pair.left.value))
GenClassfill(node, g) ==
  LET pairs == SelectSeq(BreadthFirst(<<node.left, node.right>>,
                                      {"NODE_COMMALIST", "NODE_CLASSFILL", "NODE_LEAFHOLDER"}),
                         LAMBDA n : n.type = "NODE_KEYVALUE_PAIR")
      object == AllocSized(MakeTmpvar(g), SizeOf(g, node.vt))
      fill(h, pair) == GenMember(pair, object.val, TypeAtIndex(g.types, node.vt).members, h)
  IN  [FoldLeft(fill, object, pairs) EXCEPT !.val = object.val]

\* The test that opens an if and a while: over the body to done_label unless
\* the condition is 1; the body's variables are allocated behind it.
GenTest(node, g) ==
  LET c == GenNode(node.left, g)
      t == Emit(MkLabels(c, 2),
                <<Code("CMP", TmpOp(c.val), ImmOp(1), Empty),
                  Jump("JE", c.labels), Jump("JMP", c.labels + 1), Label(c.labels)>>)
  IN  AllocateSyms(t, node.syms)

\* NODE_IF: the holder of the body and of the branch behind it is the body.
GenIf(node, g) ==
  LET t == GenTest(node, g)
  IN  Emit(GenNode(node.right, t), <<Label(t.labels - 1), ScopeEnd>>)

\* NODE_ELSE
GenElse(node, g) == Emit(GenNode(node.left, AllocateSyms(g, node.syms)), <<ScopeEnd>>)

\* The body of a loop, its done label pushed for the breaks in it; the assert
\* of push_while_done_label leaves the last of the 32 places empty.
MaxLoops == 32
GenLoopBody(node, t) ==
  LET body == GenNode(node.right, [t EXCEPT !.loops = Append(@, t.labels - 1),
                                            !.crash = @ \/ Len(t.loops) + 1 >= MaxLoops])
  IN  [body EXCEPT !.loops = t.loops]

\* Mutant of GenWhile: the body is not repeated.
GenWhileOnce(node, g) ==
  LET t == GenTest(node, Emit(MkLabels(g, 1), <<Label(g.labels)>>))
  IN  Emit(GenLoopBody(node, t), <<Label(t.labels - 1), ScopeEnd>>)

\* Mutant of GenWhile: the jump back passes over the test.
GenWhileUntested(node, g) ==
  LET t == GenTest(node, Emit(MkLabels(g, 1), <<Label(g.labels)>>))
  IN  Emit(GenLoopBody(node, t),
           <<Jump("JMP", t.labels - 2), Label(t.labels - 1), ScopeEnd>>)

\* NODE_WHILE
GenWhile(node, g) ==
  LET t == GenTest(node, Emit(MkLabels(g, 1), <<Label(g.labels)>>))
  IN  Emit(GenLoopBody(node, t),
           <<Jump("JMP", g.labels), Label(t.labels - 1), ScopeEnd>>)

\* NODE_FUNCTION: its variables, the parameters among them; a return of 0
\* closes it, "in case there is no return".  A function that the check has not
\* seen has no symbol.
DeclareArgs(g, args) ==
  Emit(g, [i \in 1 .. Len(args) |->
             Code("DECL_ARG", ValueOp(args[i].name), ImmOp(i - 1), Empty)])
GenFunction(node, g) ==
  LET name == node.left.left.value
      sym == FindSymbol(g.tables, node.syms, name)
      head == AllocateSyms(Emit(g, <<Code("DEF_FUNC", AddrOp(name), Empty, Empty)>>), node.syms)
  IN  IF sym = NULL THEN Stop(g)
      ELSE [Emit(GenNode(node.right, DeclareArgs(head, sym.args)),
                 <<Code("RETURN", ImmOp(0), Empty, Empty),
                   Code("DEF_FUNC_END", AddrOp(name), Empty, Empty)>>) EXCEPT !.val = NoTmp]

GenPushed(node, g, op) ==
  LET v == GenNode(node, g) IN Emit(v, <<Code(op, TmpOp(v.val), Empty, Empty)>>)
GenConstant(node, g) ==
  GenOperand(g, IF node.vt = StringType THEN StringOp(node.value)
                ELSE ImmOp(ImmStr(node.value)))
GenExtern(name, g) == Emit(g, <<Code("EXTERN_DECLARE", AddrOp(name), Empty, Empty)>>)

\* gen_node.  The nodes that are not named return the null temporary.
GenNode(node, g) ==
  CASE g.crash -> g
    [] node.type \in {"NULL", "CRASH"} -> Stop(g)
    [] node.type = "NODE_FUNCTION" -> GenFunction(node, g)
    [] node.type = "NODE_TYPECONVERT" -> GenNode(node.right, g)
    [] node.type = "NODE_RETURN" -> GenPushed(node.left, g, "RETURN")
    [] node.type = "NODE_ARGPAIR" -> GenPushed(node.left, g, "PUSHARG")
    [] node.type = "NODE_INDEX" -> Loaded(GenElement(node, g), 0)
    [] node.type = "NODE_ARRAYFILL" -> GenArrayfill(node, g)
    [] node.type = "NODE_ASSIGN" -> GenMove(node.left, node.right, g)
    [] node.type = "NODE_DEFINITION" -> GenMove(node.left.left, node.right, g)
    [] node.type = "NODE_COMMALIST" -> GenComma(node, g)
    [] node.type \in DOMAIN Twoops -> GenTwoop(node, g)
    [] node.type = "NODE_REFER" -> GenRefer(node.right.value, g)
    [] node.type = "NODE_DEFER" -> GenDefer(node.right.value, g)
    [] node.type \in DOMAIN Compares -> GenCompare(node, g)
    [] node.type = "NODE_IDENTIFIER" -> GenOperand(g, ValueOp(node.value))
    [] node.type = "NODE_CONSTANT" -> GenConstant(node, g)
    [] node.type = "NODE_DECLARE_VAR" -> GenExtern(node.left.value, g)
    [] node.type = "NODE_DECLARE_FUNC" -> GenExtern(node.left.left.value, g)
    [] node.type = "NODE_BREAK" ->
         Emit(g, <<Jump("JMP", IF g.loops = <<>> THEN NoLabel ELSE Last(g.loops))>>)
    [] node.type = "NODE_CLASSFILL" -> GenClassfill(node, g)
    [] node.type = "NODE_PROPERTY" -> GenProperty(node, g)
    [] node.type = "NODE_FUNCCALL" -> GenFunccall(node, g)
    [] node.type \in {"NODE_IF", "NODE_ELSEIF"} -> GenIf(node, g)
    [] node.type = "NODE_ELSE" -> GenElse(node, g)
    [] node.type = "NODE_WHILE" -> GenWhile(node, g)
    [] node.type \in {"NODE_LEAFHOLDER", "NODE_ARGLIST", "NODE_SINGLEEXPR", "NODE_NONE"} ->
         GenChildren(node, g)
    [] OTHER -> [g EXCEPT !.val = NoTmp]

\* put_global_var_inits: a definition, wherever it stands, of a name that is
\* global is generated here, in _start, and taken from the tree.
RECURSIVE Hoist(_, _)
Hoisted(node, g) == [node |-> node, g |-> g]
HoistRight(node, left, right) ==
  Hoisted([node EXCEPT !.left = left, !.right = right.node], right.g)
HoistLeft(node, left) == HoistRight(node, left.node, Hoist(node.right, left.g))
Hoist(node, g) ==
  CASE node = NULL -> Hoisted(node, g)
    [] node.type = "NODE_DEFINITION" /\ FindSymbol(g.tables, 1, node.left.left.value) # NULL ->
         Hoisted(Node("NODE_NONE", NULL, NULL), GenMove(node.left.left, node.right, g))
    [] node.type = "NODE_DEFINITION" -> Hoisted(node, g)
    [] OTHER -> HoistLeft(node, Hoist(node.left, g))

\* gen_intercode: the globals, _start, which initialises them and calls main,
\* and the file.
AllocateGlobals(g) ==
  Emit(g, [i \in 1 .. Len(g.tables[1].syms) |->
             Code("ALLOC_GLOBAL", AddrOp(g.tables[1].syms[i].name), Empty, Empty)])
GenStart(g) ==
  LET t == AllocTmp(MakeTmpvar(g))
  IN  Emit(t, <<Code("FUNCCALL", AddrOp("main"), TmpOp(t.val), Empty),
                Code("RETURN", Empty, Empty, Empty),
                Code("DEF_FUNC_END", Empty, Empty, Empty)>>)
GenFile(h) == GenNode(h.node, GenStart(h.g))
GenIntercode(ast, types, tables) ==
  LET owned == [tables EXCEPT ![1].syms = SelectSeq(@, LAMBDA s : ~s.extern)]
      globals == [AllocateGlobals(Generator(types, owned)) EXCEPT !.tables = tables]
  IN  GenFile(Hoist(ast, Emit(globals, <<Code("DEF_FUNC", AddrOp("_start"), Empty, Empty)>>)))
=============================================================================
