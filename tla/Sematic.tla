------------------------------ MODULE Sematic ------------------------------
(***************************************************************************)
(* sematic.c: symbol tables, types, and the check of the syntax tree.      *)
(*                                                                         *)
(* The globals of the file are the fields of the checker's record: the     *)
(* table of types (an entry's index counts from 0, as in the code), the    *)
(* symbol tables (a node's "syms" is an index from 1), in_function,        *)
(* function_rettype and the list current_func_arglist.  "res" is ok,       *)
(* rejected (the check failed) or crash, and "vt" the value_type of the    *)
(* node that was checked last.  Nothing after the check reads the          *)
(* value_type that it gives a node, only those of the preprocessing.       *)
(***************************************************************************)
EXTENDS Parser, SequencesExt

CONSTANT MaxNumber   \* bound of the model: no number of a program is larger

ASSUME MaxNumberAssumption == MaxNumber \in Nat

-----------------------------------------------------------------------------
\* Types.

VoidType == 0
IntType == 1
StringType == 2
CharType == 3

\* symbol_type_t; a name of "" is NULL, elem is element_size.
TypeEntry(name, size, tree, members, elem) ==
  [name |-> name, size |-> size, tree |-> tree, members |-> members, elem |-> elem]
IntrinsicTypes ==
  <<TypeEntry("VOID", 0, Leaf("NODE_TYPEKW", "VOID"), <<>>, 0),
    TypeEntry("INT", 8, Leaf("NODE_TYPEKW", "INT"), <<>>, 0),
    TypeEntry("STRING", 8, Leaf("NODE_TYPEKW", "STRING"), <<>>, 0),
    TypeEntry("CHAR", 1, Leaf("NODE_TYPEKW", "CHAR"), <<>>, 0)>>
TypeAtIndex(types, t) == types[t + 1]

\* compare_tree: only the names of types are compared, not the lengths of arrays.
RECURSIVE CompareTree(_, _)
CompareTree(a, b) ==
  IF a = NULL \/ b = NULL THEN a = b
  ELSE /\ CompareTree(a.left, b.left) /\ CompareTree(a.right, b.right)
       /\ a.type = b.type
       /\ a.type = "NODE_TYPEKW" => a.value = b.value

\* atoi, of the numbers the model has.
Atoi(value) ==
  IF \E n \in 0 .. MaxNumber : ToString(n) = value
  THEN CHOOSE n \in 0 .. MaxNumber : ToString(n) = value ELSE 0

RECURSIVE TypetreeSize(_)
TypetreeSize(tree) ==
  CASE tree.type = "NODE_ARRAYOF" -> TypetreeSize(tree.left) * Atoi(tree.right.value)
    [] tree.type = "NODE_TYPEKW" /\ tree.value \in {"CHAR", "VOID"} -> 1
    [] OTHER -> 8

\* atoi of a length that is not written as one constant.
RECURSIVE NoLength(_)
NoLength(tree) ==
  \/ tree = NULL
  \/ tree.type = "NODE_ARRAYOF" /\ (NoLength(tree.left) \/ tree.right.value = "")

\* The first type with this tree, added to the table if there is none.  An
\* answer is the table, the index, and whether the compiler has crashed.
GotType(types, t) == [types |-> types, vt |-> t, crash |-> FALSE]
TypeOfTree(types, tree, size, elem) ==
  LET hit == SelectInSeq(types, LAMBDA e : CompareTree(e.tree, tree))
  IN  IF hit # 0 THEN GotType(types, hit - 1)
      ELSE [GotType(Append(types, TypeEntry("", size, tree, <<>>, elem)), Len(types))
              EXCEPT !.crash = NoLength(tree)]

\* get_type_from_typetree: a name is looked for first, with strcmp, which a
\* type without a name does not survive.
GetType(types, tree) ==
  LET hit == SelectInSeq(types, LAMBDA e : e.name \in {"", tree.value})
      found == TypeOfTree(types, tree, TypetreeSize(tree), 0)
  IN  IF tree.type # "NODE_TYPEKW" \/ hit = 0 THEN found
      ELSE IF types[hit].name = "" THEN [found EXCEPT !.crash = TRUE]
      ELSE GotType(types, hit - 1)

\* Mutant of ReferType: the type is added without looking for it.
ReferTypeAnew(types, t) ==
  GotType(Append(types, TypeEntry("", 8, Node("NODE_POINTEROF", TypeAtIndex(types, t).tree, NULL),
                                  <<>>, 0)), Len(types))

\* find_refer_type_of and find_defer_type_of.
ReferType(types, t) ==
  TypeOfTree(types, Node("NODE_POINTEROF", TypeAtIndex(types, t).tree, NULL), 8, 0)
DeferType(types, t) ==
  LET tree == TypeAtIndex(types, t).tree.left
  IN  TypeOfTree(types, tree, TypetreeSize(tree), 0)

IsA(types, t, nodetype) == TypeAtIndex(types, t).tree.type = nodetype
IsPointerType(types, t) == IsA(types, t, "NODE_POINTEROF")

Implicitly(types, a, b) ==
  \/ a = b \/ {a, b} = {IntType, CharType}
  \/ \E t, u \in {a, b} : {t, u} = {a, b} /\ IsPointerType(types, t)
                                          /\ u \in {IntType, StringType}
Explicitly(types, a, b) ==
  \/ Implicitly(types, a, b) \/ {a, b} = {IntType, StringType}
  \/ \E t, u \in {a, b} : IsPointerType(types, t) /\ IsA(types, u, "NODE_ARRAYOF")

-----------------------------------------------------------------------------
\* Symbols.

Symbol(name, kind, t, extern, args) ==
  [name |-> name, kind |-> kind, type |-> t, extern |-> extern, args |-> args]
Arg(name, t) == [name |-> name, type |-> t]
CreateSymtab(parent) == [parent |-> parent, syms |-> <<>>]
AddSymbol(tables, t, sym) == [tables EXCEPT ![t].syms = Append(@, sym)]

\* The symbols of a table and those of its parents behind them.
RECURSIVE Visible(_, _)
Visible(tables, t) ==
  IF t = 0 THEN <<>> ELSE tables[t].syms \o Visible(tables, tables[t].parent)

\* find_symbol; NULL when there is none.
FindSymbol(tables, t, name) ==
  LET syms == Visible(tables, t)
      hit == SelectInSeq(syms, LAMBDA sym : sym.name = name)
  IN  IF hit = 0 THEN NULL ELSE syms[hit]

\* symtab_setup: these nodes open a scope, for themselves too.
Scopes == {"NODE_IF", "NODE_ELSEIF", "NODE_ELSE", "NODE_WHILE", "NODE_FUNCTION"}
Setup(node, tables) == [node |-> node, tables |-> tables]

RECURSIVE SymtabSetup(_, _, _)
SetupDone(node, right) == Setup([node EXCEPT !.right = right.node], right.tables)
SetupRight(node, left, t) ==
  SetupDone([node EXCEPT !.left = left.node], SymtabSetup(node.right, t, left.tables))
SetupBelow(node, t, tables) ==
  SetupRight([node EXCEPT !.syms = t], SymtabSetup(node.left, t, tables), t)
SymtabSetup(node, t, tables) ==
  IF node = NULL THEN Setup(node, tables)
  ELSE IF node.type \in Scopes
  THEN SetupBelow(node, Len(tables) + 1, Append(tables, CreateSymtab(t)))
  ELSE SetupBelow(node, t, tables)

-----------------------------------------------------------------------------
\* The preprocessing: types of type names, constants, lists in braces, classes
\* and objects, children first.

Prepared(node, types, crash) == [node |-> node, types |-> types, crash |-> crash]
Typed(node, got) == Prepared([node EXCEPT !.vt = got.vt], got.types, got.crash)

\* count_element: the constants below a node.
RECURSIVE CountElement(_)
CountChild(child) ==
  IF child = NULL THEN 0 ELSE IF child.type = "NODE_CONSTANT" THEN 1 ELSE CountElement(child)
CountElement(commalist) == CountChild(commalist.left) + CountChild(commalist.right)

RECURSIVE Rightmost(_)
Rightmost(commalist) ==
  IF commalist.type = "NODE_COMMALIST" THEN Rightmost(commalist.right) ELSE commalist

\* ctypeinf_checker: an array has the type of its last element.
ConstantTypes == [CONSTANT_CHAR |-> CharType, CONSTANT_NUMBER |-> IntType,
                  CONSTANT_STRING |-> StringType]
ArrayType(node, types) ==
  LET element == TypeAtIndex(types, Rightmost(node.left).vt)
      tree == Node("NODE_ARRAYOF", element.tree,
                   Leaf("NODE_CONSTANT", ToString(CountElement(node.left))))
  IN  TypeOfTree(types, tree, TypetreeSize(tree), element.size)

\* class_def_checker: the members' types, and their sizes added up.
RECURSIVE ClassMembers(_, _, _, _)
AddMember(holder, got, members, size) ==
  ClassMembers(holder.right, got.types, Append(members, Arg(holder.left.left.value, got.vt)),
               [sum |-> size.sum + TypeAtIndex(got.types, got.vt).size,
                crash |-> size.crash \/ got.crash])
ClassMembers(holder, types, members, size) ==
  IF holder = NULL \/ holder.left = NULL
  THEN [types |-> types, members |-> members, size |-> size.sum, crash |-> size.crash]
  ELSE AddMember(holder, GetType(types, holder.left.right), members, size)
DefineClass(node, c) ==
  Prepared(node, Append(c.types, TypeEntry(node.left.value, c.size, node, c.members, 0)), c.crash)

Preprocessed(node, types, crash) ==
  LET class == SelectInSeq(types, LAMBDA e : e.name # "" /\ e.name = node.left.value)
  IN  CASE node.type = "NODE_TYPEKW" -> Typed(node, GetType(types, node))
        [] node.type = "NODE_CONSTANT" /\ node.info # "" ->
             Prepared([node EXCEPT !.vt = ConstantTypes[node.info]], types, crash)
        [] node.type = "NODE_ARRAYFILL" /\ node.left = NULL -> Prepared(node, types, TRUE)
        [] node.type = "NODE_ARRAYFILL" -> Typed(node, ArrayType(node, types))
        [] node.type = "NODE_CLASS" ->
             DefineClass(node, ClassMembers(node.right, types, <<>>, [sum |-> 0, crash |-> FALSE]))
        [] node.type = "NODE_CLASSFILL" /\ class # 0 ->
             Prepared([node EXCEPT !.vt = class - 1], types, crash)
        [] OTHER -> Prepared(node, types, crash)

\* preprocess_tree.  What fails in it is only logged.
RECURSIVE Preprocess(_, _)
Also(p, crash) == [p EXCEPT !.crash = @ \/ crash]
PreprocessRight(node, left, right) ==
  Also(Preprocessed([node EXCEPT !.left = left.node, !.right = right.node], right.types, FALSE),
       left.crash \/ right.crash)
PreprocessLeft(node, left) == PreprocessRight(node, left, Preprocess(node.right, left.types))
Preprocess(node, types) ==
  IF node = NULL THEN Prepared(node, types, FALSE)
  ELSE PreprocessLeft(node, Preprocess(node.left, types))

-----------------------------------------------------------------------------
\* check_node.

Reject(c) == [c EXCEPT !.res = "rejected"]
Crashed(c) == [c EXCEPT !.res = "crash"]
Ok(c) == c.res = "ok"
Valued(c, t) == [c EXCEPT !.vt = t]
\* The type of a type name's tree.
WithType(c, got) ==
  [c EXCEPT !.types = got.types, !.vt = got.vt, !.res = IF got.crash THEN "crash" ELSE @]
Must(c, holds) == IF Ok(c) /\ ~holds THEN Reject(c) ELSE c

RECURSIVE CheckNode(_, _)
Consistent == {"NODE_ADD", "NODE_SUB", "NODE_MUL", "NODE_DIV", "NODE_MOD", "NODE_AND",
               "NODE_OR", "NODE_BITAND", "NODE_BITOR", "NODE_XOR", "NODE_ASSIGN", "NODE_EQUAL",
               "NODE_GREATER", "NODE_LESS", "NODE_GREATER_EQUAL", "NODE_LESS_EQUAL",
               "NODE_COMMALIST"}

\* incontype_checker: the type of the left side is the node's.
SameTypes(left, right) ==
  IF ~Ok(left) \/ ~Ok(right) THEN right
  ELSE Valued(Must(right, Implicitly(right.types, left.vt, right.vt)), left.vt)
CheckSides(node, left) ==
  IF Ok(left) THEN SameTypes(left, CheckNode(node.right, left)) ELSE left

\* otherschk_checker
CheckChild(child, c) == IF child = NULL \/ ~Ok(c) THEN c ELSE CheckNode(child, c)
CheckChildren(node, c) == CheckChild(node.right, CheckChild(node.left, c))

\* exptypconv_checker
Convert(before, c) ==
  IF Ok(c) THEN Must(c, Explicitly(c.types, before, c.vt)) ELSE c
CheckConvert(node, c) == IF Ok(c) THEN Convert(c.vt, WithType(c, GetType(c.types, node.left))) ELSE c

\* sym_undef_checker
UseSymbol(sym, c) == IF sym = NULL THEN Reject(c) ELSE Valued(c, sym.type)

\* check_arglist: tree_to_list calls itself with the list it was given and ends
\* with the stack; any other tree is one argument, whose type is read from a
\* copy made before it was checked.
CheckArglist(args, params, c) ==
  IF args.type = "NODE_COMMALIST" THEN Crashed(c)
  ELSE IF Len(params) # 1 THEN Reject(c)
  ELSE LET checked == CheckNode(args, c)
       IN  Must(checked, Implicitly(checked.types, args.vt, params[1].type))

\* funccall_arg_checker
CallSymbol(node, sym, c) ==
  IF sym = NULL THEN Crashed(c)
  ELSE LET checked == CheckArglist(node.right, sym.args, c) IN Valued(checked, sym.type)
CheckCall(node, c) ==
  IF Ok(c) THEN CallSymbol(node, FindSymbol(c.tables, node.syms, node.left.value), c) ELSE c

\* exismem_checker: the first member of that name.  What is no identifier has
\* no text to compare names with.
MemberOf(sym, name, c) ==
  IF sym = NULL THEN Reject(c)
  ELSE LET members == TypeAtIndex(c.types, sym.type).members
           hit == SelectInSeq(members, LAMBDA m : name \in {"", m.name})
       IN  IF hit = 0 THEN Reject(c)
           ELSE IF name = "" THEN Crashed(c) ELSE Valued(c, members[hit].type)
CheckMember(node, c) ==
  IF node.left.value = "" /\ Visible(c.tables, node.syms) # <<>> THEN Crashed(c)
  ELSE MemberOf(FindSymbol(c.tables, node.syms, node.left.value), node.right.value, c)

\* return_checker
CheckReturn(node, c) ==
  IF ~c.infunc THEN Reject(c)
  ELSE LET value == CheckNode(node.left, c)
       IN  IF Ok(value) THEN Must(value, Implicitly(value.types, c.rettype, value.vt))
           ELSE value

\* refer_checker and defer_checker, when their right side is checked.
CheckRefer(node, c) ==
  IF ~Ok(c) \/ node.right.type # "NODE_IDENTIFIER" THEN Must(c, FALSE)
  ELSE WithType(c, ReferType(c.types, c.vt))
CheckDefer(node, c) ==
  IF ~Ok(c) \/ node.right.type # "NODE_IDENTIFIER" \/ ~IsPointerType(c.types, c.vt)
  THEN Must(c, FALSE)
  ELSE WithType(c, DeferType(c.types, c.vt))

\* condition_block_checker: the block's table is emptied, its condition is
\* checked, what the check finds is not looked at, and its body never is.
CheckCondition(node, c) ==
  LET checked == CheckNode(node.left, [c EXCEPT !.tables[node.syms].syms = <<>>])
  IN  IF checked.res = "crash" THEN checked ELSE [checked EXCEPT !.res = "ok"]

-----------------------------------------------------------------------------
\* sym_redef_checker.

\* A definition: its right side first, then its type, which must agree.
DefinedAs(rtype, c) ==
  IF Ok(c) THEN Must(c, Implicitly(c.types, rtype, c.vt)) ELSE c
DefinitionType(node, c) ==
  IF ~Ok(c) \/ node.left.right = NULL THEN c
  ELSE DefinedAs(c.vt, WithType(c, GetType(c.types, node.left.right)))

\* The type of what a node declares.
DeclaredType(node, c) ==
  CASE node.type = "NODE_DEFINITION" -> DefinitionType(node, CheckNode(node.right, c))
    [] node.type \in {"NODE_FUNCTION", "NODE_DECLARE_FUNC"} ->
         WithType(c, GetType(c.types, node.left.right))
    [] OTHER -> WithType(c, GetType(c.types, node.right))
DeclaredName(node) ==
  IF node.type \in {"NODE_DEFINITION", "NODE_FUNCTION", "NODE_DECLARE_FUNC"}
  THEN node.left.left.value ELSE node.left.value

AddDeclared(node, c, kind, args) ==
  [c EXCEPT !.tables = AddSymbol(@, node.syms,
              Symbol(DeclaredName(node), kind, c.vt,
                     node.type \in {"NODE_DECLARE_FUNC", "NODE_DECLARE_VAR"}, args))]

\* A parameter goes to its function's list, and to the table inside a function.
AddParameter(node, c) ==
  LET listed == [c EXCEPT !.args = Append(@, Arg(DeclaredName(node), c.vt))]
  IN  IF c.infunc THEN AddDeclared(node, listed, "variable", <<>>) ELSE listed

\* A function: its parameters, itself, and its body, behind which the checker
\* is in no function any more, wherever it was before.
CheckParams(params, c, inside) ==
  CheckNode(params, [c EXCEPT !.args = <<>>, !.infunc = @ \/ inside, !.rettype = c.vt])
FunctionAdded(node, c, params) ==
  AddDeclared(node, [params EXCEPT !.vt = c.vt, !.infunc = c.infunc, !.rettype = c.rettype],
              "function", params.args)
CheckBody(node, c) ==
  LET body == CheckNode(node.right.right, [c EXCEPT !.infunc = TRUE, !.rettype = c.vt])
  IN  [body EXCEPT !.infunc = FALSE, !.rettype = VoidType]
AddFunction(node, c, params) ==
  IF ~Ok(params) THEN params
  ELSE IF node.type = "NODE_DECLARE_FUNC" THEN FunctionAdded(node, c, params)
  ELSE CheckBody(node, FunctionAdded(node, c, params))

Declare(node, c) ==
  CASE node.type = "NODE_DECLARE_FUNC" -> AddFunction(node, c, CheckParams(node.right, c, FALSE))
    [] node.type = "NODE_FUNCTION" -> AddFunction(node, c, CheckParams(node.right.left, c, TRUE))
    [] node.type = "NODE_ARGPAIR" -> AddParameter(node, c)
    [] OTHER -> AddDeclared(node, c, "variable", <<>>)

\* Mutant of CheckDeclared: a name may be declared again.
CheckDeclaredTwice(node, c) == IF ~Ok(c) THEN c ELSE Declare(node, c)

\* A name that is already visible is refused.
CheckDeclared(node, c) ==
  IF ~Ok(c) THEN c
  ELSE IF FindSymbol(c.tables, node.syms, DeclaredName(node)) # NULL THEN Reject(c)
  ELSE Declare(node, c)

\* The rules of sematic_rules by their triggers; while_depth is never counted,
\* so every break that is checked is refused.  What no rule names is accepted.
CheckNode(node, c) ==
  CASE node.type \in {"NODE_DEFINITION", "NODE_DECLARE_FUNC", "NODE_DECLARE_VAR",
                      "NODE_FUNCTION", "NODE_ARGPAIR"} ->
         CheckDeclared(node, DeclaredType(node, c))
    [] node.type = "NODE_IDENTIFIER" ->
         UseSymbol(FindSymbol(c.tables, node.syms, node.value), c)
    [] node.type = "NODE_TYPECONVERT" -> CheckConvert(node, CheckNode(node.right, c))
    [] node.type \in Consistent -> CheckSides(node, CheckNode(node.left, c))
    [] node.type = "NODE_FUNCCALL" -> CheckCall(node, CheckNode(node.left, c))
    [] node.type = "NODE_PROPERTY" -> CheckMember(node, c)
    [] node.type = "NODE_RETURN" -> CheckReturn(node, c)
    [] node.type = "NODE_REFER" -> CheckRefer(node, CheckNode(node.right, c))
    [] node.type = "NODE_DEFER" -> CheckDefer(node, CheckNode(node.right, c))
    [] node.type = "NODE_BREAK" -> Reject(c)
    [] node.type \in Scopes -> CheckCondition(node, c)
    [] node.type \in {"NODE_LEAFHOLDER", "NODE_ARGLIST"} -> CheckChildren(node, c)
    [] OTHER -> Valued(c, node.vt)

\* do_sematic; the tree is the preprocessed one.
Checker(types, tables) ==
  [types |-> types, tables |-> tables, infunc |-> FALSE, rettype |-> -1,
   args |-> <<>>, res |-> "ok", vt |-> 0]
Checked(prepared, tables) ==
  LET c == CheckNode(prepared.node, Checker(prepared.types, tables))
  IN  [ast |-> prepared.node, types |-> c.types, tables |-> c.tables,
       res |-> IF prepared.crash THEN "crash" ELSE c.res]
DoSematic(ast) ==
  LET setup == SymtabSetup(ast, 1, <<CreateSymtab(0)>>)
  IN  Checked(Preprocess(setup.node, IntrinsicTypes), setup.tables)
=============================================================================
