------------------------------- MODULE Parser -------------------------------
(***************************************************************************)
(* parser.c: tokens to syntax tree.  Expressions are parsed by precedence  *)
(* climbing over tables of prefix and infix handlers, statements by trying *)
(* the recipes of "syntaxes" in order.                                     *)
(*                                                                         *)
(* A token is its tokentype_t, or the text of a name or of a constant.     *)
(* Positions count from 1.  Every parse answers with a node, NULL where    *)
(* the code returns NULL, and the position it leaves the iterator at.      *)
(* Crash is the answer of a parse that has used a NULL node, and then of   *)
(* every parse that called it.  The file is taken not to end inside a      *)
(* statement (parse_by_recipe logs a token that is not there).             *)
(***************************************************************************)
EXTENDS Integers, Sequences

CONSTANTS Names,              \* the tokens that are identifiers,
          Numbers, Strings,   \* numbers and strings,
          Chars               \* and characters, each with its code

Constants == {"CONSTANT_NUMBER", "CONSTANT_CHAR", "CONSTANT_STRING"}
TokenType(tok) == IF tok \in Names THEN "IDENTIFIER"
                  ELSE IF tok \in Numbers THEN "CONSTANT_NUMBER"
                  ELSE IF tok \in DOMAIN Chars THEN "CONSTANT_CHAR"
                  ELSE IF tok \in Strings THEN "CONSTANT_STRING" ELSE tok
TypeAt(tokens, at) == IF at <= Len(tokens) THEN TokenType(tokens[at]) ELSE "EOF"

\* info is extra_info, of a constant the type of its token; syms (the symbol
\* table, 0 for none) and vt (value_type) are set by the semantic check.
NULL == [type |-> "NULL"]
Node(type, left, right) ==
  [type |-> type, left |-> left, right |-> right, value |-> "", info |-> "",
   syms |-> 0, vt |-> 0]
Leaf(type, value) == [Node(type, NULL, NULL) EXCEPT !.value = value]
ConstantLeaf(tok) == [Leaf("NODE_CONSTANT", tok) EXCEPT !.info = TokenType(tok)]

Crash == Leaf("CRASH", "")

Got(node, at) == [node |-> node, at |-> at]
Failed(at) == Got(NULL, at)
Found(r) == r.node # NULL
Crashing(r) == r.node.type = "CRASH"
Crashes(at) == Got(Crash, at)

-----------------------------------------------------------------------------
\* Expressions.

\* precedences; a type without an entry has 0 and ends an expression.
Precedences ==
  [ADD |-> 120, SUB |-> 120, MUL |-> 130, DIV |-> 130, MOD |-> 130,
   EQUAL |-> 110, GREATER |-> 110, LESS |-> 110, GREATER_EQUAL |-> 110,
   LESS_EQUAL |-> 110, BITAND |-> 130, BITOR |-> 130, ASSIGN |-> 105,
   COLON |-> 110, DOT |-> 150, COMMA |-> 100, OPENPAREN |-> 1000,
   OPENBRACE |-> 90, OPEN_SQUAREBRACKET |-> 140, CLOSE_SQUAREBRACKET |-> 10]
Precedence(type) == IF type \in DOMAIN Precedences THEN Precedences[type] ELSE 0

\* infix_handlers and the nodes of "mapping" they build; NOT_EQUAL, AND and OR
\* have a handler and no precedence, BITAND and BITOR the reverse.
InfixNodes ==
  [ADD |-> "NODE_ADD", SUB |-> "NODE_SUB", MUL |-> "NODE_MUL", DIV |-> "NODE_DIV",
   MOD |-> "NODE_MOD", EQUAL |-> "NODE_EQUAL", GREATER |-> "NODE_GREATER",
   LESS |-> "NODE_LESS", GREATER_EQUAL |-> "NODE_GREATER_EQUAL",
   LESS_EQUAL |-> "NODE_LESS_EQUAL", NOT_EQUAL |-> "NODE_NOT_EQUAL",
   AND |-> "NODE_AND", OR |-> "NODE_OR", ASSIGN |-> "NODE_ASSIGN",
   COLON |-> "NODE_KEYVALUE_PAIR", DOT |-> "NODE_PROPERTY",
   COMMA |-> "NODE_COMMALIST", OPENPAREN |-> "NODE_FUNCCALL",
   OPENBRACE |-> "NODE_CLASSFILL", OPEN_SQUAREBRACKET |-> "NODE_INDEX"]
Closing == [OPENPAREN |-> "CLOSEPAREN", OPENBRACE |-> "CLOSEBRACE",
            OPEN_SQUAREBRACKET |-> "CLOSE_SQUAREBRACKET"]

\* PREFIX_SINGOP: the operator takes one token and "0" for its left operand;
\* neither constant is told what kind it is.
PrefixNodes == [ADD |-> "NODE_ADD", SUB |-> "NODE_SUB", BITAND |-> "NODE_REFER",
                MUL |-> "NODE_DEFER"]
PrefixSingop(tokens, at) ==
  IF at + 1 > Len(tokens) THEN Failed(at)
  ELSE LET right == Leaf(IF TypeAt(tokens, at + 1) = "IDENTIFIER"
                         THEN "NODE_IDENTIFIER" ELSE "NODE_CONSTANT", tokens[at + 1])
       IN  Got(Node(PrefixNodes[TypeAt(tokens, at)], Leaf("NODE_CONSTANT", "0"), right),
               at + 2)

RECURSIVE ParseExpr(_, _, _), Climb(_, _, _), TypeTail(_, _, _, _)

BasicTypes == {"INT", "IDENTIFIER", "VOID", "CHAR", "STRING"}

\* recipe_typekw from the part already read on: a basic type, then * and [n].
\* What is read is freed when it turns out to be no type, even if it is NULL.
TypeTail(tokens, at, root, basic) ==
  LET type == TypeAt(tokens, at)
      size == ParseExpr(tokens, at + 1, Precedence("CLOSE_SQUAREBRACKET"))
      freed == IF root = NULL THEN Crashes(at) ELSE Failed(at)
  IN  CASE type \in BasicTypes ->
             IF root # NULL THEN freed
             ELSE TypeTail(tokens, at + 1, Leaf("NODE_TYPEKW", tokens[at]), TRUE)
        [] type = "MUL" ->
             IF basic THEN TypeTail(tokens, at + 1, Node("NODE_POINTEROF", root, NULL), TRUE)
             ELSE freed
        [] type = "OPEN_SQUAREBRACKET" ->
             IF Crashing(size) THEN size
             ELSE IF Found(size) /\ TypeAt(tokens, size.at) = "CLOSE_SQUAREBRACKET"
             THEN TypeTail(tokens, size.at + 1, Node("NODE_ARRAYOF", root, size.node), basic)
             ELSE freed
        [] OTHER -> Got(root, at)
TypeKw(tokens, at) == TypeTail(tokens, at, NULL, FALSE)

\* A type between parentheses, and the expression it converts.
TypeConvert(tokens, at) ==
  LET conv == TypeKw(tokens, at + 1)
      converted == ParseExpr(tokens, conv.at + 1, 0)
  IN  IF Crashing(conv) THEN conv
      ELSE IF ~Found(conv) \/ TypeAt(tokens, conv.at) # "CLOSEPAREN" THEN Failed(at)
      ELSE IF Crashing(converted) THEN converted
      ELSE IF Found(converted)
      THEN Got(Node("NODE_TYPECONVERT", conv.node, converted.node), converted.at)
      ELSE Failed(at)

\* prefix_handlers, by the type of the first token.
Prefix(tokens, at) ==
  LET type == TypeAt(tokens, at)
      inner == ParseExpr(tokens, at + 1, 0)
  IN  CASE type = "IDENTIFIER" -> Got(Leaf("NODE_IDENTIFIER", tokens[at]), at + 1)
        [] type \in Constants -> Got(ConstantLeaf(tokens[at]), at + 1)
        [] type \in DOMAIN PrefixNodes -> PrefixSingop(tokens, at)
        [] type \in {"OPENPAREN", "OPENBRACE"} /\ Crashing(inner) -> inner
        [] type = "OPENPAREN" ->
             IF ~Found(inner) THEN TypeConvert(tokens, at)
             ELSE IF TypeAt(tokens, inner.at) = "CLOSEPAREN"
             THEN Got(inner.node, inner.at + 1) ELSE Failed(at)
        [] type = "OPENBRACE" ->
             IF TypeAt(tokens, inner.at) = "CLOSEBRACE"
             THEN Got(Node("NODE_ARRAYFILL", inner.node, NULL), inner.at + 1)
             ELSE Failed(at)
        [] OTHER -> Failed(at)

\* infix_handlers: at is behind the operator.  An index may be empty, an
\* argument list may not; a class name must be an identifier.  The left side is
\* NULL when the handler before this one has failed.
Infix(type, left, tokens, at) ==
  LET right == ParseExpr(tokens, at, IF type \in DOMAIN Closing THEN 0
                                     ELSE Precedence(type))
      closed == TypeAt(tokens, right.at) = Closing[type]
      node == IF left = NULL THEN Crash ELSE Node(InfixNodes[type], left, right.node)
  IN  IF type \in {"OPENBRACE", "OPEN_SQUAREBRACKET"} /\ left = NULL THEN Crashes(at)
      ELSE IF type = "OPENBRACE" /\ left.type # "NODE_IDENTIFIER" THEN Failed(at)
      ELSE IF Crashing(right) THEN right
      ELSE IF type = "OPEN_SQUAREBRACKET"
      THEN IF closed THEN Got(node, right.at + 1) ELSE Failed(at)
      ELSE IF ~Found(right) \/ (type \in DOMAIN Closing /\ ~closed) THEN Failed(right.at)
      ELSE Got(node, IF type \in DOMAIN Closing THEN right.at + 1 ELSE right.at)

\* Mutant of Continues: an operator of the same precedence goes on to the right.
ContinuesRight(type, precedence) ==
  Precedence(type) >= precedence /\ type \in DOMAIN InfixNodes /\ Precedence(type) > 0

\* The conditions under which the loop of parse_expr takes the next token.
Continues(type, precedence) ==
  Precedence(type) > precedence /\ type \in DOMAIN InfixNodes

\* The loop of parse_expr, while the next operator binds tighter; it goes on
\* even when a handler has failed.
Climb(tokens, left, precedence) ==
  LET type == TypeAt(tokens, left.at)
  IN  IF ~Crashing(left) /\ Continues(type, precedence)
      THEN Climb(tokens, Infix(type, left.node, tokens, left.at + 1), precedence)
      ELSE left

ParseExpr(tokens, at, precedence) ==
  LET left == Prefix(tokens, at)
  IN  IF Found(left) THEN Climb(tokens, left, precedence) ELSE Failed(at)

-----------------------------------------------------------------------------
\* Statements.

Syntaxes == <<
  [name |-> "vardef", recipe |-> <<"LET", "TOKEN_ID", "COLON", "TOKEN_TYPEKW", "ASSIGN",
                                   "TOKEN_EXPR", "SEMICOLON">>],
  [name |-> "vardef_notype", recipe |-> <<"LET", "TOKEN_ID", "ASSIGN", "TOKEN_EXPR",
                                          "SEMICOLON">>],
  [name |-> "funcdef", recipe |-> <<"FN", "TOKEN_ID", "OPENPAREN", "TOKEN_ARGLIST",
                                    "CLOSEPAREN", "COLON", "TOKEN_TYPEKW", "OPENBRACE",
                                    "TOKEN_STATEMENTS", "CLOSEBRACE">>],
  [name |-> "ext_vardecl", recipe |-> <<"EXTERN", "LET", "TOKEN_ID", "COLON",
                                        "TOKEN_TYPEKW", "SEMICOLON">>],
  [name |-> "ext_funcdecl", recipe |-> <<"EXTERN", "FN", "TOKEN_ID", "OPENPAREN",
                                         "TOKEN_ARGLIST", "CLOSEPAREN", "COLON",
                                         "TOKEN_TYPEKW", "SEMICOLON">>],
  [name |-> "single_expr", recipe |-> <<"TOKEN_EXPR", "SEMICOLON">>],
  [name |-> "if", recipe |-> <<"IF", "TOKEN_EXPR_COND", "OPENBRACE", "TOKEN_STATEMENTS",
                               "CLOSEBRACE">>],
  [name |-> "while", recipe |-> <<"WHILE", "TOKEN_EXPR_COND", "OPENBRACE",
                                  "TOKEN_STATEMENTS", "CLOSEBRACE">>],
  [name |-> "break", recipe |-> <<"BREAK", "SEMICOLON">>],
  [name |-> "return", recipe |-> <<"RETURN", "TOKEN_EXPR", "SEMICOLON">>],
  [name |-> "return_noexpr", recipe |-> <<"RETURN", "SEMICOLON">>],
  [name |-> "class_def", recipe |-> <<"CLASS", "TOKEN_ID", "OPENBRACE",
                                      "TOKEN_CLASS_MEMBERDEF", "CLOSEBRACE">>],
  [name |-> "array_index", recipe |-> <<"TOKEN_ID", "OPEN_SQUAREBRACKET", "TOKEN_EXPR",
                                        "CLOSE_SQUAREBRACKET">>] >>
ElseifRecipe == <<"ELSE", "IF", "TOKEN_EXPR", "OPENBRACE", "TOKEN_STATEMENTS", "CLOSEBRACE">>
ElseRecipe == <<"ELSE", "OPENBRACE", "TOKEN_STATEMENTS", "CLOSEBRACE">>

\* A list of nodes hung into a chain of holders, left the node, right the rest.
RECURSIVE Chain(_, _)
Chain(type, nodes) ==
  IF nodes = <<>> THEN Node(type, NULL, NULL)
  ELSE Node(type, Head(nodes), IF Len(nodes) = 1 THEN NULL ELSE Chain(type, Tail(nodes)))

\* recipe_arglist: pairs of a name and a type between commas; what is read
\* after the last complete pair is given back.  The type is read even where
\* there is no name.
RECURSIVE ArgList(_, _, _, _)
ArgList(tokens, at, end, pairs) ==
  LET named == TypeAt(tokens, at) = "IDENTIFIER"
      type == TypeKw(tokens, IF named THEN at + 1 ELSE at)
      more == Append(pairs, Node("NODE_ARGPAIR", Leaf("NODE_IDENTIFIER", tokens[at]),
                                 type.node))
  IN  IF at > Len(tokens) THEN Got(Chain("NODE_ARGLIST", pairs), end)
      ELSE IF Crashing(type) THEN type
      ELSE IF ~named \/ ~Found(type) THEN Got(Chain("NODE_ARGLIST", pairs), end)
      ELSE IF TypeAt(tokens, type.at) = "COMMA"
      THEN ArgList(tokens, type.at + 1, type.at, more)
      ELSE Got(Chain("NODE_ARGLIST", more), type.at)

\* recipe_class_member: the token behind a member is skipped unseen.
RECURSIVE Members(_, _, _)
Members(tokens, at, members) ==
  LET named == TypeAt(tokens, at) = "IDENTIFIER"
      type == TypeKw(tokens, IF named THEN at + 1 ELSE at)
  IN  IF at > Len(tokens) THEN Got(Chain("NODE_LEAFHOLDER", members), at)
      ELSE IF Crashing(type) THEN type
      ELSE IF ~named \/ ~Found(type) THEN Got(Chain("NODE_LEAFHOLDER", members), at)
      ELSE Members(tokens, type.at + 1,
                   Append(members, Node("NODE_CLASSMEMBER",
                                        Leaf("NODE_IDENTIFIER", tokens[at]), type.node)))

RECURSIVE ParseStatement(_, _), Statements(_, _, _), ByRecipe(_, _, _, _), Branches(_, _)

\* recipe_stmts, up to a closing brace or to what is no statement.
WithStatement(stmt, tokens, at, stmts) ==
  IF Crashing(stmt) THEN stmt
  ELSE IF ~Found(stmt) THEN Got(Chain("NODE_LEAFHOLDER", stmts), at)
  ELSE IF TypeAt(tokens, stmt.at) = "CLOSEBRACE"
  THEN Got(Chain("NODE_LEAFHOLDER", Append(stmts, stmt.node)), stmt.at)
  ELSE Statements(tokens, stmt.at, Append(stmts, stmt.node))
Statements(tokens, at, stmts) ==
  IF at > Len(tokens) THEN Got(Chain("NODE_LEAFHOLDER", stmts), at)
  ELSE WithStatement(ParseStatement(tokens, at), tokens, at, stmts)

\* The chefs of "recipes".
Chefs == {"TOKEN_EXPR", "TOKEN_EXPR_COND", "TOKEN_ID", "TOKEN_STATEMENTS", "TOKEN_ARGLIST",
          "TOKEN_CLASS_MEMBERDEF", "TOKEN_TYPEKW"}
Cook(order, tokens, at) ==
  CASE order = "TOKEN_EXPR" -> ParseExpr(tokens, at, 0)
    [] order = "TOKEN_EXPR_COND" -> ParseExpr(tokens, at, Precedence("OPENBRACE"))
    [] order = "TOKEN_ID" ->
         IF TypeAt(tokens, at) = "IDENTIFIER"
         THEN Got(Leaf("NODE_IDENTIFIER", tokens[at]), at + 1) ELSE Failed(at)
    [] order = "TOKEN_STATEMENTS" -> Statements(tokens, at, <<>>)
    [] order = "TOKEN_ARGLIST" -> ArgList(tokens, at, at, <<>>)
    [] order = "TOKEN_CLASS_MEMBERDEF" -> Members(tokens, at, <<>>)
    [] order = "TOKEN_TYPEKW" -> TypeKw(tokens, at)

\* parse_by_recipe: the nodes collected, or a failure that moves nothing.
NoMatch == [ok |-> FALSE, got |-> <<>>, at |-> 0, crash |-> FALSE]
Served(cooked, tokens, recipe, got) ==
  IF Crashing(cooked) THEN [NoMatch EXCEPT !.crash = TRUE]
  ELSE IF Found(cooked) THEN ByRecipe(tokens, cooked.at, Tail(recipe), Append(got, cooked.node))
  ELSE NoMatch
ByRecipe(tokens, at, recipe, got) ==
  IF recipe = <<>> THEN [NoMatch EXCEPT !.ok = TRUE, !.got = got, !.at = at]
  ELSE IF Head(recipe) \in Chefs
  THEN Served(Cook(Head(recipe), tokens, at), tokens, recipe, got)
  ELSE IF TypeAt(tokens, at) = Head(recipe)
  THEN ByRecipe(tokens, at + 1, Tail(recipe), got) ELSE NoMatch

\* What follows the body of an if or an else-if.  parse_elseif builds no node
\* of its own: it returns the next else-if's, so the chain is always NULL.
WithElsePart(next, else) ==
  [elseif |-> next.elseif,
   crash  |-> next.crash \/ else.crash,
   else   |-> IF else.ok THEN Node("NODE_ELSE", else.got[1], NULL) ELSE NULL,
   at     |-> IF else.ok THEN else.at ELSE next.at]
AfterElseifs(next, tokens) == WithElsePart(next, ByRecipe(tokens, next.at, ElseRecipe, <<>>))
AfterBody(elseif, tokens, at) ==
  AfterElseifs(IF elseif.ok THEN Branches(tokens, elseif.at)
               ELSE [elseif |-> NULL, at |-> at, crash |-> elseif.crash], tokens)
Branches(tokens, at) == AfterBody(ByRecipe(tokens, at, ElseifRecipe, <<>>), tokens, at)

\* The builders of "syntaxes".  The one of return_noexpr is parse_return, which
\* reads a node that was not collected: the compiler crashes.
IfNode(got, b) ==
  IF b.crash THEN Crashes(b.at)
  ELSE Got(Node("NODE_IF", got[1],
           Node("NODE_LEAFHOLDER", got[2], IF b.elseif # NULL THEN b.elseif ELSE b.else)), b.at)
Holder(left, right) == Node("NODE_LEAFHOLDER", left, right)
Build(name, got, tokens, at) ==
  CASE name = "vardef" -> Got(Node("NODE_DEFINITION", Holder(got[1], got[2]), got[3]), at)
    [] name = "vardef_notype" -> Got(Node("NODE_DEFINITION", Holder(got[1], NULL), got[2]), at)
    [] name = "funcdef" ->
         Got(Node("NODE_FUNCTION", Holder(got[1], got[3]), Holder(got[2], got[4])), at)
    [] name = "ext_vardecl" -> Got(Node("NODE_DECLARE_VAR", got[1], got[2]), at)
    [] name = "ext_funcdecl" ->
         Got(Node("NODE_DECLARE_FUNC", Holder(got[1], got[3]), got[2]), at)
    [] name = "single_expr" -> Got(Node("NODE_SINGLEEXPR", got[1], NULL), at)
    [] name = "if" -> IfNode(got, Branches(tokens, at))
    [] name = "while" -> Got(Node("NODE_WHILE", got[1], got[2]), at)
    [] name = "break" -> Got(Node("NODE_BREAK", NULL, NULL), at)
    [] name = "return" -> Got(Node("NODE_RETURN", got[1], NULL), at)
    [] name = "return_noexpr" -> Crashes(at)
    [] name = "array_index" -> Got(Node("NODE_INDEX", got[1], got[2]), at)
    [] name = "class_def" -> Got(Node("NODE_CLASS", got[1], got[2]), at)

\* parse_statement: the first syntax whose recipe fits.
RECURSIVE FirstSyntax(_, _, _)
Fitting(r, tokens, at, k) ==
  IF r.crash THEN Crashes(at)
  ELSE IF r.ok THEN Build(Syntaxes[k].name, r.got, tokens, r.at)
  ELSE FirstSyntax(tokens, at, k + 1)
FirstSyntax(tokens, at, k) ==
  IF k > Len(Syntaxes) THEN Failed(at)
  ELSE Fitting(ByRecipe(tokens, at, Syntaxes[k].recipe, <<>>), tokens, at, k)
ParseStatement(tokens, at) == FirstSyntax(tokens, at, 1)

\* do_parse: NULL as soon as a statement is invalid.
RECURSIVE FileStatements(_, _, _)
AfterStatement(stmt, tokens, stmts) ==
  IF Crashing(stmt) THEN Crash
  ELSE IF Found(stmt) THEN FileStatements(tokens, stmt.at, Append(stmts, stmt.node)) ELSE NULL
FileStatements(tokens, at, stmts) ==
  IF at > Len(tokens) THEN Chain("NODE_LEAFHOLDER", stmts)
  ELSE AfterStatement(ParseStatement(tokens, at), tokens, stmts)
DoParse(tokens) == FileStatements(tokens, 1, <<>>)
=============================================================================
