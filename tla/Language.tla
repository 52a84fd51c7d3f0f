------------------------------ MODULE Language ------------------------------
(***************************************************************************)
(* What a program means, by the README ("Most operators are the same as    *)
(* C"): the abstract machine that the compiled code is compared with.      *)
(*                                                                         *)
(* A program is the body of main; the function f and the class A are       *)
(* declared in front of it.  Its                                           *)
(* machine [todo, vals] has the list of what is still to be done and a     *)
(* stack of values; what an observer sees of it are the variables and      *)
(* members read and written, what is stored through pointers, the calls    *)
(* and the value returned.  A value is a tuple: <<n>> for a number,        *)
(* <<"string", s>>, <<"addr", x>>, <<"array", vs>> for an object of more   *)
(* than one word, <<op, l, r>> for the result of an operator, so that      *)
(* equal values were computed alike.                                       *)
(***************************************************************************)
EXTENDS Integers, Sequences, SequencesExt

Id(name) == [e |-> "id", name |-> name]
Num(n) == [e |-> "num", n |-> n]
Chr(tok, n) == [e |-> "chr", tok |-> tok, n |-> n]
Str(tok) == [e |-> "str", tok |-> tok]
Op(op, l, r) == [e |-> "op", op |-> op, l |-> l, r |-> r]
AddressOf(name) == [e |-> "addr", name |-> name]
Call(f, es) == [e |-> "call", f |-> f, es |-> es]
Array(es) == [e |-> "array", es |-> es]
Object(names, es) == [e |-> "object", names |-> names, es |-> es]
FirstMember(name) == [e |-> "member", name |-> name]

\* A type is the sequence of its tokens; a let with the type <<>> has none.
IntT == <<"INT">>
CharT == <<"CHAR">>
StringT == <<"STRING">>
ClassT == <<"A">>
PointerTo(t) == Append(t, "MUL")

Let(name, type, e) == [s |-> "let", name |-> name, type |-> type, e |-> e]
Assign(name, e) == [s |-> "assign", name |-> name, e |-> e]
Store(name, e) == [s |-> "store", name |-> name, e |-> e]
CallF(f, es) == [s |-> "call", e |-> Call(f, es)]
If(e, then) == [s |-> "if", e |-> e, then |-> then, else |-> <<>>]
IfElse(e, then, else) == [s |-> "if", e |-> e, then |-> then, else |-> else]
While(e, body) == [s |-> "while", e |-> e, body |-> body]
Break == [s |-> "break"]
Return(e) == [s |-> "return", e |-> e]
ReturnNothing == [s |-> "leave"]

-----------------------------------------------------------------------------
\* Its spelling, with no more parentheses than C needs.

Level(op) == CASE op \in {"MUL", "DIV", "MOD"} -> 3
               [] op \in {"ADD", "SUB"} -> 2
               [] op = "COMMA" -> 0
               [] OTHER -> 1

Paren(tokens, needed) == IF needed THEN <<"OPENPAREN">> \o tokens \o <<"CLOSEPAREN">>
                         ELSE tokens
Below(e, level) == e.e = "op" /\ Level(e.op) < level
Braces(tokens) == <<"OPENBRACE">> \o tokens \o <<"CLOSEBRACE">>

RECURSIVE SpellExpr(_), SpellList(_), Spell(_)
\* A comparison behind a colon needs parentheses: the colon binds as tightly.
Named(names, es, i) == <<names[i], "COLON">> \o Paren(SpellExpr(es[i]), Below(es[i], 2))
                         \o (IF i = Len(es) THEN <<>> ELSE <<"COMMA">>)
SpellExpr(e) ==
  CASE e.e = "id" -> <<e.name>>
    [] e.e = "num" -> <<ToString(e.n)>>
    [] e.e \in {"chr", "str"} -> <<e.tok>>
    [] e.e = "op" -> Paren(SpellExpr(e.l), Below(e.l, Level(e.op)))
                       \o <<e.op>> \o Paren(SpellExpr(e.r), Below(e.r, Level(e.op) + 1))
    [] e.e = "addr" -> <<"BITAND", e.name>>
    [] e.e = "call" -> <<e.f, "OPENPAREN">> \o SpellList(e.es) \o <<"CLOSEPAREN">>
    [] e.e = "array" -> Braces(SpellList(e.es))
    [] e.e = "object" ->
         ClassT \o Braces(FlattenSeq([i \in 1 .. Len(e.es) |-> Named(e.names, e.es, i)]))
    [] e.e = "member" -> <<e.name, "DOT", "m">>

SpellList(es) == IF es = <<>> THEN <<>>
                 ELSE Paren(SpellExpr(Head(es)), Below(Head(es), 1))
                        \o (IF Len(es) = 1 THEN <<>> ELSE <<"COMMA">> \o SpellList(Tail(es)))

SpellStmt(s) ==
  CASE s.s = "let" -> <<"LET", s.name>> \o (IF s.type = <<>> THEN <<>> ELSE <<"COLON">> \o s.type)
                        \o <<"ASSIGN">> \o SpellExpr(s.e) \o <<"SEMICOLON">>
    [] s.s = "assign" -> <<s.name, "ASSIGN">> \o Paren(SpellExpr(s.e), Below(s.e, 1))
                           \o <<"SEMICOLON">>
    [] s.s = "store" -> <<"MUL", s.name, "ASSIGN">> \o Paren(SpellExpr(s.e), Below(s.e, 1))
                          \o <<"SEMICOLON">>
    [] s.s = "call" -> SpellExpr(s.e) \o <<"SEMICOLON">>
    [] s.s = "if" -> <<"IF">> \o SpellExpr(s.e) \o Braces(Spell(s.then))
                       \o (IF s.else = <<>> THEN <<>> ELSE <<"ELSE">> \o
                           (IF Len(s.else) = 1 /\ s.else[1].s = "if" THEN Spell(s.else)
                            ELSE Braces(Spell(s.else))))
    [] s.s = "while" -> <<"WHILE">> \o SpellExpr(s.e) \o Braces(Spell(s.body))
    [] s.s = "break" -> <<"BREAK", "SEMICOLON">>
    [] s.s = "return" -> <<"RETURN">> \o SpellExpr(s.e) \o <<"SEMICOLON">>
    [] s.s = "leave" -> <<"RETURN", "SEMICOLON">>
Spell(stmts) == IF stmts = <<>> THEN <<>> ELSE SpellStmt(Head(stmts)) \o Spell(Tail(stmts))

SpellParams(names) ==
  <<"OPENPAREN">> \o Tail(FlattenSeq([i \in 1 .. Len(names) |-> <<"COMMA", names[i], "INT">>]))
    \o <<"CLOSEPAREN", "COLON", "INT">>
SpellMain(stmts) ==
  <<"CLASS", "A">> \o Braces(<<"m", "INT", "SEMICOLON", "n", "INT", "SEMICOLON">>)
    \o <<"EXTERN", "FN", "f">> \o SpellParams(<<"a">>) \o <<"SEMICOLON">>
    \o <<"FN", "main", "OPENPAREN", "CLOSEPAREN", "COLON", "INT">> \o Braces(Spell(stmts))

-----------------------------------------------------------------------------
\* Its types: the lets and returns of the body itself, in order.  What stands
\* in other statements is not looked at (see the README).

Untyped == <<"untyped">>
IsPointer(t) == Last(t) = "MUL"
\* reference.md: int and pointer, string and pointer, char and int.
Compatible(t, u) == \/ t = u \/ {t, u} = {IntT, CharT}
                    \/ IsPointer(t) /\ u \in {IntT, StringT}
                    \/ IsPointer(u) /\ t \in {IntT, StringT}

RECURSIVE TypeIn(_, _)
BothTypes(t, u) == IF Untyped \in {t, u} \/ ~Compatible(t, u) THEN Untyped ELSE t
TypeIn(e, env) ==
  CASE e.e = "id" -> IF e.name \in DOMAIN env THEN env[e.name] ELSE Untyped
    [] e.e = "num" -> IntT
    [] e.e = "chr" -> CharT
    [] e.e = "str" -> StringT
    [] e.e = "op" -> BothTypes(TypeIn(e.l, env), TypeIn(e.r, env))
    [] e.e = "addr" -> IF e.name \in DOMAIN env THEN PointerTo(env[e.name]) ELSE Untyped
    [] e.e = "call" -> BothTypes(IntT, TypeIn(e.es[1], env))
    [] e.e = "array" -> Append(TypeIn(Last(e.es), env), "OF")
    [] e.e = "object" -> ClassT
    [] e.e = "member" -> IF e.name \in DOMAIN env /\ env[e.name] = ClassT THEN IntT ELSE Untyped

RECURSIVE TypedIn(_, _)
LetTyped(s, t, env) ==
  /\ s.name \notin DOMAIN env /\ t # Untyped /\ (s.type = <<>> \/ Compatible(s.type, t))
LetType(s, t) == IF s.type = <<>> THEN t ELSE s.type
With(env, name, t) == [n \in DOMAIN env \union {name} |-> IF n = name THEN t ELSE env[n]]
TypedIn(stmts, env) ==
  IF stmts = <<>> THEN TRUE
  ELSE LET s == Head(stmts)
           t == TypeIn(s.e, env)
       IN  CASE s.s = "let" -> LetTyped(s, t, env)
                                 /\ TypedIn(Tail(stmts), With(env, s.name, LetType(s, t)))
             [] s.s = "return" -> t # Untyped /\ Compatible(IntT, t) /\ TypedIn(Tail(stmts), env)
             [] OTHER -> TypedIn(Tail(stmts), env)
WellTyped(stmts) == TypedIn(stmts, [n \in {} |-> IntT])

-----------------------------------------------------------------------------
\* Its meaning.

Truth(b) == IF b THEN <<1>> ELSE <<0>>
Numbers2(l, r) == Len(l) = 1 /\ Len(r) = 1
Apply(op, l, r) ==
  CASE op = "EQUAL" -> Truth(l = r)
    [] op = "NOT_EQUAL" -> Truth(l # r)
    [] op = "LESS" -> Truth(Numbers2(l, r) /\ l[1] < r[1])
    [] op = "GREATER" -> Truth(Numbers2(l, r) /\ l[1] > r[1])
    [] op = "LESS_EQUAL" -> Truth(Numbers2(l, r) /\ l[1] <= r[1])
    [] op = "GREATER_EQUAL" -> Truth(Numbers2(l, r) /\ l[1] >= r[1])
    [] op = "COMMA" -> r
    [] OTHER -> <<op, l, r>>

Do(what, x) == <<what, x>>
Steps(what, xs) == [i \in 1 .. Len(xs) |-> Do(what, xs[i])]

\* Where a break goes on: behind the innermost loop.
AfterLoop(todo) ==
  LET loop == CHOOSE i \in 1 .. Len(todo) :
                todo[i][1] = "again" /\ \A j \in 1 .. i - 1 : todo[j][1] # "again"
  IN  SubSeq(todo, loop + 1, Len(todo))

Expand(s, rest) ==
  CASE s.s \in {"let", "assign"} -> <<Do("eval", s.e), Do("write", s.name)>> \o rest
    [] s.s = "store" -> <<Do("eval", s.e), Do("eval", Id(s.name)), Do("store", "")>> \o rest
    [] s.s = "call" -> <<Do("eval", s.e), Do("drop", "")>> \o rest
    [] s.s = "if" -> <<Do("eval", s.e), Do("test", <<Steps("stmt", s.then),
                                                     Steps("stmt", s.else)>>)>> \o rest
    [] s.s = "while" -> <<Do("eval", s.e),
                          Do("test", <<Append(Steps("stmt", s.body), Do("again", s)), <<>>>>)>>
                          \o rest
    [] s.s = "break" -> AfterLoop(rest)
    [] s.s = "return" -> <<Do("eval", s.e), Do("return", "")>>
    [] s.s = "leave" -> <<Do("eval", Num(0)), Do("return", "")>>

Top(vals) == vals[Len(vals)]
Drop(vals, n) == SubSeq(vals, 1, Len(vals) - n)
TopN(vals, n) == SubSeq(vals, Len(vals) - n + 1, Len(vals))

\* The members of an object are m and n.
InOrder(names, vs) == IF names[1] = "m" THEN vs ELSE Reverse(vs)

Parts(e) ==
  CASE e.e = "op" -> <<Do("eval", e.l), Do("eval", e.r), Do("op", e.op)>>
    [] e.e = "call" -> Steps("eval", e.es) \o <<Do("call", <<e.f, Len(e.es)>>)>>
    [] e.e = "array" -> Steps("eval", e.es) \o <<Do("array", Len(e.es))>>
    [] e.e = "object" -> Steps("eval", InOrder(e.names, e.es)) \o <<Do("array", Len(e.es))>>
Known(e) == CASE e.e \in {"num", "chr"} -> <<e.n>>
              [] e.e = "str" -> <<"string", e.tok>>
              [] e.e = "addr" -> <<"addr", e.name>>

Shown(what, x) == \/ what \in {"write", "store", "call", "return"}
                  \/ what = "eval" /\ x.e \in {"id", "member"}

\* The machine goes on by itself to the next thing an observer can see.
RECURSIVE Unfold(_)
Unfold(m) ==
  IF m.todo = <<>> THEN [todo |-> <<Do("return", "")>>, vals |-> <<<<0>>>>]
  ELSE LET what == Head(m.todo)[1]
           x == Head(m.todo)[2]
           rest == Tail(m.todo)
           go(todo, vals) == Unfold([todo |-> todo, vals |-> vals])
       IN  IF Shown(what, x) THEN m
           ELSE CASE what \in {"stmt", "again"} -> go(Expand(x, rest), m.vals)
                  [] what = "drop" -> go(rest, Drop(m.vals, 1))
                  [] what = "test" -> go((IF Top(m.vals) = <<1>> THEN x[1] ELSE x[2])
                                           \o rest, Drop(m.vals, 1))
                  [] what = "op" -> go(rest, Append(Drop(m.vals, 2),
                                         Apply(x, m.vals[Len(m.vals) - 1], Top(m.vals))))
                  [] what = "array" -> go(rest, Append(Drop(m.vals, x),
                                                       <<"array", TopN(m.vals, x)>>))
                  [] what = "eval" ->
                       IF x.e \in {"op", "call", "array", "object"}
                       THEN go(Parts(x) \o rest, m.vals)
                       ELSE go(rest, Append(m.vals, Known(x)))

Meaning(stmts) == Unfold([todo |-> Steps("stmt", stmts), vals |-> <<>>])

\* What the observer sees next.
EventOf(m) ==
  LET what == Head(m.todo)[1]
      x == Head(m.todo)[2]
  IN  CASE what = "eval" /\ x.e = "id" -> <<"read", x.name>>
        [] what = "eval" -> <<"load", <<"addr", x.name>>, 0>>
        [] what = "write" -> <<"write", x, Top(m.vals)>>
        [] what = "store" -> <<"store", Top(m.vals), m.vals[Len(m.vals) - 1]>>
        [] what = "call" -> <<"call", x[1], TopN(m.vals, x[2])>>
        [] what = "return" -> <<"return", Top(m.vals)>>

\* The machine behind its event, with the value a read or a call has found.
Seen(m, value) ==
  LET what == Head(m.todo)[1]
      x == Head(m.todo)[2]
      vals == CASE what = "eval" -> Append(m.vals, value)
                [] what = "call" -> Append(Drop(m.vals, x[2]), value)
                [] what = "store" -> Drop(m.vals, 2)
                [] OTHER -> Drop(m.vals, 1)
  IN  IF what = "return" THEN [todo |-> <<>>, vals |-> <<>>]
      ELSE Unfold([todo |-> Tail(m.todo), vals |-> vals])
=============================================================================
