----------------------------- MODULE MCCompile -----------------------------
(* Programs for Compile: two levels of if and while, loops with breaks and  *)
(* returns in every place, every expression of two levels with one operator *)
(* of each precedence and comparison below, lets of every type, well-typed  *)
(* or not, lets inside of blocks, and the forms that the parser refuses.    *)
EXTENDS Compile

AllNames == {"main", "x", "y", "f", "a", "u", "v", "p", "A", "m", "n"}
AllNumbers == {"0", "1", "2"}
AllStrings == {"\"s\""}
AllChars == "'c'" :> 99

X == Id("x")
Y == Id("y")
C == Chr("'c'", 99)
S == Str("\"s\"")

\* Control flow.
Leaves == {Assign("x", Y), CallF("f", <<X, Num(1)>>), Return(Y)}
LoopLeaves == {Assign("x", Y), Break, Return(Y)}
Short(stmts) == {<<>>} \union {<<s>> : s \in stmts}

Inner == {If(X, b) : b \in Short(LoopLeaves)} \union {While(X, b) : b \in Short(LoopLeaves)}
Bodies == Short(LoopLeaves \union Inner)
          \union {<<s, t>> : s, t \in LoopLeaves \union Inner}

Nested == {<<If(Op("EQUAL", X, Y), b), Assign("y", X)>> :
             b \in Short(Leaves) \union {<<If(Y, <<Return(X)>>), s>> : s \in Leaves}}
          \union {<<While(Op("LESS", X, Y), b), Assign("y", X)>> : b \in Bodies}

\* Expressions.
Ops == {"ADD", "SUB", "MUL", "DIV", "MOD", "EQUAL", "LESS", "GREATER",
        "LESS_EQUAL", "GREATER_EQUAL"}
OneOp == {X, Num(1)} \union {Op(o, X, Y) : o \in {"ADD", "MOD", "EQUAL", "LESS", "GREATER_EQUAL"}}
Expressions == {<<Return(Op(o, l, r))>> : o \in Ops \union {"COMMA"},
                                          l, r \in OneOp \union {Op("COMMA", X, Y)}}
               \union {<<CallF("f", <<l, r>>)>> : l, r \in OneOp}
               \union {<<Assign("x", Op(o, Call("f", <<X>>), Y))>> : o \in {"ADD", "LESS"}}

\* Lets.
Types == {<<>>, IntT, CharT, StringT, ClassT, PointerTo(IntT), PointerTo(PointerTo(IntT))}
Atoms == {X, Num(1), C, S, Id("v"), AddressOf("x"), AddressOf("v")}
Lets == {<<Let("u", t, e), Return(r)>> :
           t \in Types, r \in {Num(0), Id("u")},
           e \in Atoms \union {Op("ADD", X, C), Op("SUB", C, S), Call("f", <<C>>), Call("f", <<S>>),
                               Array(<<Num(1), Num(2)>>),
                               Object(<<"m", "n">>, <<Num(1), Num(2)>>),
                               Object(<<"n", "m">>, <<Num(1), Num(2)>>)}}
        \union {<<Let("v", <<>>, d), Let("u", t, e), Return(Id("u"))>> :
                  t \in Types, d \in {X, S, AddressOf("x")}, e \in {Id("v"), AddressOf("v"), AddressOf("x")}}
        \union {<<Let(n, IntT, X), Let("v", t, C), Return(X)>> : n \in {"x", "v", "u"}, t \in Types}
        \union {<<Let("p", t, AddressOf("x")), Store("p", e), Return(X)>> :
                  t \in {<<>>, PointerTo(IntT)}, e \in {Y, Op("ADD", X, Y)}}
        \union {<<Let("u", ClassT, Object(<<"m", "n">>, <<Y, Num(2)>>)), Return(FirstMember("u"))>>}

\* Lets in blocks, of a name of its own and of one that main has.
Around(b) == {<<If(X, b), Return(Y)>>, <<While(Op("LESS", X, Y), Append(b, Break)), Return(Y)>>}
BlockLets == UNION {Around(<<Let(n, t, e)>> \o s) :
                      n \in {"u", "x"}, t \in {<<>>, IntT}, e \in {X, Op("ADD", X, Y)},
                      s \in {<<>>, <<Assign("y", Id("u"))>>, <<CallF("f", <<Id("u")>>)>>,
                             <<If(Y, <<Let("v", IntT, X)>>)>>}}

\* What the README lists and the parser does not take.
Differ == Op("NOT_EQUAL", X, Y)
Tests == {X, Op("LESS", X, Num(1)), Op("EQUAL", X, Y), Call("f", <<X>>)}
Unread == {<<Return(Op(o, Differ, X))>> : o \in Ops} \union {<<Return(Differ)>>, <<While(Differ, <<Break>>)>>}
           \union {<<IfElse(X, b, <<c>>), Return(Y)>> :
                     b \in Short(Leaves), c \in {If(e, b2) : e \in Tests, b2 \in Short(Leaves)}
                                               \union {IfElse(Y, <<Break>>, <<Return(X)>>)}}
           \union {<<s>> : s \in {ReturnNothing, If(X, <<ReturnNothing>>), While(X, <<ReturnNothing>>)}}

\* Every main has two integers.
Main(body) == <<Let("x", IntT, Num(0)), Let("y", IntT, Num(1))>> \o body

Supported == {Main(body) : body \in Nested \union Expressions \union Lets \union BlockLets}
             \union {Main(body) : body \in Unread}

WithElse == {Main(<<IfElse(X, <<Assign("x", Y)>>, <<Assign("y", X)>>)>>)}

ZeroOne == {0, 1}
SignedBits == {-1, 0, 1}
=============================================================================
