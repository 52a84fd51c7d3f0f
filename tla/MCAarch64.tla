----------------------------- MODULE MCAarch64 -----------------------------
(* Programs for Aarch64.  x and y come from outside, every variable takes   *)
(* whole words and calls have one argument.                                 *)
EXTENDS Aarch64, MCCompile

Given(body) == <<Let("x", IntT, Call("f", <<Num(1)>>)), Let("y", IntT, Call("f", <<Num(2)>>))>> \o body
F(e) == Call("f", <<e>>)
One == F(Num(1))

\* Values that wait while others are computed, calls among them.  In a let and
\* in a return a call that passes on a variable is rejected.
Small == {X, Num(1), One, Op("MOD", X, Y), Op("LESS", X, Y)}
Medium == Small \union {Op(o, X, r) : o \in {"SUB", "MUL", "MOD"}, r \in Small}
Free == Medium \union {F(e) : e \in Medium}
Waits == {<<Return(Op(o, l, r))>> : o \in {"ADD", "MOD", "GREATER_EQUAL"}, l \in Small, r \in Medium}
         \union {<<Assign("x", Op("SUB", l, Op("DIV", X, e))), Return(X)>> : l \in {Y, F(Y)}, e \in Free}

\* Objects and arrays.
Pair(e) == Object(<<"m", "n">>, <<e, Num(2)>>)
Twos(a, b) == Array(<<Num(a), Num(b)>>)
Larger == {<<Let("u", ClassT, Pair(e)), CallF("f", <<X>>), Return(FirstMember("u"))>> : e \in Small}
          \union {<<Let("u", <<>>, Twos(1, 2)), While(Op("LESS", X, Y), b), CallF("f", <<Y>>),
                    Return(Op("ADD", X, One))>> :
                    b \in {<<Assign("u", Twos(2, 1)), Assign("x", Y)>>,
                           <<Assign("u", Twos(2, 1)), Assign("x", F(Y)), Assign("y", X)>>,
                           <<If(Y, <<Assign("u", Twos(2, 0)), Break>>), Assign("y", F(X))>>,
                           <<Assign("u", Twos(2, 1)), Break, Assign("u", Twos(1, 1))>>}}
          \union {<<Let("u", <<>>, Twos(1, 2)), Let("v", <<>>, Twos(2, 2)),
                    If(X, <<Assign("u", Twos(0, 1)), CallF("f", <<Y>>)>>), CallF("f", <<X>>), Return(One)>>}
          \union {<<Let("u", <<>>, Twos(1, 2)), If(X, <<Assign("u", Twos(0, 1))>>), s, CallF("f", <<X>>), Return(Y)>> :
                    s \in {Let("v", <<>>, Twos(2, 2)), Assign("u", Twos(2, 2)),
                           While(Op("LESS", X, Y), <<Assign("u", Twos(2, 1)), Assign("x", Y)>>)}}

\* Pointers.
Pointers == {<<Let("p", t, AddressOf(n)), Store("p", e), CallF("f", <<X>>), Return(Op("SUB", X, Y))>> :
               t \in {<<>>, PointerTo(IntT)}, n \in {"x", "y"}, e \in Free}

\* Control flow around calls.
Paths == {<<While(Op("LESS", X, Y), b), Return(X)>> : b \in Bodies}
         \union {<<If(l, b), While(r, c), Assign("x", Op("ADD", X, F(X))), Return(X)>> :
                   l, r \in {One, Op("LESS", X, One)},
                   b \in Short({CallF("f", <<X>>), Return(Y)}), c \in Short({Assign("x", Y), Break, Assign("y", F(Y))})}

Translated == {Given(body) : body \in Waits \union Larger \union Pointers \union Paths}
=============================================================================
