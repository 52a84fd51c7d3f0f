------------------------------ MODULE MCAmd64 ------------------------------
(* Amd64 with the register tables of the System V entry of abis            *)
(* (asmgen.c:87-95): rax rcx rdx rsi rdi r8 r9 r10 r11, 7 of them offered; *)
(* and with four registers, three of them offered and one for an argument, *)
(* so that values spill and arguments overflow.                            *)
EXTENDS Amd64
SystemVArgs == <<4, 3, 2, 1, 5, 6>>
OneArg == <<1>>
TwoLocals == {<<1, 2>>}
OneOrTwo == {<<1>>, <<1, 2>>}
NoneOrOne == {<<>>, <<1>>}
AllOps == {"leaf", "variable", "binary", "compare", "use", "call", "function"}
EveryOp == AllOps \union {"multiply"}
=============================================================================
