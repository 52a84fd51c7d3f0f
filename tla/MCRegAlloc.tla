----------------------------- MODULE MCRegAlloc -----------------------------
(* Instances of RegAlloc: names of locals are positive numbers.            *)
EXTENDS RegAlloc
NoLocals == {<<>>}
OneLocal == {<<>>, <<1>>, <<2>>}
AllOps == {"leaf", "binary", "compare", "use", "function"}
=============================================================================
