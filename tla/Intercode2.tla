----------------------------- MODULE Intercode2 -----------------------------
(***************************************************************************)
(* intercode2.c: process_intercode puts the data of gen_intercode's list   *)
(* into a section of its own, and a FREE behind the last use of every      *)
(* temporary, so that the back ends may give its register away.  The       *)
(* places of codes count from 1.                                           *)
(***************************************************************************)
EXTENDS Integers, Sequences, SequencesExt

\* intercode_t, and the operands that this pass looks at.
Code(op, op1, op2, op3) == [op |-> op, op1 |-> op1, op2 |-> op2, op3 |-> op3]
Empty == <<"empty">>
TmpOp(t) == <<"tmp", t>>
ImmOp(n) == <<"imm", n>>
AddrOp(x) == <<"addr", x>>
StringOp(text) == <<"string", text>>

\* used_this_tmpvar
UsedIn(op, t) == op[1] \in {"tmp", "offset"} /\ op[2] = t
UsesTmp(code, t) == UsedIn(code.op1, t) \/ UsedIn(code.op2, t) \/ UsedIn(code.op3, t)

-----------------------------------------------------------------------------
\* The sections.  The globals and the strings go to the data section, each
\* string under a label that takes its place.

ConstLabel(k) == IF k = 0 THEN "const__" ELSE "const__" \o ToString(k)
Extract(data, code) ==
  CASE code.op = "ALLOC_GLOBAL" ->
         Append(data, Code("GLOBAL_VAR_DATA", code.op1, ImmOp(0), Empty))
    [] code.op2[1] = "string" ->
         LET used == Cardinality({i \in 1 .. Len(data) : data[i].op = "DATA"})
         IN  Append(data, Code("DATA", AddrOp(ConstLabel(used)), code.op2, Empty))
    [] OTHER -> data
UnderLabel(codes, i) ==
  LET used == Cardinality({j \in 1 .. i - 1 : codes[j].op2[1] = "string"})
  IN  IF codes[i].op2[1] = "string"
      THEN [codes[i] EXCEPT !.op2 = StringOp(ConstLabel(used))] ELSE codes[i]
Sections(codes) ==
  <<Code("DATA_SECTION", Empty, Empty, Empty)>> \o FoldLeft(Extract, <<>>, codes)
    \o <<Code("TEXT_SECTION", Empty, Empty, Empty)>>
    \o [i \in 1 .. Len(codes) |-> UnderLabel(codes, i)]

-----------------------------------------------------------------------------
\* The life spans: the temporaries in the order of their ALLOC_TMPs, with the
\* place of the last use so far.  A use before the allocation is not seen.
Collect(spans, x) ==
  IF x.code.op = "ALLOC_TMP"
  THEN Append(spans, [tmp |-> x.code.op1[2], last |-> x.at])
  ELSE [k \in 1 .. Len(spans) |->
          IF UsesTmp(x.code, spans[k].tmp) THEN [spans[k] EXCEPT !.last = x.at] ELSE spans[k]]
Spans(codes) ==
  FoldLeft(Collect, <<>>, [i \in 1 .. Len(codes) |-> [code |-> codes[i], at |-> i]])

\* The bubble sort, the last used first.
SortStep(spans, j) ==
  IF spans[j].last < spans[j + 1].last
  THEN SubSeq(spans, 1, j - 1) \o <<spans[j + 1], spans[j]>> \o SubSeq(spans, j + 2, Len(spans))
  ELSE spans

\* Mutant of SortPass: one comparison less.
SortPassShort(spans, i) == FoldLeft(SortStep, spans, [j \in 1 .. Len(spans) - i - 1 |-> j])
SortPass(spans, i) == FoldLeft(SortStep, spans, [j \in 1 .. Len(spans) - i |-> j])
SortSpans(spans) == FoldLeft(SortPass, spans, [i \in 1 .. Len(spans) |-> i])

-----------------------------------------------------------------------------
\* The FREEs.

\* Mutant of InsertFree: in front of the last use.
InsertFreeBefore(codes, span) ==
  InsertAt(codes, span.last, Code("FREE", TmpOp(span.tmp), Empty, Empty))
InsertFree(codes, span) ==
  InsertAt(codes, span.last + 1, Code("FREE", TmpOp(span.tmp), Empty, Empty))

\* Mutant of InsertFrees: the loop begins behind the first.
InsertFreesButFirst(codes) ==
  LET spans == SortSpans(Spans(codes))
  IN  FoldLeft(InsertFree, codes, SubSeq(spans, 2, Len(spans)))
InsertFrees(codes) == FoldLeft(InsertFree, codes, SortSpans(Spans(codes)))

\* list_insert's assertion: there is a code behind the place.
Fits(codes, span) == span.last < Len(codes)
AllFit(codes) ==
  LET spans == Spans(codes) IN \A k \in 1 .. Len(spans) : Fits(codes, spans[k])

ProcessIntercode(codes) == InsertFrees(Sections(codes))

-----------------------------------------------------------------------------
\* What gen_intercode hands over: every temporary that is allocated is
\* allocated once, and nothing is freed yet.
AllocatesOnce(codes) ==
  /\ \A i \in 1 .. Len(codes) :
       /\ codes[i].op # "FREE"
       /\ codes[i].op = "ALLOC_TMP" =>
            /\ codes[i].op1[1] = "tmp"
            /\ codes[i].op2[1] \notin {"tmp", "offset"} /\ codes[i].op3[1] \notin {"tmp", "offset"}
  /\ \A i, j \in 1 .. Len(codes) :
       codes[i].op = "ALLOC_TMP" /\ codes[j].op = "ALLOC_TMP" /\ codes[i].op1[2] = codes[j].op1[2]
         => i = j

\* Every temporary is freed once, and neither before its last use nor later
\* than directly behind it: "for each tmpvar, find the last usage of it and
\* insert free code after it" (intercode2.c:100).
FreesAt(codes, t) == {i \in 1 .. Len(codes) : codes[i] = Code("FREE", TmpOp(t), Empty, Empty)}
FreesBehindUses(codes) ==
  \A i \in 1 .. Len(codes) : codes[i].op = "ALLOC_TMP" =>
    \E f \in FreesAt(codes, codes[i].op1[2]) :
      /\ FreesAt(codes, codes[i].op1[2]) = {f}
      /\ \A j \in f + 1 .. Len(codes) : ~UsesTmp(codes[j], codes[i].op1[2])
      /\ \E j \in i .. f - 1 :
           /\ UsesTmp(codes[j], codes[i].op1[2])
           /\ \A k \in j + 1 .. f - 1 : codes[k].op = "FREE"
=============================================================================
