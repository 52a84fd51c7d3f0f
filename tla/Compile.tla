------------------------------ MODULE Compile ------------------------------
(***************************************************************************)
(* The compiler from tokens to intermediate code, and a run of that code   *)
(* next to the program it was made from.                                   *)
(*                                                                         *)
(* main.c calls the parser, do_sematic, gen_intercode and                  *)
(* process_intercode once each; the code that comes out is then carried    *)
(* out instruction by instruction, with any values in the variables it     *)
(* reads.  The program's own machine (Language) moves along whenever the   *)
(* code does something that can be seen from outside.  The lists are taken *)
(* to keep their contents.                                                 *)
(***************************************************************************)
EXTENDS Intercode, Language

CONSTANTS
  Programs,      \* the bodies of main that are compiled
  Values         \* the numbers that its variables may hold

ASSUME ValuesAssumption == \A n \in Values : n \in Int

VARIABLES
  phase,     \* source, parsed, checked, generated, processed, run, done;
             \* failed: no tree; rejected: by the check; crashed
  prog,      \* the program
  tree,      \* do_parse's tree, and what do_sematic makes of it
  codes,     \* what gen_intercode and process_intercode return
  pc,        \* the instruction that is carried out next
  tmps,      \* the temporaries between their ALLOC_TMP and their FREE
  flags,     \* the operands of the last CMP
  args,      \* the arguments pushed since the last call
  source,    \* the program's machine
  mixed      \* history: numbers of different signs were ordered

machine == <<pc, tmps, flags, args, source, mixed>>
vars == <<phase, prog, tree, codes, machine>>

Junk == <<"junk", "">>
NoTmps == [t \in {} |-> Junk]
NoTree == [ast |-> NULL]

Init ==
  /\ phase = "source"
  /\ prog \in Programs
  /\ tree = NoTree /\ codes = <<>> /\ pc = 0
  /\ tmps = NoTmps /\ flags = <<>> /\ args = <<>> /\ mixed = FALSE
  /\ source = [todo |-> <<>>, vals |-> <<>>]

\* do_parse; main gives up without a tree.
Parse ==
  /\ phase = "source"
  /\ tree' = [NoTree EXCEPT !.ast = DoParse(SpellMain(prog))]
  /\ phase' = CASE tree'.ast = NULL -> "failed"
                [] tree'.ast = Crash -> "crashed"
                [] OTHER -> "parsed"
  /\ UNCHANGED <<prog, codes, machine>>

\* do_sematic; main gives up on what it rejects.
Check ==
  /\ phase = "parsed"
  /\ tree' = DoSematic(tree.ast)
  /\ phase' = CASE tree'.res = "ok" -> "checked"
                [] tree'.res = "rejected" -> "rejected"
                [] tree'.res = "crash" -> "crashed"
  /\ UNCHANGED <<prog, codes, machine>>

\* gen_intercode.
Generated(g) ==
  /\ codes' = IF g.crash THEN <<>> ELSE g.codes
  /\ phase' = IF g.crash THEN "crashed" ELSE "generated"
Generate ==
  /\ phase = "checked"
  /\ Generated(GenIntercode(tree.ast, tree.types, tree.tables))
  /\ tree' = NoTree
  /\ UNCHANGED <<prog, machine>>

\* process_intercode, and the assertion of its list_insert.
Process ==
  /\ phase = "generated"
  /\ phase' = IF AllFit(Sections(codes)) THEN "processed" ELSE "crashed"
  /\ codes' = ProcessIntercode(codes)
  /\ UNCHANGED <<prog, tree, machine>>

\* The run of the program begins where _start calls main.
Start ==
  /\ phase = "processed"
  /\ phase' = "run"
  /\ pc' = 1 + CHOOSE i \in 1 .. Len(codes) :
                 codes[i].op = "DEF_FUNC" /\ codes[i].op1 = AddrOp("main")
  /\ source' = Meaning(prog)
  /\ UNCHANGED <<prog, tree, codes, tmps, flags, args, mixed>>

-----------------------------------------------------------------------------
\* The run of the code: what the back end makes of each instruction.

Instr == codes[pc]
TmpOf(op) == op[2]
\* A string's label stands for the string.
Labelled(label) == <<"string", codes[CHOOSE i \in 1 .. Len(codes) :
                                 codes[i].op = "DATA" /\ codes[i].op1 = AddrOp(label)].op2[2]>>
ValueIn(op) ==
  CASE op[1] = "imm" -> <<op[2]>>
    [] op[1] = "string" -> Labelled(op[2])
    [] OTHER -> IF TmpOf(op) \in DOMAIN tmps THEN tmps[TmpOf(op)] ELSE Junk
Set(op, v) == [t \in DOMAIN tmps \union {TmpOf(op)} |->
                 IF t = TmpOf(op) THEN v ELSE tmps[t]]
TargetOf(l) == CHOOSE i \in 1 .. Len(codes) : codes[i] = Label(l)

\* A temporary of more than a word is an object of words; what moves to an
\* offset of it fills one, and what moves to an offset of any other goes
\* through the address in it.
NewTmp(size) == IF size > 8 THEN <<"array", [i \in 1 .. size \div 8 |-> Junk]>> ELSE Junk
IsObject(op) == op[1] = "offset" /\ Len(ValueIn(op)) = 2 /\ ValueIn(op)[1] = "array"
Fill(op, v) == Set(op, [ValueIn(op) EXCEPT ![2][op[3] \div 8 + 1] = v])
Conditions == [JE |-> "EQUAL", JNE |-> "NOT_EQUAL", JB |-> "LESS", JA |-> "GREATER",
               JBE |-> "LESS_EQUAL", JAE |-> "GREATER_EQUAL"]
Jumps == {"JMP"} \union DOMAIN Conditions
Taken(op, compared) ==
  op = "JMP" \/ Apply(Conditions[op], compared[1], compared[2]) = <<1>>

\* The jumps above and below compare without sign (amd64.c); a word is 8 bits here.
Unsigned(v) == IF Len(v) = 1 THEN <<v[1] % 256>> ELSE v

NextCode(compared) ==
  IF Instr.op \in Jumps /\ Taken(Instr.op, compared) THEN TargetOf(Instr.op1[2]) ELSE pc + 1
Negative(v) == Len(v) = 1 /\ v[1] < 0
Mixes == Instr.op \in DOMAIN Conditions \ {"JE", "JNE"} /\ Negative(flags[1]) # Negative(flags[2])
Operators == {"ADD", "SUB", "MUL", "DIV", "MOD", "BITAND", "BITOR"}

Moves(to, from) == Instr.op = "MOV" /\ Instr.op1[1] = to /\ Instr.op2[1] = from
Reads == Moves("tmp", "value")
Writes == Moves("value", "tmp")
Loads == Moves("tmp", "offset")
Stores == Moves("offset", "tmp") /\ ~IsObject(Instr.op1)
Seeable == Reads \/ Writes \/ Loads \/ Stores \/ Instr.op \in {"FUNCCALL", "RETURN"}

\* An instruction that nobody outside sees, and goes on where "next" says.
SilentTo(next) ==
  /\ phase = "run" /\ ~Seeable
  /\ pc' = next
  /\ tmps' = CASE Instr.op = "ALLOC_TMP" -> Set(Instr.op1, NewTmp(Instr.op2[2]))
               [] Instr.op = "FREE" -> [t \in DOMAIN tmps \ {TmpOf(Instr.op1)} |-> tmps[t]]
               [] Instr.op = "MOV" -> IF Instr.op1[1] = "offset"
                                      THEN Fill(Instr.op1, ValueIn(Instr.op2))
                                      ELSE Set(Instr.op1, ValueIn(Instr.op2))
               [] Instr.op = "REFER" -> Set(Instr.op1, <<"addr", Instr.op2[2]>>)
               [] Instr.op \in Operators ->
                    Set(Instr.op3, Apply(Instr.op, ValueIn(Instr.op1), ValueIn(Instr.op2)))
               [] OTHER -> tmps
  /\ flags' = IF Instr.op = "CMP" THEN <<ValueIn(Instr.op1), ValueIn(Instr.op2)>> ELSE flags
  /\ args' = IF Instr.op = "PUSHARG" THEN Append(args, ValueIn(Instr.op1)) ELSE args
  /\ UNCHANGED <<phase, prog, tree, codes, source>>
Silent ==
  /\ SilentTo(NextCode(<<Unsigned(flags[1]), Unsigned(flags[2])>>))
  /\ mixed' = (mixed \/ Mixes)

CodeEvent ==
  CASE Reads -> <<"read", Instr.op2[2]>>
    [] Loads -> <<"load", ValueIn(Instr.op2), Instr.op2[3]>>
    [] Writes -> <<"write", Instr.op1[2], ValueIn(Instr.op2)>>
    [] Stores -> <<"store", ValueIn(Instr.op1), ValueIn(Instr.op2)>>
    [] Instr.op = "FUNCCALL" -> <<"call", Instr.op1[2], args>>
    [] Instr.op = "RETURN" -> <<"return", ValueIn(Instr.op1)>>

\* An instruction that is seen, together with the program's own step, as long
\* as the two agree and until numbers of different signs are ordered.
Together == CodeEvent = EventOf(source) /\ ~mixed
Receiver == CASE Reads \/ Loads -> Instr.op1
            [] Instr.op = "FUNCCALL" -> Instr.op2
            [] OTHER -> Empty
Seen1(value) ==
  /\ phase = "run" /\ Seeable
  /\ source' = IF Together THEN Seen(source, value) ELSE source
  /\ tmps' = IF Receiver = Empty THEN tmps ELSE Set(Receiver, value)
  /\ args' = IF Instr.op = "FUNCCALL" THEN <<>> ELSE args
  /\ phase' = IF Instr.op = "RETURN" THEN "done" ELSE phase
  /\ pc' = pc + 1
  /\ UNCHANGED <<prog, tree, codes, flags, mixed>>

Stopped == phase \in {"done", "failed", "rejected", "crashed"} /\ UNCHANGED vars

Next ==
  \/ Parse
  \/ Check
  \/ Generate
  \/ Process
  \/ Start
  \/ Silent
  \/ \E n \in Values : Seen1(<<n>>)
  \/ Stopped

\* The machine that carries out the code does not stop between instructions.
Spec == Init /\ [][Next]_vars /\ WF_vars(Silent)

-----------------------------------------------------------------------------
\* The parser gives a tree of every program of the README's statements and
\* operators but for three forms of them, and none of a program with one of
\* these: the condition of an else-if is read on into its brace, as no other
\* condition is (parser.c:770), a return of nothing is built by the builder of
\* a return with a value (parser.c:957), and != has a handler and no precedence
\* (parser.c:167-190).  Nothing that has a tree crashes the compiler later on.
Unsupported(tokens) ==
  \E i \in 1 .. Len(tokens) - 1 :
    \/ tokens[i] = "NOT_EQUAL"
    \/ <<tokens[i], tokens[i + 1]>> \in {<<"ELSE", "IF">>, <<"RETURN", "SEMICOLON">>}
Accepts ==
  /\ phase \in {"failed", "crashed"} => Unsupported(SpellMain(prog))
  /\ phase = "parsed" => ~Unsupported(SpellMain(prog))

\* The check accepts what is well-typed and nothing else: every name that a let
\* or a return of main uses is defined before it and none twice, and types are
\* mixed as reference.md allows, whatever types the table holds by then and
\* whichever index a type was given.
CheckAgrees ==
  /\ phase = "rejected" => ~WellTyped(prog)
  /\ phase = "checked" => WellTyped(prog)

\* "Most operators are the same as C" and the README's if, else and while:
\* the code reads, writes, calls and returns what the program does, with the
\* same values and in the same order, until it orders two numbers of different
\* signs, which jb and ja do not as C does (intercode.c:414, amd64.c:272).
SameEvents == phase = "run" /\ Seeable /\ ~mixed => CodeEvent = EventOf(source)

\* Every jump of the code has its label, once, in the same function: the labels
\* of nested tests, loops and breaks (mklabel, intercode.c:544-604) are not
\* mixed up.
SameFunction(i, j) == \A k \in (i .. j) \union (j .. i) : codes[k].op # "DEF_FUNC"
LabelsResolve ==
  phase = "processed" =>
    \A i \in 1 .. Len(codes) :
      codes[i].op \in Jumps =>
        \E j \in 1 .. Len(codes) :
          /\ codes[j] = Label(codes[i].op1[2])
          /\ \A k \in 1 .. Len(codes) : codes[k] = codes[j] => k = j
          /\ SameFunction(i, j)

\* A variable that the code names has one home in its function's frame if main
\* itself declares it, where sym_redef_checker has seen it ("symbol
\* redefinition", sematic.c:804), and none at all if only a block does: blocks
\* are not checked and declare nothing (sematic.c:696-705).
DeclaredNames == {s.name : s \in {t \in ToSet(prog) : t.s = "let"}}
NamesIn(code) == {op[2] : op \in {o \in {code.op1, code.op2} : o[1] = "value"}}
Homes(name, i) == {k \in 1 .. Len(codes) : /\ codes[k].op = "ALLOC_LOCAL"
                                           /\ codes[k].op1 = AddrOp(name) /\ SameFunction(k, i)}
HasHome ==
  phase = "processed" =>
    \A i \in 1 .. Len(codes) : \A name \in NamesIn(codes[i]) :
      IF name \in DeclaredNames THEN \E home \in 1 .. i - 1 : Homes(name, i) = {home}
      ELSE Homes(name, i) = {}

\* gen_intercode makes a temporary for one use of it: none is allocated twice,
\* whatever branches and loops there are, and it frees none (intercode.c:19).
EachAllocatedOnce == phase = "generated" => AllocatesOnce(codes)

\* process_intercode frees every temporary once, and neither before its last
\* use nor later than directly behind it: "for each tmpvar, find the last usage
\* of it and insert free code after it" (intercode2.c:100).
FreedAfterLastUse == phase = "processed" => FreesBehindUses(codes)

\* The spans are found in the order of the text, the code runs along jumps: on
\* every path a temporary that is read has been written since its ALLOC_TMP.
Operands(code) == CASE code.op = "MOV" -> {code.op2} \union {op \in {code.op1} : op[1] = "offset"}
                    [] code.op \in Operators \union {"CMP", "PUSHARG", "RETURN"} ->
                         {code.op1, code.op2}
                    [] OTHER -> {}
ReadsWritten ==
  phase = "run" => \A op \in Operands(Instr) : op[1] \in {"tmp", "offset"} => ValueIn(op) # Junk

\* And on every path, breaks and returns among them, nothing stays allocated:
\* when main returns, the only temporaries left are the value it returns and
\* those that no instruction reads (the result of a comparison that is thrown
\* away is freed where it becomes 1, so not on the path on which it is 0).
NothingStaysAllocated ==
  phase = "run" /\ Instr.op = "RETURN" =>
    \A t \in DOMAIN tmps :
      \/ TmpOp(t) = Instr.op1
      \/ \A i \in 1 .. Len(codes) : ~\E op \in Operands(codes[i]) : UsedIn(op, t)

\* The code never runs on for ever without doing anything: every jump back
\* passes the test of its loop (fairness: the machine executes).
ComesToSomething == phase = "run" ~> (phase = "done" \/ (phase = "run" /\ Seeable))
=============================================================================
