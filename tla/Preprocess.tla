----------------------------- MODULE Preprocess -----------------------------
(***************************************************************************)
(* preprocess.c: every include is replaced by the tokens of its file.      *)
(*                                                                         *)
(* preprocess_tokens goes once over the list of the tokens of the main     *)
(* file.  It changes the list under its own index: two tokens go, those of *)
(* the file come in before what follows, and the scan goes on behind the   *)
(* second token from there.  Both lists are ListT's, whose resizes erase   *)
(* what is in them where KeepsContents is FALSE, as it is in utils.c: with *)
(* the capacity of 100 that do_lex creates, an include in a list of fewer  *)
(* than 51 tokens erases it, and so does the growth of one of 99 or more.  *)
(***************************************************************************)
EXTENDS Lexer, FiniteSets

CONSTANT
  Inputs   \* records of a main file's text and its directory, a function
           \* from the names of files to their texts

\* A token that has been erased is a TOKEN_NONE.
ASSUME ZeroAssumption == Zero.type \notin {"INCLUDE", "CONSTANT_STRING"}

\* Texts are sequences, of any characters, and a directory has finitely many.
IsText(s) == Len(s) \in Nat /\ s = [i \in 1 .. Len(s) |-> s[i]]
ASSUME InputsAssumption ==
  \A input \in Inputs :
    /\ IsText(input.main) /\ IsFiniteSet(DOMAIN input.files)
    /\ \A n \in DOMAIN input.files : IsText(input.files[n])

VARIABLES
  stage,    \* lex (the main file), scan, include (do_lex on a file), insert, and
            \* the ends: done, failed (false), panicked (the lexer), aborted (an
            \* assertion), crashed
  files,    \* the directory of the main file
  main,     \* its text
  tokens,   \* the list
  index,    \* i, from 1
  inserted, \* j
  alone     \* history: the tokens of the main file and of each file by itself

vars == <<lexing, stage, files, main, tokens, index, inserted, alone>>

\* The tokens of a text by itself, up to where the lexer fails on it.
TokensIn(s) ==
  LET at[p \in 1 .. Len(s) + 1] ==
        IF p > Len(s) \/ Suiting(s, p, {}) = {} THEN <<>>
        ELSE LET first == FirstSuiting(s, p, {})
             IN  TokensOf(first, PieceOf(first, s, p, {})) \o at[Pioneer(first, s, p, {})]
  IN  at[1]

-----------------------------------------------------------------------------
Init ==
  /\ \E input \in Inputs : files = input.files /\ main = input.main
  /\ stage = "lex" /\ tokens = ListCreate(TokenCap) /\ index = 1 /\ inserted = 0
  /\ alone = [main |-> TokensIn(main), files |-> [n \in DOMAIN files |-> TokensIn(files[n])]]
  /\ text = main /\ ptr = 1 /\ met = {} /\ newtoks = ListCreate(TokenCap)
  /\ from = 1 /\ stale = FALSE

InLexer == stage \in {"lex", "include"}
Lex ==
  /\ InLexer /\ LexPiece
  /\ UNCHANGED <<stage, files, main, tokens, index, inserted, alone>>
Panic ==
  /\ InLexer /\ LexPanics
  /\ stage' = "panicked"
  /\ UNCHANGED <<lexing, files, main, tokens, index, inserted, alone>>

\* The tokens of the main file are there.
Begin ==
  /\ stage = "lex" /\ Lexed
  /\ tokens' = newtoks
  /\ stage' = "scan"
  /\ UNCHANGED <<lexing, files, main, index, inserted, alone>>

Token(i) == tokens.items[i]
IsInclude(i) == Token(i).type = "INCLUDE"
NameIn(value) == SubSeq(value, 2, Len(value) - 1)
Named(i) == i < Len(tokens.items) /\ Token(i + 1).type = "CONSTANT_STRING"

Pass ==
  /\ stage = "scan" /\ index <= Len(tokens.items)
  /\ ~IsInclude(index)
  /\ index' = index + 1
  /\ UNCHANGED <<lexing, stage, files, main, tokens, inserted, alone>>

\* A path that is one quote: path.len - 2 is less than nothing.
Overruns(i) == Named(i) /\ Len(Token(i + 1).value) < 2
Overrun ==
  /\ stage = "scan" /\ index <= Len(tokens.items)
  /\ IsInclude(index) /\ Overruns(index)
  /\ stage' = "crashed"
  /\ UNCHANGED <<lexing, files, main, tokens, index, inserted, alone>>

\* No path, or no file.
Opens(i) == Named(i) /\ NameIn(Token(i + 1).value) \in DOMAIN files
Fail ==
  /\ stage = "scan" /\ index <= Len(tokens.items)
  /\ IsInclude(index) /\ ~Opens(index) /\ ~Overruns(index)
  /\ stage' = "failed"
  /\ UNCHANGED <<lexing, files, main, tokens, index, inserted, alone>>
Open ==
  /\ stage = "scan" /\ index <= Len(tokens.items)
  /\ IsInclude(index) /\ Opens(index)
  /\ stage' = "include"
  /\ DoLex(files[NameIn(Token(index + 1).value)])
  /\ UNCHANGED <<files, main, tokens, index, inserted, alone>>

\* The include and its path are removed, ...
TakeOut ==
  /\ stage = "include" /\ Lexed
  /\ tokens' = ListRemove(ListRemove(tokens, index - 1), index - 1)
  /\ inserted' = 0
  /\ stage' = "insert"
  /\ UNCHANGED <<lexing, files, main, index, alone>>

\* ... and the new tokens inserted one by one; list_insert asserts that there
\* is something to insert them before.
\* Mutant of PlaceOf: each token comes before those inserted already.
PlaceOfFirst(j) == index - 1
PlaceOf(j) == index - 1 + j
More == stage = "insert" /\ inserted < Len(newtoks.items)
Insert ==
  /\ More
  /\ CanInsert(tokens, PlaceOf(inserted))
  /\ tokens' = ListInsert(tokens, PlaceOf(inserted), newtoks.items[inserted + 1])
  /\ inserted' = inserted + 1
  /\ UNCHANGED <<lexing, stage, files, main, index, alone>>
Abort ==
  /\ More
  /\ ~CanInsert(tokens, PlaceOf(inserted))
  /\ stage' = "aborted"
  /\ UNCHANGED <<lexing, files, main, tokens, index, inserted, alone>>

\* Mutants of Resume: the scan goes on one token late; it begins again with
\* the first new token.
ResumeLate(i) == i + 3
ResumeThere(i) == i
Resume(i) == i + 2
Included ==
  /\ stage = "insert" /\ ~More
  /\ index' = Resume(index)
  /\ stage' = "scan"
  /\ UNCHANGED <<lexing, files, main, tokens, inserted, alone>>

Finish ==
  /\ stage = "scan" /\ index > Len(tokens.items)
  /\ stage' = "done"
  /\ UNCHANGED <<lexing, files, main, tokens, index, inserted, alone>>

Next == Lex \/ Panic \/ Begin \/ Pass \/ Overrun \/ Fail \/ Open \/ TakeOut \/ Insert \/ Abort
        \/ Included \/ Finish

Spec == Init /\ [][Next]_vars
FairSpec == Spec /\ WF_vars(Next)

-----------------------------------------------------------------------------
\* No resize has erased a token: of the list, or of what the lexer makes or
\* has made to come in.
InList == stage \in {"scan", "done", "failed", "crashed"}
NoneErased == Intact(tokens) /\ (~InList => Intact(newtoks))
Sound == ~stale /\ NoneErased

\* What includes mean: each is its file's tokens, and theirs.
IncludesAt(toks, i) ==
  /\ i < Len(toks)
  /\ toks[i].type = "INCLUDE" /\ toks[i + 1].type = "CONSTANT_STRING"
  /\ NameIn(toks[i + 1].value) \in DOMAIN files
Includes(toks) == {NameIn(toks[i + 1].value) : i \in {i \in 1 .. Len(toks) : IncludesAt(toks, i)}}
Expanded(toks, of) ==
  LET at[i \in 1 .. Len(toks) + 1] ==
        IF i > Len(toks) THEN <<>>
        ELSE IF IncludesAt(toks, i) THEN of[NameIn(toks[i + 1].value)] \o at[i + 2]
        ELSE <<toks[i]>> \o at[i + 1]
  IN  at[1]

\* What n levels of includes make of each file, and which files they reach;
\* no more levels than files are needed where no file includes itself.
Expansions[n \in Nat] ==
  [f \in DOMAIN files |-> IF n = 0 THEN <<>> ELSE Expanded(alone.files[f], Expansions[n - 1])]
Expansion(toks) == Expanded(toks, Expansions[Cardinality(DOMAIN files)])
Reached[n \in Nat] ==
  [f \in DOMAIN files |->
     Includes(alone.files[f]) \union
       IF n = 0 THEN {} ELSE UNION {Reached[n - 1][g] : g \in Includes(alone.files[f])}]
Acyclic == \A f \in DOMAIN files : f \notin Reached[Cardinality(DOMAIN files)][f]

\* Every include stands before its path, in its own file.
PathsGiven(toks) ==
  \A i \in 1 .. Len(toks) : toks[i].type = "INCLUDE" =>
    i < Len(toks) /\ toks[i + 1].type = "CONSTANT_STRING"
EveryPathGiven == PathsGiven(alone.main) /\ \A n \in DOMAIN files : PathsGiven(alone.files[n])

\* However the list and the index shift, the list stands for the same program:
\* no token is lost, doubled or moved by an include (preprocess.c:48-58), as
\* long as no resize of a list has erased tokens.  An include that ends its
\* file, though, takes its path from the including one.
SameProgram ==
  stage \in {"scan", "done"} /\ Sound /\ Acyclic /\ EveryPathGiven =>
    Expansion(tokens.items) = Expansion(alone.main)

\* Nothing of it is left when the scan is through, if every file begins with
\* two tokens that are none: the scan does not look at those ("i++",
\* preprocess.c:58).
BeginsPlainly(toks) == Len(toks) >= 2 /\ \A i \in 1 .. 2 : toks[i].type # "INCLUDE"
AllIncluded ==
  stage = "done" /\ Sound /\ (\A n \in DOMAIN files : BeginsPlainly(alone.files[n])) =>
    \A i \in 1 .. Len(tokens.items) : ~IsInclude(i)

\* list_insert's assertion stops the compiler only where the main file ends
\* with an include, and only an include without a file makes it fail.
EndsWithInclude(toks) == Len(toks) >= 2 /\ IncludesAt(toks, Len(toks) - 1)
NoFile(toks) == \E i \in 1 .. Len(toks) : toks[i].type = "INCLUDE" /\ ~IncludesAt(toks, i)
StopsForAReason ==
  /\ stage = "aborted" /\ Sound /\ EveryPathGiven => EndsWithInclude(alone.main)
  /\ stage = "failed" /\ Sound => NoFile(alone.main) \/ \E n \in DOMAIN files : NoFile(alone.files[n])

\* Every include is worked off.
Ends == <>(stage \in {"done", "failed", "panicked", "aborted", "crashed"})
=============================================================================
