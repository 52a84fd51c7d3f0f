------------------------------- MODULE Lexer -------------------------------
(***************************************************************************)
(* lexer.c: do_lex cuts a text into tokens by trying its recipes one after *)
(* the other at the place it has come to.                                  *)
(*                                                                         *)
(* A text is a sequence of characters.  What the recipes for strings and   *)
(* characters know of a quote they have met they keep in two static flags, *)
(* which outlive the call: met is the set of the flags that are set.       *)
(* Letters and the table of keywords are constants, so that a keyword can  *)
(* be one letter; the other characters are those of the code.              *)
(***************************************************************************)
EXTENDS ListT

CONSTANTS
  Letters,    \* the letters that texts are made of
  Keywords    \* a function from words to types of tokens

VARIABLES
  text,       \* the argument of do_lex
  ptr,        \* how far it has come, from 1
  met,        \* met_quote, met_singlequote
  newtoks,    \* the list of tokens it has
  from,       \* history: where the last piece began
  stale       \* history: do_lex was once called with a flag set

lexing == <<text, ptr, met, newtoks, from, stale>>

-----------------------------------------------------------------------------
Newline == "\n"
Space == {" ", "\t", Newline}
Digit == {"0", "1", "2", "3", "4", "5", "6", "7", "8", "9"}
NumberLetters == {"a", "b", "c", "d", "e", "f", "A", "B", "C", "D", "E", "F", "x", "X", "h", "H"}
WordLetters == Letters \union {"_"}
Quotes == [string |-> "\"", char |-> "'"]

OperatorTexts ==
  {<<"=", "=">>, <<">", "=">>, <<"<", "=">>, <<"!", "=">>, <<"&", "&">>, <<"|", "|">>}
  \union {<<c>> : c \in {"!", "^", "+", "-", "*", "/", "%", "<", ">", "=", "&", "|", "."}}
SeparatorTexts == {<<c>> : c \in {";", ":", "{", "}", "(", ")", ",", "[", "]"}}

\* Letters are what isalpha says, so none of the other characters.
ASSUME LettersAssumption ==
  \A c \in Letters :
    c \notin Digit \union Space \union {"\"", "'"} /\ <<c>> \notin OperatorTexts \union SeparatorTexts

\* scan_recipe
Recipes == <<"comment", "number", "string", "char", "word", "whitespace", "operator", "separator">>

Begins(recipe, c) ==
  CASE recipe = "comment" -> c = "/"
    [] recipe = "number" -> c \in Digit
    [] recipe \in {"string", "char"} -> c = Quotes[recipe]
    [] recipe = "word" -> c \in WordLetters
    [] recipe = "whitespace" -> c \in Space
    [] recipe = "operator" -> <<c>> \in OperatorTexts
    [] recipe = "separator" -> <<c>> \in SeparatorTexts

\* Where the scan that began at p stops: before the first character that is
\* not allowed, ...
StopsAt(s, p, stops) ==
  CHOOSE k \in p + 1 .. Len(s) + 1 :
    /\ k <= Len(s) => s[k] \in stops
    /\ \A j \in p + 1 .. k - 1 : s[j] \notin stops
Outside(s, allowed) == Range(s) \ allowed

\* ... behind the closing quote; a flag that is set makes the next character
\* the end.
ClosedAt(s, p, recipe, flags) ==
  IF recipe \in flags THEN p + 1
  ELSE LET q == StopsAt(s, p, {Quotes[recipe]})
       IN  IF q <= Len(s) THEN q + 1 ELSE q

\* Mutant of OperatorEnd: the second character is not looked at.
OperatorEndShort(s, p) == p + 1
OperatorEnd(s, p) == IF p < Len(s) /\ <<s[p], s[p + 1]>> \in OperatorTexts THEN p + 2 ELSE p + 1

Pioneer(recipe, s, p, flags) ==
  CASE recipe = "comment" -> StopsAt(s, p, {Newline})
    [] recipe = "number" -> StopsAt(s, p, Outside(s, Digit \union NumberLetters))
    [] recipe \in {"string", "char"} -> ClosedAt(s, p, recipe, flags)
    [] recipe = "word" -> StopsAt(s, p, Outside(s, WordLetters \union Digit))
    [] recipe = "whitespace" -> StopsAt(s, p, Outside(s, Space))
    [] recipe = "operator" -> OperatorEnd(s, p)
    [] recipe = "separator" -> p + 1

\* The closing quote sets the flag and the character behind it clears it, so
\* it stays set where there is no such character.
MetAfter(recipe, s, p, flags) ==
  LET end == Pioneer(recipe, s, p, flags)
      closed == recipe \in flags \/ (end > p + 1 /\ s[end - 1] = Quotes[recipe])
  IN  IF recipe \notin DOMAIN Quotes THEN flags
      ELSE IF closed /\ end > Len(s) THEN flags \union {recipe} ELSE flags \ {recipe}

\* What the recipe says of the piece: a hexadecimal number is never refused,
\* as the flag that its check clears is another one.
Hexadecimal(piece) == Last(piece) = "h" \/ (Len(piece) > 1 /\ SubSeq(piece, 1, 2) = <<"0", "x">>)
Good(recipe, piece) ==
  CASE recipe = "comment" -> Len(piece) > 1 /\ piece[2] = "/"
    [] recipe = "number" -> Hexadecimal(piece) \/ Range(piece) \subseteq Digit
    [] recipe = "char" -> Len(piece) <= 3
    [] OTHER -> TRUE

PieceOf(recipe, s, p, flags) == SubSeq(s, p, Pioneer(recipe, s, p, flags) - 1)
Suits(recipe, s, p, flags) == Begins(recipe, s[p]) /\ Good(recipe, PieceOf(recipe, s, p, flags))
Suiting(s, p, flags) == {i \in 1 .. Len(Recipes) : Suits(Recipes[i], s, p, flags)}
FirstSuiting(s, p, flags) == Recipes[Min(Suiting(s, p, flags))]

TypeOf(recipe, piece) ==
  CASE recipe = "word" -> IF piece \in DOMAIN Keywords THEN Keywords[piece] ELSE "IDENTIFIER"
    [] recipe = "string" -> "CONSTANT_STRING"
    [] OTHER -> recipe
\* Comments and white space leave nothing.
TokensOf(recipe, piece) ==
  IF recipe \in {"comment", "whitespace"} THEN <<>> ELSE <<[type |-> TypeOf(recipe, piece), value |-> piece]>>

Added(list, toks) == IF toks = <<>> THEN list ELSE ListAppend(list, toks[1])

-----------------------------------------------------------------------------
\* A call of do_lex begins.
TokenCap == 100
DoLex(s) ==
  /\ text' = s /\ ptr' = 1 /\ newtoks' = ListCreate(TokenCap)
  /\ from' = 1
  /\ stale' = (stale \/ met # {})
  /\ UNCHANGED met

\* One pass of its loop, with the first recipe that suits.
Lexed == ptr > Len(text)
Taken(recipe) ==
  /\ ptr' = Pioneer(recipe, text, ptr, met)
  /\ met' = MetAfter(recipe, text, ptr, met)
  /\ newtoks' = Added(newtoks, TokensOf(recipe, PieceOf(recipe, text, ptr, met)))
  /\ from' = ptr
  /\ UNCHANGED <<text, stale>>
LexPiece == ~Lexed /\ Suiting(text, ptr, met) # {} /\ Taken(FirstSuiting(text, ptr, met))

\* "lexer failed": the compiler ends.
LexPanics == ~Lexed /\ Suiting(text, ptr, met) = {}

-----------------------------------------------------------------------------
\* What a piece of text is, said without the scan.
Lexeme(s) ==
  \/ s[1] \in WordLetters /\ Range(s) \subseteq WordLetters \union Digit
  \/ s[1] \in Digit /\ Range(s) \subseteq Digit \union NumberLetters /\ Good("number", s)
  \/ Len(s) > 1 /\ s[1] = "\"" /\ Last(s) = "\"" /\ \A k \in 2 .. Len(s) - 1 : s[k] # "\""
  \/ Len(s) \in {2, 3} /\ s[1] = "'" /\ Last(s) = "'" /\ \A k \in 2 .. Len(s) - 1 : s[k] # "'"
  \/ Len(s) > 1 /\ s[1] = "/" /\ s[2] = "/" /\ Newline \notin Range(s)
  \/ Range(s) \subseteq Space
  \/ s \in OperatorTexts \union SeparatorTexts

\* "match long op first" (lexer.c:248), and not for operators alone: what is
\* taken is a lexeme, or a literal that the end of the text leaves open, and
\* nothing longer that begins there is one.  It depends on no literal before,
\* as long as no text before ended with its closing quote.
Unclosed(s) == s[1] \in {"\"", "'"} /\ Lexed
LongestMatch ==
  ~stale /\ ptr > 1 =>
    /\ Lexeme(SubSeq(text, from, ptr - 1)) \/ Unclosed(SubSeq(text, from, ptr - 1))
    /\ \A k \in ptr .. Len(text) : ~Lexeme(SubSeq(text, from, k))
=============================================================================
