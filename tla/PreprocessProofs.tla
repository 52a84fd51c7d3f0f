--------------------------- MODULE PreprocessProofs ---------------------------
(***************************************************************************)
(* The lexer takes the longest piece, for every alphabet, every table of   *)
(* keywords and every text: first what the scans and the recipes of        *)
(* lexer.c do at one place of a text, then the invariant that carries it   *)
(* through the calls that preprocess.c makes of do_lex.  Then what becomes *)
(* of the list: why the scan stops, that it leaves no include, and that    *)
(* the list stands for the same program at every step of it.               *)
(***************************************************************************)
EXTENDS Preprocess, ListTProofs, FiniteSetTheorems, WellFoundedInduction

(* A set of natural numbers that is not empty has a least element.         *)
LEMMA LeastNat ==
  ASSUME NEW T, T \subseteq Nat, T # {}
  PROVE  \E m \in T : \A n \in T : m <= n
<1> DEFINE R == OpToRel(<, Nat)
<1>1. IsWellFoundedOn(R, Nat)
  BY NatLessThanWellFounded
<1>2. \A x, y \in Nat : x < y => <<x, y>> \in R
  BY DEF OpToRel
<1> HIDE DEF R
<1>3. PICK m \in T : \A n \in T : ~(<<n, m>> \in R)
  BY <1>1, WFMin
<1>4. \A n \in T : ~(n < m)
  BY <1>2, <1>3
<1> QED BY <1>3, <1>4

(* A scan stops before the first stop, or at the end of the text.          *)
LEMMA StopsAtFacts ==
  ASSUME NEW S, NEW s \in Seq(S), NEW p \in 1 .. Len(s), NEW stops
  PROVE  LET k == StopsAt(s, p, stops)
         IN  /\ k \in p + 1 .. Len(s) + 1
             /\ k <= Len(s) => s[k] \in stops
             /\ \A j \in p + 1 .. k - 1 : s[j] \notin stops
<1> DEFINE n == Len(s)
           T == {k \in p + 1 .. n + 1 : k <= n => s[k] \in stops}
<1>1. n \in Nat /\ p \in Nat /\ p <= n
  OBVIOUS
<1>2. T \subseteq Nat /\ n + 1 \in T
  BY <1>1
<1> HIDE DEF T, n
<1>3. PICK m \in T : \A k \in T : m <= k
  BY <1>2, LeastNat
<1>4. m \in p + 1 .. n + 1 /\ (m <= n => s[m] \in stops)
  BY <1>3 DEF T
<1>5. ASSUME NEW j \in p + 1 .. m - 1 PROVE s[j] \notin stops
  <2>1. j \in p + 1 .. n + 1 /\ j < m
    BY <1>1, <1>4
  <2>2. j \notin T
    BY <1>1, <1>3, <1>4, <2>1
  <2> QED BY <2>1, <2>2 DEF T
<1>6. \E k \in p + 1 .. n + 1 :
        /\ k <= n => s[k] \in stops
        /\ \A j \in p + 1 .. k - 1 : s[j] \notin stops
  BY <1>4, <1>5
<1> QED BY <1>6 DEF StopsAt, n

(* The piece of a text between two places.                                 *)
LEMMA PieceFacts ==
  ASSUME NEW S, NEW s \in Seq(S), NEW p \in 1 .. Len(s), NEW k \in p .. Len(s)
  PROVE  LET q == SubSeq(s, p, k)
         IN  /\ q \in Seq(S) /\ Len(q) = k - p + 1 /\ Len(q) \in Nat \ {0}
             /\ q[1] = s[p] /\ Last(q) = s[k]
             /\ \A i \in p .. k : i - p + 1 \in 1 .. Len(q) /\ q[i - p + 1] = s[i]
             /\ Range(q) = {s[i] : i \in p .. k}
<1> DEFINE q == SubSeq(s, p, k)
<1>1. /\ q \in Seq(S) /\ Len(q) = k - p + 1
      /\ \A i \in 1 .. k - p + 1 : q[i] = s[p + i - 1]
  OBVIOUS
<1>2. k - p + 1 \in Nat \ {0} /\ DOMAIN q = 1 .. k - p + 1
  BY <1>1
<1> HIDE DEF q
<1>3. \A i \in p .. k : i - p + 1 \in 1 .. k - p + 1 /\ p + (i - p + 1) - 1 = i
  OBVIOUS
<1>4. \A i \in p .. k : q[i - p + 1] = s[i]
  BY <1>1, <1>3
<1>5. \A i \in 1 .. k - p + 1 : p + i - 1 \in p .. k
  OBVIOUS
<1>6. Range(q) = {s[i] : i \in p .. k}
  <2> DEFINE m == k - p + 1
  <2>1. Range(q) = {q[i] : i \in 1 .. m}
    BY <1>2 DEF Range
  <2>2. \A i \in 1 .. m : \E j \in p .. k : q[i] = s[j]
    BY <1>1, <1>5
  <2>3. \A j \in p .. k : \E i \in 1 .. m : q[i] = s[j]
    BY <1>3, <1>4
  <2> DEFINE R == {s[i] : i \in p .. k}
  <2> HIDE DEF m
  <2>4. Range(q) \subseteq R
    BY <2>1, <2>2
  <2>5. R \subseteq Range(q)
    <3> SUFFICES ASSUME NEW j \in p .. k PROVE s[j] \in Range(q)
      OBVIOUS
    <3>1. PICK i \in 1 .. m : q[i] = s[j]
      BY <2>3
    <3> QED BY <2>1, <3>1
  <2> QED BY <2>4, <2>5
<1>7. q[1] = s[p] /\ Last(q) = s[k]
  BY <1>1, <1>2 DEF Last
<1> QED BY <1>1, <1>2, <1>3, <1>4, <1>6, <1>7 DEF q

-----------------------------------------------------------------------------
(* Operators and separators are one or two characters, and no character    *)
(* begins one and something else too, but for the slash.                   *)
OperatorChars == {"!", "^", "+", "-", "*", "/", "%", "<", ">", "=", "&", "|", "."}
SeparatorChars == {";", ":", "{", "}", "(", ")", ",", "[", "]"}

LEMMA OperatorFacts ==
  ASSUME NEW S, NEW q \in Seq(S), q # <<>>
  PROVE  /\ q \in OperatorTexts => Len(q) <= 2 /\ q[1] \in OperatorChars
         /\ q \in SeparatorTexts => Len(q) = 1 /\ q[1] \in SeparatorChars
         /\ Len(q) = 1 /\ q[1] \in OperatorChars => q \in OperatorTexts
         /\ Len(q) = 1 /\ q[1] \in SeparatorChars => q \in SeparatorTexts
         /\ q \in OperatorTexts /\ q[1] = "/" => Len(q) = 1
         /\ Len(q) = 2 => q = <<q[1], q[2]>>
<1>1. Len(q) = 1 => q = <<q[1]>>
  OBVIOUS
<1>2. Len(q) = 2 => q = <<q[1], q[2]>>
  OBVIOUS
<1>3. q \in OperatorTexts => Len(q) <= 2 /\ q[1] \in OperatorChars
  <2>1. ASSUME NEW c \in OperatorChars, q = <<c>>
        PROVE  Len(q) <= 2 /\ q[1] \in OperatorChars
    BY <2>1
  <2>2. ASSUME NEW c \in OperatorChars, NEW d, q = <<c, d>>
        PROVE  Len(q) <= 2 /\ q[1] \in OperatorChars
    BY <2>2
  <2>3. q \in OperatorTexts =>
          \/ \E c \in OperatorChars : q = <<c>>
          \/ \E c \in OperatorChars, d \in {"=", "&", "|"} : q = <<c, d>>
    BY Zenon DEF OperatorTexts, OperatorChars
  <2> QED BY <2>1, <2>2, <2>3
<1>4. q \in SeparatorTexts => Len(q) = 1 /\ q[1] \in SeparatorChars
  <2>1. q \in SeparatorTexts => \E c \in SeparatorChars : q = <<c>>
    BY DEF SeparatorTexts, SeparatorChars
  <2>2. ASSUME NEW c \in SeparatorChars, q = <<c>>
        PROVE  Len(q) = 1 /\ q[1] \in SeparatorChars
    BY <2>2
  <2> QED BY <2>1, <2>2
<1>5. Len(q) = 1 /\ q[1] \in OperatorChars => q \in OperatorTexts
  BY <1>1 DEF OperatorTexts, OperatorChars
<1>6. Len(q) = 1 /\ q[1] \in SeparatorChars => q \in SeparatorTexts
  BY <1>1 DEF SeparatorTexts, SeparatorChars
<1>7. q \in OperatorTexts /\ q[1] = "/" => Len(q) = 1
  BY DEF OperatorTexts
<1> QED BY <1>2, <1>3, <1>4, <1>5, <1>6, <1>7

(* What a piece that is a lexeme can be, by its first character.           *)
LEMMA FirstCharacter ==
  ASSUME NEW S, NEW q \in Seq(S), q # <<>>, Lexeme(q)
  PROVE  /\ q[1] \in WordLetters => Range(q) \subseteq WordLetters \union Digit
         /\ q[1] \in Digit => Range(q) \subseteq Digit \union NumberLetters
         /\ q[1] = "\"" => \A k \in 2 .. Len(q) - 1 : q[k] # "\""
         /\ q[1] = "'" => \A k \in 2 .. Len(q) - 1 : q[k] # "'"
         /\ q[1] = "/" => \/ Len(q) > 1 /\ q[2] = "/" /\ Newline \notin Range(q)
                          \/ Len(q) = 1
         /\ q[1] \in Space => Range(q) \subseteq Space
         /\ q[1] \in OperatorChars \ {"/"} => q \in OperatorTexts
         /\ q[1] \in SeparatorChars => Len(q) = 1
<1> DEFINE c == q[1]
<1>1. /\ \A l \in Letters : l \notin Digit /\ l \notin Space /\ l # "\"" /\ l # "'"
                            /\ l \notin OperatorChars /\ l \notin SeparatorChars
  BY LettersAssumption DEF OperatorTexts, OperatorChars, SeparatorTexts, SeparatorChars
<1>2. q \in OperatorTexts \union SeparatorTexts =>
        /\ q[1] \in OperatorChars \union SeparatorChars
        /\ q \in OperatorTexts => Len(q) <= 2
        /\ q \in SeparatorTexts => Len(q) = 1 /\ q[1] \in SeparatorChars
        /\ q \in OperatorTexts => q[1] \in OperatorChars
        /\ q \in OperatorTexts /\ q[1] = "/" => Len(q) = 1
  BY OperatorFacts
<1>3. c \in Range(q) /\ (Range(q) \subseteq Space => c \in Space)
  BY DEF Range
<1>4. \/ c \in WordLetters /\ Range(q) \subseteq WordLetters \union Digit
      \/ c \in Digit /\ Range(q) \subseteq Digit \union NumberLetters
      \/ c = "\"" /\ \A k \in 2 .. Len(q) - 1 : q[k] # "\""
      \/ c = "'" /\ \A k \in 2 .. Len(q) - 1 : q[k] # "'"
      \/ Len(q) > 1 /\ c = "/" /\ q[2] = "/" /\ Newline \notin Range(q)
      \/ Range(q) \subseteq Space
      \/ q \in OperatorTexts \union SeparatorTexts
  BY DEF Lexeme
<1> HIDE DEF c
<1>5. CASE c \in WordLetters
  BY <1>1, <1>2, <1>3, <1>4, <1>5
     DEF c, WordLetters, Digit, Space, Newline, OperatorChars, SeparatorChars
<1>6. CASE c \in Digit
  BY <1>1, <1>2, <1>3, <1>4, <1>6
     DEF c, WordLetters, Digit, Space, Newline, OperatorChars, SeparatorChars
<1>7. CASE c = "\""
  BY <1>1, <1>2, <1>3, <1>4, <1>7
     DEF c, WordLetters, Digit, Space, Newline, OperatorChars, SeparatorChars
<1>8. CASE c = "'"
  BY <1>1, <1>2, <1>3, <1>4, <1>8
     DEF c, WordLetters, Digit, Space, Newline, OperatorChars, SeparatorChars
<1>9. CASE c = "/"
  BY <1>1, <1>2, <1>3, <1>4, <1>9
     DEF c, WordLetters, Digit, Space, Newline, OperatorChars, SeparatorChars
<1>10. CASE c \in Space
  BY <1>1, <1>2, <1>3, <1>4, <1>10
     DEF c, WordLetters, Digit, Space, Newline, OperatorChars, SeparatorChars
<1>11. CASE c \in OperatorChars \ {"/"}
  BY <1>1, <1>2, <1>3, <1>4, <1>11
     DEF c, WordLetters, Digit, Space, Newline, OperatorChars, SeparatorChars
<1>12. CASE c \in SeparatorChars
  BY <1>1, <1>2, <1>3, <1>4, <1>12
     DEF c, WordLetters, Digit, Space, Newline, OperatorChars, SeparatorChars
<1> QED BY <1>5, <1>6, <1>7, <1>8, <1>9, <1>10, <1>11, <1>12 DEF c
-----------------------------------------------------------------------------
\* The quotes that a literal is left open by.
OpenQuote(c) == c \in {"\"", "'"}

(* What each scan takes at p, with no flag set, is a lexeme or a literal   *)
(* that the text leaves open, and nothing longer is a lexeme.              *)
Munches(s, p, e) ==
  /\ e \in p + 1 .. Len(s) + 1
  /\ Lexeme(SubSeq(s, p, e - 1)) \/ (OpenQuote(s[p]) /\ e = Len(s) + 1)
  /\ \A k \in e .. Len(s) : ~Lexeme(SubSeq(s, p, k))

(* The longer piece holds the character that stopped the scan.             *)
LEMMA LongerHolds ==
  ASSUME NEW S, NEW s \in Seq(S), NEW p \in 1 .. Len(s),
         NEW e \in p + 1 .. Len(s), NEW k \in e .. Len(s)
  PROVE  LET q == SubSeq(s, p, k)
         IN  /\ q \in Seq(S) /\ q # <<>> /\ q[1] = s[p] /\ s[e] \in Range(q)
             /\ Len(q) = k - p + 1 /\ Len(q) >= 2 /\ Len(q) \in Nat
             /\ q[2] = s[p + 1] /\ p + 1 \in 1 .. Len(s)
<1>1. k \in p .. Len(s) /\ e \in p .. k /\ p + 1 \in p .. k /\ p + 1 - p + 1 = 2
      /\ p + 1 \in 1 .. Len(s)
  OBVIOUS
<1> DEFINE q == SubSeq(s, p, k)
<1>2. /\ q \in Seq(S) /\ Len(q) = k - p + 1 /\ Len(q) \in Nat \ {0}
      /\ q[1] = s[p]
      /\ \A i \in p .. k : i - p + 1 \in 1 .. Len(q) /\ q[i - p + 1] = s[i]
      /\ Range(q) = {s[i] : i \in p .. k}
  BY <1>1, PieceFacts
<1> HIDE DEF q
<1>3. s[e] \in Range(q)
  BY <1>1, <1>2
<1>4. q[2] = s[p + 1]
  BY <1>1, <1>2
<1>5. Len(q) >= 2 /\ q # <<>>
  BY <1>1, <1>2
<1> QED BY <1>1, <1>2, <1>3, <1>4, <1>5 DEF q

(* A scan that goes on while the characters are in a set.                  *)
LEMMA ScanFacts ==
  ASSUME NEW S, NEW s \in Seq(S), NEW p \in 1 .. Len(s), NEW allowed, s[p] \in allowed
  PROVE  LET e == StopsAt(s, p, Outside(s, allowed))
             q == SubSeq(s, p, e - 1)
         IN  /\ e \in p + 1 .. Len(s) + 1
             /\ q \in Seq(S) /\ q # <<>> /\ q[1] = s[p] /\ Range(q) \subseteq allowed
             /\ \A k \in e .. Len(s) :
                  LET l == SubSeq(s, p, k)
                  IN  l \in Seq(S) /\ l # <<>> /\ l[1] = s[p] /\ ~(Range(l) \subseteq allowed)
<1> DEFINE e == StopsAt(s, p, Outside(s, allowed))
<1>1. /\ e \in p + 1 .. Len(s) + 1
      /\ e <= Len(s) => s[e] \in Outside(s, allowed)
      /\ \A j \in p + 1 .. e - 1 : s[j] \notin Outside(s, allowed)
  BY StopsAtFacts
<1> HIDE DEF e
<1>2. e - 1 \in p .. Len(s) /\ \A j \in p .. e - 1 : j \in 1 .. Len(s)
  BY <1>1
<1>3. \A j \in p .. e - 1 : s[j] \in allowed
  <2>1. \A j \in 1 .. Len(s) : s[j] \in Range(s)
    BY DEF Range
  <2>2. \A j \in p .. e - 1 : j = p \/ j \in p + 1 .. e - 1
    BY <1>1
  <2> QED BY <1>1, <1>2, <2>1, <2>2 DEF Outside
<1> DEFINE d == e - 1
           q == SubSeq(s, p, d)
<1>4. d \in p .. Len(s) /\ \A j \in p .. d : s[j] \in allowed
  BY <1>2, <1>3
<1> HIDE DEF d
<1>5. /\ q \in Seq(S) /\ Len(q) \in Nat \ {0} /\ q[1] = s[p]
      /\ Range(q) = {s[i] : i \in p .. d}
  BY <1>4, PieceFacts
<1>6. q # <<>> /\ Range(q) \subseteq allowed
  BY <1>4, <1>5
<1>7. ASSUME NEW k \in e .. Len(s)
      PROVE  LET l == SubSeq(s, p, k)
             IN  l \in Seq(S) /\ l # <<>> /\ l[1] = s[p] /\ ~(Range(l) \subseteq allowed)
  <2>1. e \in p + 1 .. Len(s) /\ e <= Len(s)
    BY <1>1
  <2>2. LET l == SubSeq(s, p, k)
        IN  l \in Seq(S) /\ l # <<>> /\ l[1] = s[p] /\ s[e] \in Range(l)
    BY <2>1, LongerHolds
  <2>3. s[e] \notin allowed
    BY <1>1, <2>1 DEF Outside
  <2> QED BY <2>2, <2>3
<1> QED BY <1>1, <1>5, <1>6, <1>7 DEF d, e
-----------------------------------------------------------------------------
(* The recipes one by one.                                                 *)

LEMMA WordMunches ==
  ASSUME NEW S, NEW s \in Seq(S), NEW p \in 1 .. Len(s), s[p] \in WordLetters
  PROVE  Munches(s, p, StopsAt(s, p, Outside(s, WordLetters \union Digit)))
<1> DEFINE allowed == WordLetters \union Digit
           e == StopsAt(s, p, Outside(s, allowed))
           q == SubSeq(s, p, e - 1)
<1>1. /\ e \in p + 1 .. Len(s) + 1
      /\ q \in Seq(S) /\ q # <<>> /\ q[1] = s[p] /\ Range(q) \subseteq allowed
      /\ \A k \in e .. Len(s) :
           LET l == SubSeq(s, p, k)
           IN  l \in Seq(S) /\ l # <<>> /\ l[1] = s[p] /\ ~(Range(l) \subseteq allowed)
  BY ScanFacts
<1> HIDE DEF e
<1>2. Lexeme(q)
  BY <1>1 DEF Lexeme
<1>3. \A k \in e .. Len(s) : ~Lexeme(SubSeq(s, p, k))
  BY <1>1, FirstCharacter
<1> QED BY <1>1, <1>2, <1>3 DEF Munches, e

LEMMA NumberMunches ==
  ASSUME NEW S, NEW s \in Seq(S), NEW p \in 1 .. Len(s), s[p] \in Digit,
         LET e == StopsAt(s, p, Outside(s, Digit \union NumberLetters))
         IN  Good("number", SubSeq(s, p, e - 1))
  PROVE  Munches(s, p, StopsAt(s, p, Outside(s, Digit \union NumberLetters)))
<1> DEFINE allowed == Digit \union NumberLetters
           e == StopsAt(s, p, Outside(s, allowed))
           q == SubSeq(s, p, e - 1)
<1>1. /\ e \in p + 1 .. Len(s) + 1
      /\ q \in Seq(S) /\ q # <<>> /\ q[1] = s[p] /\ Range(q) \subseteq allowed
      /\ \A k \in e .. Len(s) :
           LET l == SubSeq(s, p, k)
           IN  l \in Seq(S) /\ l # <<>> /\ l[1] = s[p] /\ ~(Range(l) \subseteq allowed)
  BY ScanFacts
<1>2. Good("number", q)
  OBVIOUS
<1> HIDE DEF e
<1>3. Lexeme(q)
  BY <1>1, <1>2 DEF Lexeme
<1>4. \A k \in e .. Len(s) : ~Lexeme(SubSeq(s, p, k))
  BY <1>1, FirstCharacter
<1> QED BY <1>1, <1>3, <1>4 DEF Munches, e

LEMMA SpaceMunches ==
  ASSUME NEW S, NEW s \in Seq(S), NEW p \in 1 .. Len(s), s[p] \in Space
  PROVE  Munches(s, p, StopsAt(s, p, Outside(s, Space)))
<1> DEFINE e == StopsAt(s, p, Outside(s, Space))
           q == SubSeq(s, p, e - 1)
<1>1. /\ e \in p + 1 .. Len(s) + 1
      /\ q \in Seq(S) /\ q # <<>> /\ q[1] = s[p] /\ Range(q) \subseteq Space
      /\ \A k \in e .. Len(s) :
           LET l == SubSeq(s, p, k)
           IN  l \in Seq(S) /\ l # <<>> /\ l[1] = s[p] /\ ~(Range(l) \subseteq Space)
  BY ScanFacts
<1> HIDE DEF e
<1>2. Lexeme(q)
  BY <1>1 DEF Lexeme
<1>3. \A k \in e .. Len(s) : ~Lexeme(SubSeq(s, p, k))
  BY <1>1, FirstCharacter
<1> QED BY <1>1, <1>2, <1>3 DEF Munches, e

(* A string or a character: up to and with the next quote, which no longer *)
(* piece may hold inside.                                                  *)
LEMMA QuotedMunches ==
  ASSUME NEW S, NEW s \in Seq(S), NEW p \in 1 .. Len(s),
         NEW recipe \in {"string", "char"}, s[p] = Quotes[recipe],
         recipe = "char" =>
           Len(SubSeq(s, p, ClosedAt(s, p, recipe, {}) - 1)) <= 3
  PROVE  Munches(s, p, ClosedAt(s, p, recipe, {}))
<1> DEFINE c == Quotes[recipe]
           m == StopsAt(s, p, {c})
           e == ClosedAt(s, p, recipe, {})
           n == Len(s)
<1>1. /\ m \in p + 1 .. n + 1
      /\ m <= n => s[m] = c
      /\ \A j \in p + 1 .. m - 1 : s[j] # c
  <2>1. /\ m \in p + 1 .. n + 1
        /\ m <= n => s[m] \in {c}
        /\ \A j \in p + 1 .. m - 1 : s[j] \notin {c}
    BY StopsAtFacts
  <2> QED BY <2>1
<1>2. e = IF m <= n THEN m + 1 ELSE m
  BY DEF ClosedAt
<1>3. /\ OpenQuote(s[p]) /\ s[p] = c
      /\ recipe = "string" => c = "\""
      /\ recipe = "char" => c = "'"
  <2>1. Quotes["string"] = "\"" /\ Quotes["char"] = "'"
    BY DEF Quotes
  <2>2. c = "\"" \/ c = "'"
    BY <2>1
  <2> QED BY <2>1, <2>2 DEF OpenQuote
<1>3b. n \in Nat /\ p \in 1 .. n /\ p \in Nat
  OBVIOUS
<1>3a. recipe = "char" => Len(SubSeq(s, p, e - 1)) <= 3
  OBVIOUS
<1> HIDE DEF m, e, c
<1>4. ASSUME m > n PROVE Munches(s, p, e)
  <2>1. e = n + 1
    BY <1>1, <1>2, <1>3b, <1>4
  <2>2. e \in p + 1 .. n + 1 /\ \A k \in e .. n : FALSE
    BY <1>3b, <2>1
  <2> QED BY <1>3, <2>1, <2>2 DEF Munches
<1>5. ASSUME m <= n PROVE Munches(s, p, e)
  <2>1. /\ e = m + 1 /\ e - 1 = m /\ m \in p .. n /\ m \in p + 1 .. n /\ m \in Nat
        /\ e \in p + 1 .. n + 1
    BY <1>1, <1>2, <1>3b, <1>5
  <2> DEFINE q == SubSeq(s, p, m)
             z == m - p + 1
  <2>2. /\ q \in Seq(S) /\ Len(q) = z /\ q # <<>>
        /\ q[1] = s[p] /\ Last(q) = s[m]
        /\ \A i \in p .. m : q[i - p + 1] = s[i]
    <3>1. LET w == SubSeq(s, p, m)
          IN  /\ w \in Seq(S) /\ Len(w) = m - p + 1 /\ Len(w) \in Nat \ {0}
              /\ w[1] = s[p] /\ Last(w) = s[m]
              /\ \A i \in p .. m : i - p + 1 \in 1 .. Len(w) /\ w[i - p + 1] = s[i]
      BY <2>1, PieceFacts
    <3> QED BY <3>1
  <2>3. z \in Nat /\ z > 1 /\ z = m - p + 1
    BY <1>3b, <2>1
  <2> HIDE DEF q, z
  <2>4. \A k \in 2 .. z - 1 : q[k] # c
    <3> SUFFICES ASSUME NEW k \in 2 .. z - 1 PROVE q[k] # c
      OBVIOUS
    <3> DEFINE i == k + p - 1
    <3>1. i \in p .. m /\ i \in p + 1 .. m - 1 /\ i - p + 1 = k
      BY <1>3b, <2>1, <2>3
    <3> HIDE DEF i
    <3>2. q[i - p + 1] = s[i] /\ s[i] # c
      BY <1>1, <2>1, <2>2, <3>1
    <3> QED BY <3>1, <3>2
  <2>5. Last(q) = c /\ q[1] = c
    BY <1>1, <1>3, <1>5, <2>2
  <2>6. Lexeme(q)
    <3>1. CASE recipe = "string"
      BY <1>3, <2>2, <2>3, <2>4, <2>5, <3>1 DEF Lexeme
    <3>2. CASE recipe = "char"
      <4>1. Len(q) <= 3
        BY <1>3a, <2>1, <3>2 DEF q
      <4>2. z \in {2, 3}
        BY <2>2, <2>3, <4>1
      <4> QED BY <1>3, <2>2, <2>4, <2>5, <3>2, <4>2 DEF Lexeme
    <3> QED BY <3>1, <3>2
  <2>7. ASSUME NEW k \in m + 1 .. n PROVE ~Lexeme(SubSeq(s, p, k))
    <3> DEFINE l == SubSeq(s, p, k)
    <3>1. /\ k \in p .. n /\ m \in p .. k /\ z \in 2 .. k - p + 1 - 1
      BY <1>3b, <2>1, <2>3
    <3>2. /\ l \in Seq(S) /\ Len(l) = k - p + 1 /\ l # <<>>
          /\ l[1] = s[p]
          /\ \A i \in p .. k : l[i - p + 1] = s[i]
      <4>1. LET w == SubSeq(s, p, k)
            IN  /\ w \in Seq(S) /\ Len(w) = k - p + 1 /\ Len(w) \in Nat \ {0}
                /\ w[1] = s[p]
                /\ \A i \in p .. k : i - p + 1 \in 1 .. Len(w) /\ w[i - p + 1] = s[i]
        BY <3>1, PieceFacts
      <4> QED BY <4>1
    <3> HIDE DEF l
    <3>3. l[z] = c
      <4>1. l[m - p + 1] = s[m] /\ s[m] = c
        BY <1>1, <1>5, <3>1, <3>2
      <4> QED BY <2>3, <4>1
    <3>4. z \in 2 .. Len(l) - 1
      BY <3>1, <3>2
    <3>5. l[1] = c
      BY <1>3, <3>2
    <3>6. c = "\"" \/ c = "'"
      BY <1>3
    <3>7. ~Lexeme(l)
      BY <3>2, <3>3, <3>4, <3>5, <3>6, FirstCharacter
    <3> QED BY <3>7 DEF l
  <2>8. e - 1 = m /\ e = m + 1 /\ e \in p + 1 .. n + 1
    BY <2>1
  <2>9. Lexeme(SubSeq(s, p, e - 1))
    BY <2>6, <2>8 DEF q
  <2>10. \A k \in e .. n : ~Lexeme(SubSeq(s, p, k))
    BY <2>7, <2>8
  <2> QED BY <2>8, <2>9, <2>10 DEF Munches
<1>6. m > n \/ m <= n
  BY <1>1, <1>3b
<1> QED BY <1>4, <1>5, <1>6 DEF e

LEMMA CommentMunches ==
  ASSUME NEW S, NEW s \in Seq(S), NEW p \in 1 .. Len(s), s[p] = "/",
         Good("comment", SubSeq(s, p, StopsAt(s, p, {Newline}) - 1))
  PROVE  Munches(s, p, StopsAt(s, p, {Newline}))
<1> DEFINE e == StopsAt(s, p, {Newline})
           d == e - 1
           q == SubSeq(s, p, d)
           n == Len(s)
<1>1. /\ e \in p + 1 .. n + 1
      /\ e <= n => s[e] = Newline
      /\ \A j \in p + 1 .. e - 1 : s[j] # Newline
  <2>1. /\ e \in p + 1 .. n + 1
        /\ e <= n => s[e] \in {Newline}
        /\ \A j \in p + 1 .. e - 1 : s[j] \notin {Newline}
    BY StopsAtFacts
  <2> QED BY <2>1
<1>2. Len(q) > 1 /\ q[2] = "/"
  BY DEF Good
<1> HIDE DEF e
<1>3. d \in p .. n /\ \A j \in p .. d : j = p \/ j \in p + 1 .. e - 1
  BY <1>1
<1> HIDE DEF d
<1>4. q[1] = s[p] /\ Range(q) = {s[i] : i \in p .. d}
  <2>1. d \in p .. Len(s)
    BY <1>3
  <2>2. LET w == SubSeq(s, p, d)
        IN  /\ w \in Seq(S) /\ Len(w) = d - p + 1 /\ Len(w) \in Nat \ {0}
            /\ w[1] = s[p] /\ Last(w) = s[d]
            /\ \A i \in p .. d : i - p + 1 \in 1 .. Len(w) /\ w[i - p + 1] = s[i]
            /\ Range(w) = {s[i] : i \in p .. d}
    BY <2>1, PieceFacts
  <2> QED BY <2>2
<1>5. Newline \notin Range(q)
  BY <1>1, <1>3, <1>4 DEF Newline
<1>6. Lexeme(q)
  BY <1>2, <1>4, <1>5 DEF Lexeme
<1>7. ASSUME NEW k \in e .. n PROVE ~Lexeme(SubSeq(s, p, k))
  <2>1. e \in p + 1 .. n
    BY <1>1, <1>7
  <2> DEFINE l == SubSeq(s, p, k)
  <2>2. l \in Seq(S) /\ l # <<>> /\ l[1] = s[p] /\ s[e] \in Range(l)
        /\ Len(l) >= 2 /\ Len(l) \in Nat
    <3>1. k \in e .. Len(s) /\ e \in p + 1 .. Len(s)
      BY <1>7, <2>1
    <3>2. LET w == SubSeq(s, p, k)
          IN  /\ w \in Seq(S) /\ w # <<>> /\ w[1] = s[p] /\ s[e] \in Range(w)
              /\ Len(w) = k - p + 1 /\ Len(w) >= 2 /\ Len(w) \in Nat
              /\ w[2] = s[p + 1] /\ p + 1 \in 1 .. Len(s)
      BY <3>1, LongerHolds
    <3> QED BY <3>2
  <2>3. s[e] = Newline
    BY <1>1, <2>1
  <2> HIDE DEF l
  <2>4. ~Lexeme(l)
    <3>1. Len(l) # 1
      <4>1. Len(l) >= 2 /\ Len(l) \in Nat
        BY <2>2
      <4>2. \A z \in Nat : z >= 2 => z # 1
        OBVIOUS
      <4> QED BY <4>1, <4>2, Zenon
    <3> QED BY <2>2, <2>3, <3>1, FirstCharacter
  <2> QED BY <2>4 DEF l
<1> QED BY <1>1, <1>6, <1>7 DEF Munches, d, e

(* An operator, where no comment begins.                                   *)
LEMMA OperatorMunches ==
  ASSUME NEW S, NEW s \in Seq(S), NEW p \in 1 .. Len(s), <<s[p]>> \in OperatorTexts,
         s[p] = "/" => ~Good("comment", SubSeq(s, p, StopsAt(s, p, {Newline}) - 1))
  PROVE  Munches(s, p, OperatorEnd(s, p))
<1> DEFINE n == Len(s)
           e == OperatorEnd(s, p)
<1>1. s[p] \in OperatorChars
  <2>1. <<s[p]>> \in Seq({s[p]}) /\ <<s[p]>> # <<>> /\ <<s[p]>>[1] = s[p]
    OBVIOUS
  <2> QED BY <2>1, OperatorFacts
<1>2. n \in Nat /\ p \in 1 .. n /\ p \in Nat
  OBVIOUS
<1>3. e = IF p < n /\ <<s[p], s[p + 1]>> \in OperatorTexts THEN p + 2 ELSE p + 1
  BY DEF OperatorEnd
<1> HIDE DEF e
<1>4. e \in p + 1 .. n + 1
  BY <1>2, <1>3
<1>5. ASSUME NEW k \in p .. n
      PROVE  LET l == SubSeq(s, p, k)
             IN  /\ l \in Seq(S) /\ l # <<>> /\ l[1] = s[p] /\ Len(l) = k - p + 1
                 /\ k = p => l = <<s[p]>>
                 /\ k = p + 1 => l = <<s[p], s[p + 1]>>
                 /\ k > p => l[2] = s[p + 1]
  <2> DEFINE l == SubSeq(s, p, k)
  <2>1. /\ l \in Seq(S) /\ Len(l) = k - p + 1 /\ Len(l) \in Nat \ {0} /\ l[1] = s[p]
        /\ \A i \in p .. k : i - p + 1 \in 1 .. Len(l) /\ l[i - p + 1] = s[i]
    BY PieceFacts
  <2> HIDE DEF l
  <2>2. k > p => l[2] = s[p + 1]
    <3>1. k > p => p + 1 \in p .. k /\ (p + 1) - p + 1 = 2
      BY <1>2
    <3> QED BY <2>1, <3>1
  <2>3. l # <<>>
    BY <2>1
  <2>4. k = p => l = <<s[p]>>
    <3>1. k = p => Len(l) = 1
      BY <1>2, <2>1
    <3> QED BY <2>1, <3>1
  <2>5. k = p + 1 => l = <<s[p], s[p + 1]>>
    <3>1. k = p + 1 => Len(l) = 2 /\ k > p
      BY <1>2, <2>1
    <3> QED BY <2>1, <2>2, <2>3, <3>1, OperatorFacts
  <2> QED BY <2>1, <2>2, <2>3, <2>4, <2>5 DEF l
<1>6. Lexeme(SubSeq(s, p, e - 1))
  <2>1. CASE e = p + 1
    <3>1. e - 1 = p /\ p \in p .. n
      BY <1>2, <2>1
    <3>2. SubSeq(s, p, e - 1) = <<s[p]>>
      BY <1>5, <3>1
    <3> QED BY <3>2 DEF Lexeme
  <2>2. CASE e # p + 1
    <3>1. p < n /\ <<s[p], s[p + 1]>> \in OperatorTexts /\ e - 1 = p + 1
          /\ p + 1 \in p .. n
      BY <1>2, <1>3, <2>2
    <3>2. SubSeq(s, p, e - 1) = <<s[p], s[p + 1]>>
      BY <1>5, <3>1
    <3> QED BY <3>1, <3>2 DEF Lexeme
  <2> QED BY <2>1, <2>2
<1>7. ASSUME NEW k \in e .. n PROVE ~Lexeme(SubSeq(s, p, k))
  <2> DEFINE l == SubSeq(s, p, k)
  <2>1. k \in p .. n /\ k > p /\ p < n
    BY <1>2, <1>4
  <2>2. /\ l \in Seq(S) /\ l # <<>> /\ l[1] = s[p] /\ Len(l) = k - p + 1
        /\ k = p + 1 => l = <<s[p], s[p + 1]>>
        /\ l[2] = s[p + 1] /\ Len(l) > 1
    <3>1. LET ll == SubSeq(s, p, k)
          IN  /\ ll \in Seq(S) /\ ll # <<>> /\ ll[1] = s[p] /\ Len(ll) = k - p + 1
              /\ k = p => ll = <<s[p]>>
              /\ k = p + 1 => ll = <<s[p], s[p + 1]>>
              /\ k > p => ll[2] = s[p + 1]
      BY <1>5, <2>1
    <3> QED BY <1>2, <2>1, <3>1
  <2> HIDE DEF l
  <2>3. ASSUME Lexeme(l) PROVE FALSE
    <3>1. CASE s[p] # "/"
      <4>1. l \in OperatorTexts
        BY <1>1, <2>2, <2>3, <3>1, FirstCharacter
      <4>2. Len(l) <= 2
        BY <2>2, <4>1, OperatorFacts
      <4>3. k = p + 1
        BY <1>2, <2>1, <2>2, <4>2
      <4>4. e = p + 2
        BY <1>3, <2>1, <2>2, <4>1, <4>3
      <4> QED BY <1>2, <4>3, <4>4
    <3>2. CASE s[p] = "/"
      <4>1. s[p + 1] = "/"
        <5>1. l[1] = "/" /\ Len(l) # 1 /\ l \in Seq(S) /\ l # <<>>
          BY <2>2, <3>2
        <5>2. l[2] = "/"
          BY <2>3, <5>1, FirstCharacter
        <5> QED BY <2>2, <5>2
      <4> DEFINE m == StopsAt(s, p, {Newline})
                 d == m - 1
                 q == SubSeq(s, p, d)
      <4>2. /\ m \in p + 1 .. n + 1
            /\ m <= n => s[m] \in {Newline}
        BY StopsAtFacts
      <4>3. ~Good("comment", q)
        BY <3>2
      <4> HIDE DEF m
      <4>4. d \in p .. n /\ d > p
        <5>1. m # p + 1
          BY <2>1, <4>1, <4>2 DEF Newline
        <5> QED BY <1>2, <4>2, <5>1
      <4> HIDE DEF d
      <4>5. LET ll == SubSeq(s, p, d)
            IN  Len(ll) = d - p + 1 /\ (d > p => ll[2] = s[p + 1])
        BY <1>5, <4>4
      <4>6. Len(q) > 1 /\ q[2] = "/"
        BY <1>2, <4>1, <4>4, <4>5
      <4>7. Good("comment", q)
        BY <4>6 DEF Good
      <4> QED BY <4>3, <4>7
    <3> QED BY <3>1, <3>2
  <2> QED BY <2>3 DEF l
<1> QED BY <1>4, <1>6, <1>7 DEF Munches, e

LEMMA SeparatorMunches ==
  ASSUME NEW S, NEW s \in Seq(S), NEW p \in 1 .. Len(s), <<s[p]>> \in SeparatorTexts
  PROVE  Munches(s, p, p + 1)
<1> DEFINE n == Len(s)
<1>1. s[p] \in SeparatorChars
  <2>1. <<s[p]>> \in Seq({s[p]}) /\ <<s[p]>> # <<>> /\ <<s[p]>>[1] = s[p]
    OBVIOUS
  <2> QED BY <2>1, OperatorFacts
<1>2. (p + 1) - 1 = p /\ p \in p .. n /\ p + 1 \in p + 1 .. n + 1
  OBVIOUS
<1>3. SubSeq(s, p, p) = <<s[p]>>
  <2> DEFINE q == SubSeq(s, p, p)
  <2>1. q \in Seq(S) /\ Len(q) = p - p + 1 /\ q[1] = s[p]
    BY <1>2, PieceFacts
  <2> HIDE DEF q
  <2>2. q = <<s[p]>>
    BY <2>1
  <2> QED BY <2>2 DEF q
<1>4. Lexeme(<<s[p]>>)
  BY DEF Lexeme
<1>5. ASSUME NEW k \in p + 1 .. n PROVE ~Lexeme(SubSeq(s, p, k))
  <2>1. p + 1 \in p + 1 .. n
    BY <1>5
  <2> DEFINE l == SubSeq(s, p, k)
  <2>2. l \in Seq(S) /\ l # <<>> /\ l[1] = s[p] /\ Len(l) # 1
    <3>1. k \in p .. Len(s) /\ k - p + 1 # 1
      OBVIOUS
    <3>2. LET w == SubSeq(s, p, k)
          IN  /\ w \in Seq(S) /\ Len(w) = k - p + 1 /\ Len(w) \in Nat \ {0}
              /\ w[1] = s[p]
      BY <3>1, PieceFacts
    <3> QED BY <3>1, <3>2
  <2> HIDE DEF l
  <2>3. ~Lexeme(l)
    BY <1>1, <2>2, FirstCharacter
  <2> QED BY <2>3 DEF l
<1> QED BY <1>2, <1>3, <1>4, <1>5 DEF Munches

-----------------------------------------------------------------------------
(* The first recipe that suits.                                            *)
RecipeNames == {"comment", "number", "string", "char", "word", "whitespace", "operator", "separator"}

LEMMA FirstSuitingFacts ==
  ASSUME NEW s, NEW p, NEW flags, Suiting(s, p, flags) # {}
  PROVE  LET r == FirstSuiting(s, p, flags)
         IN  /\ r \in RecipeNames /\ Suits(r, s, p, flags)
             /\ r = "operator" => ~Suits("comment", s, p, flags)
<1> DEFINE T == Suiting(s, p, flags)
           m == Min(T)
<1>1. Len(Recipes) = 8
  BY DEF Recipes
<1>2. T \subseteq 1 .. 8 /\ \A i \in 1 .. 8 : i \in T <=> Suits(Recipes[i], s, p, flags)
  BY <1>1 DEF Suiting
<1> HIDE DEF T
<1>3. T # {} /\ T \subseteq Nat
  BY <1>2 DEF T
<1>4. m \in T /\ \A n \in T : m <= n
  BY <1>3, LeastNat DEF Min
<1> HIDE DEF m
<1>5. m \in 1 .. 8 /\ Suits(Recipes[m], s, p, flags)
  BY <1>2, <1>4
<1>6. Recipes[m] \in RecipeNames
  BY <1>5 DEF Recipes, RecipeNames
<1>7. Recipes[m] = "operator" => ~Suits("comment", s, p, flags)
  <2>1. SUFFICES ASSUME Recipes[m] = "operator", Suits("comment", s, p, flags) PROVE FALSE
    OBVIOUS
  <2>2. m # 1
    BY <2>1 DEF Recipes
  <2>3. Recipes[1] = "comment"
    BY DEF Recipes
  <2>4. 1 \in T
    BY <1>2, <2>1, <2>3
  <2> QED BY <1>4, <1>5, <2>2, <2>4
<1>8. FirstSuiting(s, p, flags) = Recipes[m]
  BY DEF FirstSuiting, m, T
<1> QED BY <1>5, <1>6, <1>7, <1>8

(* Whatever recipe suits first, with no flag set, takes the longest piece. *)
LEMMA MaximalMunch ==
  ASSUME NEW S, NEW s \in Seq(S), NEW p \in 1 .. Len(s), Suiting(s, p, {}) # {}
  PROVE  Munches(s, p, Pioneer(FirstSuiting(s, p, {}), s, p, {}))
<1> DEFINE r == FirstSuiting(s, p, {})
           e == Pioneer(r, s, p, {})
<1>1. /\ r \in RecipeNames /\ Suits(r, s, p, {})
      /\ r = "operator" => ~Suits("comment", s, p, {})
  BY FirstSuitingFacts
<1> HIDE DEF r
<1>2. Begins(r, s[p]) /\ Good(r, SubSeq(s, p, e - 1))
  BY <1>1 DEF Suits, PieceOf
<1> HIDE DEF e
<1>3. ASSUME r = "comment" PROVE Munches(s, p, e)
  <2>1. e = StopsAt(s, p, {Newline}) /\ s[p] = "/"
    BY <1>2, <1>3 DEF Pioneer, Begins, e
  <2> QED BY <1>2, <1>3, <2>1, CommentMunches
<1>4. ASSUME r = "number" PROVE Munches(s, p, e)
  <2>1. e = StopsAt(s, p, Outside(s, Digit \union NumberLetters)) /\ s[p] \in Digit
    BY <1>2, <1>4 DEF Pioneer, Begins, e
  <2> QED BY <1>2, <1>4, <2>1, NumberMunches
<1>5. ASSUME r = "string" \/ r = "char" PROVE Munches(s, p, e)
  <2>1. e = ClosedAt(s, p, r, {}) /\ s[p] = Quotes[r] /\ r \in {"string", "char"}
    BY <1>2, <1>5 DEF Pioneer, Begins, e
  <2>2. r = "char" => Len(SubSeq(s, p, ClosedAt(s, p, r, {}) - 1)) <= 3
    BY <1>2, <2>1 DEF Good
  <2> QED BY <2>1, <2>2, QuotedMunches
<1>6. ASSUME r = "word" PROVE Munches(s, p, e)
  <2>1. e = StopsAt(s, p, Outside(s, WordLetters \union Digit)) /\ s[p] \in WordLetters
    BY <1>2, <1>6 DEF Pioneer, Begins, e
  <2> QED BY <2>1, WordMunches
<1>7. ASSUME r = "whitespace" PROVE Munches(s, p, e)
  <2>1. e = StopsAt(s, p, Outside(s, Space)) /\ s[p] \in Space
    BY <1>2, <1>7 DEF Pioneer, Begins, e
  <2> QED BY <2>1, SpaceMunches
<1>8. ASSUME r = "operator" PROVE Munches(s, p, e)
  <2>1. e = OperatorEnd(s, p) /\ <<s[p]>> \in OperatorTexts
    BY <1>2, <1>8 DEF Pioneer, Begins, e
  <2>2. s[p] = "/" => ~Good("comment", SubSeq(s, p, StopsAt(s, p, {Newline}) - 1))
    BY <1>1, <1>8 DEF Suits, PieceOf, Pioneer, Begins
  <2> QED BY <2>1, <2>2, OperatorMunches
<1>9. ASSUME r = "separator" PROVE Munches(s, p, e)
  <2>1. e = p + 1 /\ <<s[p]>> \in SeparatorTexts
    BY <1>2, <1>9 DEF Pioneer, Begins, e
  <2> QED BY <2>1, SeparatorMunches
<1> QED BY <1>1, <1>3, <1>4, <1>5, <1>6, <1>7, <1>8, <1>9 DEF RecipeNames, r, e

(* And no flag is left set inside the text.                                *)
LEMMA NoFlagInside ==
  ASSUME NEW S, NEW s \in Seq(S), NEW p \in 1 .. Len(s), NEW r,
         Pioneer(r, s, p, {}) \in p + 1 .. Len(s)
  PROVE  MetAfter(r, s, p, {}) = {}
<1>1. ~(Pioneer(r, s, p, {}) > Len(s))
  OBVIOUS
<1> QED BY <1>1 DEF MetAfter

LEMMA TextSeq ==
  ASSUME NEW s, IsText(s)
  PROVE  s \in Seq({s[i] : i \in 1 .. Len(s)})
BY DEF IsText

-----------------------------------------------------------------------------
(* The invariant: all texts are sequences, and a call that began with no   *)
(* flag set has none before its end.                                       *)
TextsGiven == IsText(text) /\ IsText(main) /\ \A n \in DOMAIN files : IsText(files[n])
PlaceInText == ~stale => ptr \in 1 .. Len(text) + 1
NoFlagBefore == ~stale /\ ~Lexed => met = {}
LexInv == TextsGiven /\ PlaceInText /\ NoFlagBefore /\ LongestMatch

LEMMA LexInvInit == Init => LexInv
<1> SUFFICES ASSUME Init PROVE LexInv
  OBVIOUS
<1>1. PICK input \in Inputs : files = input.files /\ main = input.main
  BY DEF Init
<1>2. IsText(main) /\ \A n \in DOMAIN files : IsText(files[n])
  BY <1>1, InputsAssumption
<1>3. text = main /\ ptr = 1 /\ met = {}
  BY DEF Init
<1>4. TextsGiven
  BY <1>2, <1>3 DEF TextsGiven
<1>5. Len(text) \in Nat
  BY <1>2, <1>3 DEF IsText
<1>6. PlaceInText /\ NoFlagBefore /\ LongestMatch
  BY <1>3, <1>5 DEF PlaceInText, NoFlagBefore, LongestMatch
<1> QED BY <1>4, <1>6 DEF LexInv

LEMMA PieceStep ==
  ASSUME LexInv, Lex
  PROVE  LexInv'
<1> DEFINE n == Len(text)
           r == FirstSuiting(text, ptr, met)
<1>1. /\ ~Lexed /\ Suiting(text, ptr, met) # {} /\ Taken(r)
      /\ UNCHANGED <<files, main>>
  BY DEF Lex, LexPiece
<1>2. /\ UNCHANGED <<text, stale, files, main>> /\ from' = ptr
      /\ ptr' = Pioneer(r, text, ptr, met)
      /\ met' = MetAfter(r, text, ptr, met)
  BY <1>1 DEF Taken
<1>3. TextsGiven'
  BY <1>2 DEF LexInv, TextsGiven
<1>4. ASSUME ~stale
      PROVE  /\ ptr \in 1 .. n /\ met = {} /\ n \in Nat
             /\ Munches(text, ptr, ptr')
             /\ ptr' \in ptr + 1 .. n => met' = {}
  <2>1. n \in Nat /\ text \in Seq({text[i] : i \in 1 .. n})
    BY TextSeq DEF LexInv, TextsGiven, IsText
  <2>2. ptr \in 1 .. n /\ met = {}
    BY <1>1, <1>4, <2>1 DEF LexInv, PlaceInText, NoFlagBefore, Lexed
  <2>3. ptr \in 1 .. Len(text) /\ Suiting(text, ptr, {}) # {}
    BY <1>1, <2>2
  <2>4. Munches(text, ptr, Pioneer(FirstSuiting(text, ptr, {}), text, ptr, {}))
    BY <2>1, <2>3, MaximalMunch
  <2>5. Munches(text, ptr, ptr')
    BY <1>2, <2>2, <2>4
  <2>6. ASSUME ptr' \in ptr + 1 .. n PROVE met' = {}
    <3>1. Pioneer(r, text, ptr, {}) \in ptr + 1 .. Len(text)
      BY <1>2, <2>2, <2>6
    <3>2. MetAfter(r, text, ptr, {}) = {}
      <4> HIDE DEF r
      <4> QED BY <2>1, <2>3, <3>1, NoFlagInside
    <3> QED BY <1>2, <2>2, <3>2
  <2> QED BY <2>1, <2>2, <2>5, <2>6
<1> HIDE DEF r
<1>5. ~stale => ptr' \in ptr + 1 .. n + 1
  BY <1>4 DEF Munches
<1>6. PlaceInText'
  BY <1>2, <1>4, <1>5 DEF PlaceInText
<1>7. NoFlagBefore'
  BY <1>2, <1>4, <1>5 DEF NoFlagBefore, Lexed
<1>8. LongestMatch'
  <2> SUFFICES ASSUME ~stale
               PROVE  LET q == SubSeq(text, ptr, ptr' - 1)
                      IN  /\ Lexeme(q) \/ (q[1] \in {"\"", "'"} /\ ptr' > Len(text))
                          /\ \A k \in ptr' .. Len(text) : ~Lexeme(SubSeq(text, ptr, k))
    BY <1>2, Zenon DEF LongestMatch, Unclosed, Lexed
  <2> DEFINE d == ptr' - 1
             q == SubSeq(text, ptr, d)
  <2>1. /\ Lexeme(q) \/ (OpenQuote(text[ptr]) /\ ptr' = n + 1)
        /\ \A k \in ptr' .. n : ~Lexeme(SubSeq(text, ptr, k))
    BY <1>4 DEF Munches
  <2>2. q[1] = text[ptr]
    <3>1. text \in Seq({text[i] : i \in 1 .. Len(text)})
      BY TextSeq DEF LexInv, TextsGiven
    <3>2. d \in ptr .. Len(text) /\ ptr \in 1 .. Len(text)
      BY <1>4, <1>5
    <3> HIDE DEF d
    <3>3. LET w == SubSeq(text, ptr, d)
          IN  /\ w \in Seq({text[i] : i \in 1 .. Len(text)})
              /\ Len(w) = d - ptr + 1 /\ Len(w) \in Nat \ {0}
              /\ w[1] = text[ptr] /\ Last(w) = text[d]
              /\ \A i \in ptr .. d : i - ptr + 1 \in 1 .. Len(w) /\ w[i - ptr + 1] = text[i]
              /\ Range(w) = {text[i] : i \in ptr .. d}
      BY <3>1, <3>2, PieceFacts
    <3> QED BY <3>3
  <2> HIDE DEF q
  <2>3. Lexeme(q) \/ (q[1] \in {"\"", "'"} /\ ptr' > n)
    <3>1. n \in Nat /\ (ptr' = n + 1 => ptr' > n)
      BY <1>4
    <3> QED BY <2>1, <2>2, <3>1 DEF OpenQuote
  <2> QED BY <2>1, <2>3 DEF q
<1> QED BY <1>3, <1>6, <1>7, <1>8 DEF LexInv

(* Opening a file is the only other step that the lexer's state sees.      *)
LEMMA OpenStep ==
  ASSUME LexInv, Open
  PROVE  LexInv'
<1> DEFINE f == NameIn(Token(index + 1).value)
<1>1. /\ f \in DOMAIN files /\ text' = files[f] /\ ptr' = 1
      /\ stale' = (stale \/ met # {}) /\ UNCHANGED <<met, files, main>>
  BY DEF Open, Opens, DoLex
<1> HIDE DEF f
<1>2. TextsGiven'
  BY <1>1 DEF LexInv, TextsGiven
<1>3. Len(text') \in Nat
  BY <1>2 DEF TextsGiven, IsText
<1>4. PlaceInText'
  BY <1>1, <1>3 DEF PlaceInText
<1>5. NoFlagBefore'
  <2>1. ~stale' => met' = {}
    BY <1>1
  <2> QED BY <2>1 DEF NoFlagBefore
<1>6. LongestMatch'
  <2>1. ~(ptr' > 1)
    BY <1>1
  <2> QED BY <2>1 DEF LongestMatch
<1> QED BY <1>2, <1>4, <1>5, <1>6 DEF LexInv

LEMMA LexInvNext == LexInv /\ [Next]_vars => LexInv'
<1> SUFFICES ASSUME LexInv, [Next]_vars PROVE LexInv'
  OBVIOUS
<1>1. CASE Lex
  BY <1>1, PieceStep
<1>2. CASE Open
  BY <1>2, OpenStep
<1>3. CASE UNCHANGED <<lexing, files, main>>
  <2>1. UNCHANGED <<text, ptr, met, from, stale, files, main>>
    BY <1>3 DEF lexing
  <2>2. TextsGiven' /\ PlaceInText' /\ NoFlagBefore'
    BY <2>1 DEF LexInv, TextsGiven, PlaceInText, NoFlagBefore, Lexed
  <2>3. LongestMatch'
    BY <2>1 DEF LexInv, LongestMatch, Unclosed, Lexed
  <2> QED BY <2>2, <2>3 DEF LexInv
<1>4. Lex \/ Open \/ UNCHANGED <<lexing, files, main>>
  BY DEF Next, vars, Panic, Begin, Pass, Overrun, Fail, TakeOut, Insert, Abort, Included, Finish
<1> QED BY <1>1, <1>2, <1>3, <1>4

(* Whatever files there are and however they include each other, what the  *)
(* lexer takes is the longest lexeme there, or a literal that its text     *)
(* leaves open ("match long op first", lexer.c:248, 338-375).              *)
THEOREM LongestMatchAlways == Spec => []LongestMatch
<1>1. LexInv => LongestMatch
  BY DEF LexInv
<1> QED BY <1>1, LexInvInit, LexInvNext, PTL DEF Spec

-----------------------------------------------------------------------------
(* Part two: what the scan of preprocess.c makes of the list, for as long  *)
(* as no resize has erased a token.  First sequences, of any elements.     *)

LEMMA SeqText ==
  ASSUME NEW S, NEW s \in Seq(S)
  PROVE  IsText(s)
BY DEF IsText

LEMMA AppendText ==
  ASSUME NEW s, IsText(s), NEW e
  PROVE  /\ IsText(Append(s, e)) /\ Append(s, e) = s \o <<e>>
<1> DEFINE S == {s[i] : i \in 1 .. Len(s)} \union {e}
<1>1. s \in Seq({s[i] : i \in 1 .. Len(s)})
  BY TextSeq
<1>2. s \in Seq(S) /\ e \in S
  BY <1>1
<1> HIDE DEF S
<1>3. Append(s, e) \in Seq(S) /\ Append(s, e) = s \o <<e>>
  BY <1>2
<1> QED BY <1>3, SeqText

LEMMA ConcatText ==
  ASSUME NEW s, IsText(s), NEW t, IsText(t)
  PROVE  /\ IsText(s \o t)
         /\ s \o <<>> = s /\ <<>> \o t = t
<1> DEFINE S == {s[i] : i \in 1 .. Len(s)} \union {t[i] : i \in 1 .. Len(t)}
<1>1. s \in Seq({s[i] : i \in 1 .. Len(s)}) /\ t \in Seq({t[i] : i \in 1 .. Len(t)})
  BY TextSeq
<1>2. s \in Seq(S) /\ t \in Seq(S)
  BY <1>1
<1> HIDE DEF S
<1>3. s \o t \in Seq(S) /\ s \o <<>> = s /\ <<>> \o t = t
  BY <1>2
<1> QED BY <1>3, SeqText

LEMMA ConcatMoves ==
  ASSUME NEW s, IsText(s), NEW t, IsText(t), NEW e
  PROVE  (s \o <<e>>) \o t = s \o (<<e>> \o t)
<1> DEFINE S == {s[i] : i \in 1 .. Len(s)} \union {t[i] : i \in 1 .. Len(t)} \union {e}
<1>1. s \in Seq({s[i] : i \in 1 .. Len(s)}) /\ t \in Seq({t[i] : i \in 1 .. Len(t)})
  BY TextSeq
<1>2. s \in Seq(S) /\ t \in Seq(S) /\ e \in S
  BY <1>1
<1> HIDE DEF S
<1> QED BY <1>2

LEMMA InsertText ==
  ASSUME NEW s, IsText(s), NEW i \in 1 .. Len(s), NEW e
  PROVE  /\ IsText(InsertAt(s, i, e))
         /\ Len(InsertAt(s, i, e)) = Len(s) + 1
         /\ \A k \in 1 .. i - 1 : InsertAt(s, i, e)[k] = s[k]
         /\ InsertAt(s, i, e)[i] = e
         /\ \A k \in i .. Len(s) : InsertAt(s, i, e)[k + 1] = s[k]
<1> DEFINE S == {s[k] : k \in 1 .. Len(s)} \union {e}
<1>1. s \in Seq({s[k] : k \in 1 .. Len(s)})
  BY TextSeq
<1>2. s \in Seq(S) /\ e \in S
  BY <1>1
<1> HIDE DEF S
<1> QED BY <1>2, SeqText, InsertAtFacts

LEMMA RemoveText ==
  ASSUME NEW s, IsText(s), NEW i \in 1 .. Len(s)
  PROVE  /\ IsText(RemoveAt(s, i))
         /\ Len(RemoveAt(s, i)) = Len(s) - 1
         /\ \A k \in 1 .. Len(s) - 1 :
              RemoveAt(s, i)[k] = IF k < i THEN s[k] ELSE s[k + 1]
<1> DEFINE S == {s[k] : k \in 1 .. Len(s)}
<1>1. s \in Seq(S)
  BY TextSeq
<1> HIDE DEF S
<1> QED BY <1>1, SeqText, RemoveAtFacts

-----------------------------------------------------------------------------
(* The tokens of a text from each place on: an equation of functions, from *)
(* lo up, that has a solution since every piece moves on.                  *)
CutsFrom(at, s, lo) ==
  at = [p \in lo .. Len(s) + 1 |->
          IF p > Len(s) \/ Suiting(s, p, {}) = {} THEN <<>>
          ELSE LET first == FirstSuiting(s, p, {})
               IN  TokensOf(first, PieceOf(first, s, p, {})) \o at[Pioneer(first, s, p, {})]]
CutAt(s) == CHOOSE at : CutsFrom(at, s, 1)

LEMMA TokensAreCut ==
  ASSUME NEW s
  PROVE  TokensIn(s) = CutAt(s)[1]
BY DEF TokensIn, CutAt, CutsFrom

LEMMA CutMovesOn ==
  ASSUME NEW s, IsText(s), NEW p \in 1 .. Len(s) + 1,
         ~(p > Len(s) \/ Suiting(s, p, {}) = {})
  PROVE  Pioneer(FirstSuiting(s, p, {}), s, p, {}) \in p + 1 .. Len(s) + 1
<1>1. s \in Seq({s[i] : i \in 1 .. Len(s)})
  BY TextSeq
<1>2. p \in 1 .. Len(s) /\ Suiting(s, p, {}) # {}
  BY DEF IsText
<1> QED BY <1>1, <1>2, MaximalMunch DEF Munches

LEMMA CutsExist ==
  ASSUME NEW s, IsText(s)
  PROVE  CutsFrom(CutAt(s), s, 1)
<1> DEFINE n == Len(s)
           T == {lo \in 1 .. n + 1 : \E at : CutsFrom(at, s, lo)}
<1>1. n \in Nat
  BY DEF IsText
<1>2. n + 1 \in T
  <2> DEFINE at == [p \in n + 1 .. n + 1 |-> <<>>]
  <2>1. \A p \in n + 1 .. n + 1 : p > n
    BY <1>1
  <2>2. CutsFrom(at, s, n + 1)
    BY <2>1 DEF CutsFrom
  <2> QED BY <1>1, <2>2
<1>3. T \subseteq Nat /\ T \subseteq 1 .. n + 1
  BY <1>1
<1>4. ASSUME NEW m \in 2 .. n + 1, m \in T PROVE m - 1 \in T
  <2>1. PICK at : CutsFrom(at, s, m)
    BY <1>4
  <2> DEFINE Row(p, f) ==
               IF p > Len(s) \/ Suiting(s, p, {}) = {} THEN <<>>
               ELSE LET first == FirstSuiting(s, p, {})
                    IN  TokensOf(first, PieceOf(first, s, p, {})) \o f[Pioneer(first, s, p, {})]
             g == [p \in m - 1 .. n + 1 |-> IF p \in m .. n + 1 THEN at[p] ELSE Row(p, at)]
  <2>2. \A p \in m .. n + 1 : at[p] = Row(p, at)
    BY <2>1 DEF CutsFrom
  <2>3. ASSUME NEW p \in m - 1 .. n + 1 PROVE g[p] = Row(p, at)
    BY <2>2
  <2>4. ASSUME NEW p \in m - 1 .. n + 1 PROVE Row(p, g) = Row(p, at)
    <3>1. CASE p > Len(s) \/ Suiting(s, p, {}) = {}
      BY <3>1
    <3>2. CASE ~(p > Len(s) \/ Suiting(s, p, {}) = {})
      <4> DEFINE q == Pioneer(FirstSuiting(s, p, {}), s, p, {})
      <4>1. p \in 1 .. Len(s) + 1
        BY <1>1, <1>4
      <4>2. q \in p + 1 .. Len(s) + 1
        BY <3>2, <4>1, CutMovesOn
      <4> HIDE DEF q
      <4>3. q \in m .. n + 1 /\ q \in m - 1 .. n + 1
        BY <1>1, <1>4, <4>2
      <4>4. g[q] = at[q]
        BY <4>3
      <4> DEFINE r == FirstSuiting(s, p, {})
                 t == TokensOf(r, PieceOf(r, s, p, {}))
      <4> HIDE DEF g
      <4>5. Row(p, g) = t \o g[q] /\ Row(p, at) = t \o at[q]
        BY <3>2 DEF q
      <4> HIDE DEF Row, t
      <4> QED BY <4>4, <4>5
    <3> QED BY <3>1, <3>2
  <2>5. \A p \in m - 1 .. n + 1 : g[p] = Row(p, g)
    <3> HIDE DEF g, Row
    <3> QED BY <2>3, <2>4
  <2>6. g = [p \in m - 1 .. n + 1 |-> g[p]]
    OBVIOUS
  <2> HIDE DEF g
  <2>7. g = [p \in m - 1 .. n + 1 |-> Row(p, g)]
    <3> HIDE DEF Row
    <3> QED BY <2>5, <2>6, Zenon
  <2>8. CutsFrom(g, s, m - 1)
    BY <2>7, Zenon DEF CutsFrom
  <2>9. m - 1 \in 1 .. n + 1
    BY <1>1, <1>4
  <2> QED BY <2>8, <2>9
<1> HIDE DEF T
<1>5. PICK m \in T : \A k \in T : m <= k
  BY <1>2, <1>3, LeastNat
<1>6. m = 1
  <2> SUFFICES ASSUME m # 1 PROVE FALSE
    OBVIOUS
  <2>1. m \in 2 .. n + 1 /\ ~(m <= m - 1)
    BY <1>1, <1>3, <1>5
  <2> QED BY <1>4, <1>5, <2>1
<1>7. \E at : CutsFrom(at, s, 1)
  BY <1>5, <1>6 DEF T
<1> QED BY <1>7 DEF CutAt

(* What is cut at one place, and that it is a sequence.                    *)
LEMMA CutFacts ==
  ASSUME NEW s, IsText(s)
  PROVE  /\ CutAt(s)[Len(s) + 1] = <<>>
         /\ \A p \in 1 .. Len(s) :
              Suiting(s, p, {}) # {} =>
                LET first == FirstSuiting(s, p, {})
                IN  CutAt(s)[p] = TokensOf(first, PieceOf(first, s, p, {}))
                                    \o CutAt(s)[Pioneer(first, s, p, {})]
         /\ \A p \in 1 .. Len(s) + 1 : IsText(CutAt(s)[p])
<1> DEFINE n == Len(s)
           at == CutAt(s)
           T == {lo \in 1 .. n + 1 : \A p \in lo .. n + 1 : IsText(at[p])}
<1>1. n \in Nat
  BY DEF IsText
<1>2. CutsFrom(at, s, 1)
  BY CutsExist
<1>3. \A p \in 1 .. n + 1 :
        at[p] = IF p > Len(s) \/ Suiting(s, p, {}) = {} THEN <<>>
                ELSE LET first == FirstSuiting(s, p, {})
                     IN  TokensOf(first, PieceOf(first, s, p, {})) \o at[Pioneer(first, s, p, {})]
  BY <1>2 DEF CutsFrom
<1> HIDE DEF at
<1>4. at[n + 1] = <<>>
  <2>1. n + 1 \in 1 .. n + 1 /\ n + 1 > n
    BY <1>1
  <2> QED BY <1>3, <2>1
<1>5. \A p \in 1 .. n :
        Suiting(s, p, {}) # {} =>
          LET first == FirstSuiting(s, p, {})
          IN  at[p] = TokensOf(first, PieceOf(first, s, p, {})) \o at[Pioneer(first, s, p, {})]
  <2>1. \A p \in 1 .. n : p \in 1 .. n + 1 /\ ~(p > n)
    BY <1>1
  <2> QED BY <1>3, <2>1
<1>6. IsText(<<>>) /\ \A e : IsText(<<e>>)
  BY DEF IsText
<1>7. ASSUME NEW m \in 2 .. n + 1, m \in T PROVE m - 1 \in T
  <2>1. m - 1 \in 1 .. n + 1 /\ \A p \in m - 1 .. n + 1 : p = m - 1 \/ p \in m .. n + 1
    BY <1>1
  <2> DEFINE k == m - 1
  <2>2. IsText(at[k])
    <3>1. CASE k > Len(s) \/ Suiting(s, k, {}) = {}
      BY <1>3, <1>6, <2>1, <3>1
    <3>2. CASE ~(k > Len(s) \/ Suiting(s, k, {}) = {})
      <4> DEFINE r == FirstSuiting(s, k, {})
                 q == Pioneer(r, s, k, {})
                 t == TokensOf(r, PieceOf(r, s, k, {}))
      <4>1. k \in 1 .. Len(s) + 1
        BY <2>1
      <4>2. at[k] = t \o at[q]
        BY <1>3, <3>2, <4>1
      <4>3. IsText(t)
        BY <1>6 DEF TokensOf
      <4> HIDE DEF k
      <4>4. q \in k + 1 .. Len(s) + 1
        BY <3>2, <4>1, CutMovesOn
      <4> HIDE DEF q
      <4>5. q \in m .. n + 1
        BY <4>4 DEF k
      <4>6. IsText(at[q])
        BY <1>7, <4>5
      <4> HIDE DEF t
      <4> QED BY <4>2, <4>3, <4>6, ConcatText
    <3> QED BY <3>1, <3>2
  <2> QED BY <1>7, <2>1, <2>2
<1>8. n + 1 \in T /\ T \subseteq Nat /\ T \subseteq 1 .. n + 1
  BY <1>1, <1>4, <1>6
<1> HIDE DEF T
<1>9. PICK m \in T : \A k \in T : m <= k
  BY <1>8, LeastNat
<1>10. m = 1
  <2> SUFFICES ASSUME m # 1 PROVE FALSE
    OBVIOUS
  <2>1. m \in 2 .. n + 1 /\ ~(m <= m - 1)
    BY <1>1, <1>8, <1>9
  <2> QED BY <1>7, <1>9, <2>1
<1>11. \A p \in 1 .. n + 1 : IsText(at[p])
  BY <1>9, <1>10 DEF T
<1> QED BY <1>4, <1>5, <1>11 DEF at, n

-----------------------------------------------------------------------------
(* What the lexer has cut off, and what of the list the scan relies on.    *)
Place == index - 1 + inserted
AloneKnown ==
  alone = [main |-> TokensIn(main), files |-> [n \in DOMAIN files |-> TokensIn(files[n])]]
CutSoFar ==
  InLexer => IsText(newtoks.items) /\ newtoks.items \o CutAt(text)[ptr] = TokensIn(text)
AtInclude ==
  stage = "include" =>
    /\ index < Len(tokens.items) /\ IsInclude(index) /\ Opens(index)
    /\ text = files[NameIn(Token(index + 1).value)]
AtInsert ==
  stage = "insert" =>
    /\ \E f \in DOMAIN files : newtoks.items = alone.files[f]
    /\ inserted \in 0 .. Len(newtoks.items) /\ Place \in 0 .. Len(tokens.items)
    /\ \A k \in 1 .. inserted : Token(index - 1 + k) = newtoks.items[k]
ScanShape ==
  /\ IsText(tokens.items) /\ index \in Nat \ {0}
  /\ stage = "lex" => text = main /\ index = 1
  /\ AtInclude /\ AtInsert
ScanInv == AloneKnown /\ (Sound => CutSoFar /\ ScanShape)

(* What holds of the lists though tokens have been erased.                 *)
WholeInv ==
  /\ IsText(tokens.items) /\ IsText(newtoks.items) /\ index \in Nat \ {0}
  /\ stage = "lex" => tokens.items = <<>>
  /\ stage = "include" => index < Len(tokens.items) /\ IsInclude(index) /\ Named(index)
  /\ stage = "insert" =>
       /\ inserted \in 0 .. Len(newtoks.items)
       /\ Intact(tokens) => \A k \in 1 .. inserted : newtoks.items[k] # Zero

(* A block that was moved holds nothing but zeros, or what it held.        *)
LEMMA MovedText ==
  ASSUME NEW s, IsText(s)
  PROVE  /\ IsText(Moved(s)) /\ Len(Moved(s)) = Len(s)
         /\ Moved(s) = s \/ \A k \in 1 .. Len(s) : Moved(s)[k] = Zero
BY DEF Moved, IsText

(* So a list that is intact after a call is what the call makes of a       *)
(* sequence, and was intact before.                                        *)
LEMMA AppendKept ==
  ASSUME NEW l, IsText(l.items), NEW e
  PROVE  /\ IsText(ListAppend(l, e).items)
         /\ Intact(ListAppend(l, e)) => ListAppend(l, e).items = Append(l.items, e) /\ Intact(l)
<1> DEFINE b == InBlock(l, AppendCap(l))
           s == l.items
<1>1. IsText(b) /\ Len(b) = Len(s) /\ (b = s \/ \A k \in 1 .. Len(s) : b[k] = Zero)
  BY MovedText DEF InBlock
<1>2. ListAppend(l, e).items = Append(b, e)
  BY DEF ListAppend
<1> HIDE DEF b
<1>3. Len(s) \in Nat /\ IsText(s)
  BY DEF IsText
<1>4. IsText(Append(b, e)) /\ Len(Append(b, e)) = Len(b) + 1
      /\ \A k \in 1 .. Len(b) : Append(b, e)[k] = b[k]
  <2> DEFINE S == {b[k] : k \in 1 .. Len(b)} \union {e}
  <2>1. b \in Seq({b[k] : k \in 1 .. Len(b)})
    BY <1>1, TextSeq
  <2>2. b \in Seq(S) /\ e \in S
    BY <2>1
  <2> HIDE DEF S
  <2>3. /\ Append(b, e) \in Seq(S) /\ Len(Append(b, e)) = Len(b) + 1
        /\ \A k \in 1 .. Len(b) : Append(b, e)[k] = b[k]
    BY <2>2
  <2>4. IsText(Append(b, e))
    BY <2>3, SeqText
  <2> QED BY <2>3, <2>4
<1>5. ASSUME Intact(ListAppend(l, e)) PROVE b = s /\ Intact(l)
  <2>1. \A k \in 1 .. Len(s) : b[k] # Zero
    BY <1>1, <1>2, <1>3, <1>4, <1>5 DEF Intact
  <2>2. b = s
    <3>1. CASE Len(s) = 0
      BY <1>1, <1>3, <3>1 DEF IsText
    <3>2. CASE Len(s) # 0
      <4>1. 1 \in 1 .. Len(s)
        BY <1>3, <3>2
      <4> QED BY <1>1, <2>1, <4>1
    <3> QED BY <3>1, <3>2
  <2> QED BY <2>1, <2>2 DEF Intact
<1> QED BY <1>2, <1>4, <1>5 DEF s

LEMMA InsertKept ==
  ASSUME NEW l, IsText(l.items), NEW p \in 0 .. Len(l.items) - 1, NEW e
  PROVE  /\ IsText(ListInsert(l, p, e).items)
         /\ Intact(ListInsert(l, p, e)) =>
              ListInsert(l, p, e).items = InsertAt(l.items, p + 1, e) /\ Intact(l) /\ e # Zero
<1> DEFINE b == InBlock(l, InsertCap(l))
           s == l.items
           q == InsertAt(b, p + 1, e)
<1>1. IsText(b) /\ Len(b) = Len(s) /\ (b = s \/ \A k \in 1 .. Len(s) : b[k] = Zero)
  BY MovedText DEF InBlock
<1>2. ListInsert(l, p, e).items = q
  BY DEF ListInsert
<1>3. Len(s) \in Nat /\ p \in Nat /\ p + 1 \in 1 .. Len(s) /\ (p + 1) - 1 = p
  BY DEF IsText
<1> HIDE DEF b
<1>4. /\ IsText(q) /\ Len(q) = Len(s) + 1
      /\ \A k \in 1 .. p : q[k] = b[k]
      /\ q[p + 1] = e
      /\ \A k \in p + 1 .. Len(s) : q[k + 1] = b[k]
  <2>1. p + 1 \in 1 .. Len(b)
    BY <1>1, <1>3
  <2>2. /\ IsText(q) /\ Len(q) = Len(b) + 1
        /\ \A k \in 1 .. (p + 1) - 1 : q[k] = b[k]
        /\ q[p + 1] = e
        /\ \A k \in p + 1 .. Len(b) : q[k + 1] = b[k]
    BY <1>1, <2>1, InsertText
  <2> QED BY <1>1, <1>3, <2>2
<1> HIDE DEF q, s
<1>5. ASSUME Intact(ListInsert(l, p, e)) PROVE b = s /\ Intact(l) /\ e # Zero
  <2>1. \A k \in 1 .. Len(s) + 1 : q[k] # Zero
    BY <1>2, <1>4, <1>5 DEF Intact
  <2>2. ASSUME NEW k \in 1 .. Len(s) PROVE b[k] # Zero
    <3>1. k \in 1 .. Len(s) + 1 /\ k + 1 \in 1 .. Len(s) + 1 /\ (k \in 1 .. p \/ k \in p + 1 .. Len(s))
      BY <1>3
    <3> QED BY <1>4, <2>1, <3>1
  <2>3. b = s
    <3>1. 1 \in 1 .. Len(s)
      BY <1>3
    <3> QED BY <1>1, <2>2, <3>1
  <2>4. e # Zero
    <3>1. p + 1 \in 1 .. Len(s) + 1
      BY <1>3
    <3> QED BY <1>4, <2>1, <3>1
  <2> QED BY <2>2, <2>3, <2>4 DEF Intact, s
<1> QED BY <1>2, <1>4, <1>5 DEF q, s

(* Two removals at one place, as preprocess.c:49-54 has them.              *)
LEMMA RemoveKept ==
  ASSUME NEW l, IsText(l.items), NEW p \in 0 .. Len(l.items) - 1
  PROVE  /\ IsText(ListRemove(l, p).items) /\ Len(ListRemove(l, p).items) = Len(l.items) - 1
         /\ \/ ListRemove(l, p).items = RemoveAt(l.items, p + 1)
            \/ \A k \in 1 .. Len(l.items) - 1 : ListRemove(l, p).items[k] = Zero
<1> DEFINE s == l.items
           c == RemoveAt(s, p + 1)
<1>1. IsText(c) /\ Len(c) = Len(s) - 1
  <2>1. p + 1 \in 1 .. Len(s)
    BY DEF IsText
  <2> QED BY <2>1, RemoveText
<1>2. ListRemove(l, p).items = c \/ ListRemove(l, p).items = Moved(c)
  BY DEF ListRemove
<1> HIDE DEF c, s
<1>3. /\ IsText(Moved(c)) /\ Len(Moved(c)) = Len(c)
      /\ Moved(c) = c \/ \A k \in 1 .. Len(c) : Moved(c)[k] = Zero
  BY <1>1, MovedText
<1> QED BY <1>1, <1>2, <1>3 DEF c, s

LEMMA RemoveTwiceKept ==
  ASSUME NEW l, IsText(l.items), NEW p \in 0 .. Len(l.items) - 2,
         l.items[p + 1] # Zero, l.items[p + 2] # Zero
  PROVE  LET r == ListRemove(ListRemove(l, p), p)
         IN  /\ IsText(r.items)
             /\ Intact(r) =>
                  r.items = RemoveAt(RemoveAt(l.items, p + 1), p + 1) /\ Intact(l)
<1> DEFINE s == l.items
           n == Len(s)
           d == ListRemove(l, p)
           r == ListRemove(d, p)
           c == RemoveAt(s, p + 1)
           a == RemoveAt(c, p + 1)
<1>1. IsText(s) /\ n \in Nat /\ p \in Nat /\ p \in 0 .. n - 1 /\ p + 1 \in 1 .. n
      /\ p + 1 \in 1 .. n - 1
  BY DEF IsText
<1>2. /\ IsText(d.items) /\ Len(d.items) = n - 1
      /\ d.items = c \/ \A k \in 1 .. n - 1 : d.items[k] = Zero
  BY <1>1, RemoveKept
<1>3. /\ IsText(c) /\ Len(c) = n - 1
      /\ \A k \in 1 .. n - 1 : c[k] = IF k < p + 1 THEN s[k] ELSE s[k + 1]
  BY <1>1, RemoveText
<1> HIDE DEF n, d, c
<1>4. p \in 0 .. Len(d.items) - 1 /\ p + 1 \in 1 .. Len(d.items) /\ Len(c) = Len(d.items)
  BY <1>1, <1>2, <1>3
<1>5. /\ IsText(r.items) /\ Len(r.items) = n - 2
      /\ \/ r.items = RemoveAt(d.items, p + 1)
         \/ \A k \in 1 .. n - 2 : r.items[k] = Zero
  <2>1. Len(d.items) - 1 = n - 2
    BY <1>1, <1>2
  <2>2. /\ IsText(r.items) /\ Len(r.items) = Len(d.items) - 1
        /\ \/ r.items = RemoveAt(d.items, p + 1)
           \/ \A k \in 1 .. Len(d.items) - 1 : r.items[k] = Zero
    BY <1>2, <1>4, RemoveKept
  <2> QED BY <2>1, <2>2
<1>6. /\ IsText(a) /\ Len(a) = n - 2
      /\ \A k \in 1 .. n - 2 : a[k] = IF k < p + 1 THEN c[k] ELSE c[k + 1]
  <2>1. Len(c) - 1 = n - 2 /\ p + 1 \in 1 .. Len(c)
    BY <1>1, <1>3
  <2>2. /\ IsText(a) /\ Len(a) = Len(c) - 1
        /\ \A k \in 1 .. Len(c) - 1 : a[k] = IF k < p + 1 THEN c[k] ELSE c[k + 1]
    BY <1>3, <2>1, RemoveText
  <2> QED BY <2>1, <2>2
<1>7. LET e == RemoveAt(d.items, p + 1)
      IN  \A k \in 1 .. n - 2 : e[k] = IF k < p + 1 THEN d.items[k] ELSE d.items[k + 1]
  <2>1. Len(d.items) - 1 = n - 2
    BY <1>1, <1>2
  <2>2. \A k \in 1 .. Len(d.items) - 1 :
          RemoveAt(d.items, p + 1)[k] = IF k < p + 1 THEN d.items[k] ELSE d.items[k + 1]
    BY <1>2, <1>4, RemoveText
  <2> QED BY <2>1, <2>2
<1> HIDE DEF r, a
<1>8. ASSUME Intact(r) PROVE r.items = a
  <2>1. CASE n - 2 = 0
    <3>1. Len(r.items) = 0 /\ Len(a) = 0
      BY <1>5, <1>6, <2>1
    <3> QED BY <1>5, <1>6, <3>1 DEF IsText
  <2>2. CASE n - 2 # 0
    <3>1. 1 \in 1 .. n - 2 /\ 1 \in 1 .. n - 1 /\ 1 + 1 \in 1 .. n - 1
      BY <1>1, <2>2
    <3>2. r.items[1] # Zero
      BY <1>5, <1>8, <3>1 DEF Intact
    <3>3. r.items = RemoveAt(d.items, p + 1)
      BY <1>5, <3>1, <3>2
    <3>4. d.items = c
      BY <1>2, <1>7, <3>1, <3>2, <3>3
    <3> QED BY <3>3, <3>4 DEF a
  <2> QED BY <2>1, <2>2
<1>9. ASSUME Intact(r), NEW k \in 1 .. n PROVE s[k] # Zero
  <2>1. r.items = a
    BY <1>8, <1>9
  <2>2. \A j \in 1 .. n - 2 : a[j] # Zero
    BY <1>5, <1>9, <2>1 DEF Intact
  <2>3. CASE k < p + 1
    <3>1. k \in 1 .. n - 1 /\ k \in 1 .. n - 2
      BY <1>1, <2>3
    <3> QED BY <1>3, <1>6, <2>2, <2>3, <3>1
  <2>4. CASE k = p + 1 \/ k = p + 2
    BY <2>4 DEF s
  <2>5. CASE k > p + 2
    <3>1. /\ k - 2 \in 1 .. n - 2 /\ (k - 2) + 1 \in 1 .. n - 1 /\ ((k - 2) + 1) + 1 = k
          /\ ~(k - 2 < p + 1) /\ ~((k - 2) + 1 < p + 1)
      BY <1>1, <2>5
    <3>2. a[k - 2] = s[k]
      BY <1>3, <1>6, <3>1
    <3> QED BY <2>2, <3>1, <3>2
  <2>6. k < p + 1 \/ k = p + 1 \/ k = p + 2 \/ k > p + 2
    BY <1>1
  <2> QED BY <2>3, <2>4, <2>5, <2>6
<1>10. Intact(r) => Intact(l)
  BY <1>9 DEF Intact, n, s
<1> QED BY <1>5, <1>8, <1>10 DEF r, a, c, d, s

LEMMA AloneFacts ==
  ASSUME TextsGiven, AloneKnown
  PROVE  /\ alone.main = TokensIn(main) /\ IsText(alone.main)
         /\ \A f \in DOMAIN files : alone.files[f] = TokensIn(files[f]) /\ IsText(alone.files[f])
<1>1. ASSUME NEW s, IsText(s) PROVE IsText(TokensIn(s))
  <2>1. Len(s) \in Nat /\ 1 \in 1 .. Len(s) + 1
    BY <1>1 DEF IsText
  <2> QED BY <1>1, <2>1, TokensAreCut, CutFacts
<1>2. alone.main = TokensIn(main) /\ \A f \in DOMAIN files : alone.files[f] = TokensIn(files[f])
  BY DEF AloneKnown
<1> QED BY <1>1, <1>2 DEF TextsGiven

(* A flag that a call began with is known from then on.                    *)
LEMMA FreshBefore ==
  ASSUME [Next]_vars, ~stale'
  PROVE  ~stale
<1>1. CASE Lex
  BY <1>1 DEF Lex, LexPiece, Taken
<1>2. CASE Open
  BY <1>2 DEF Open, DoLex
<1>3. CASE UNCHANGED lexing
  BY <1>3 DEF lexing
<1> QED
  BY <1>1, <1>2, <1>3
     DEF Next, vars, Panic, Begin, Pass, Overrun, Fail, TakeOut, Insert, Abort, Included, Finish

LEMMA WholeInvInit == Init => WholeInv
BY DEF Init, WholeInv, ListCreate, IsText

LEMMA WholeInvNext == WholeInv /\ [Next]_vars => WholeInv'
<1> SUFFICES ASSUME WholeInv, [Next]_vars PROVE WholeInv'
  OBVIOUS
<1>1. CASE Lex
  <2>1. /\ InLexer /\ UNCHANGED <<stage, tokens, index>>
        /\ newtoks' = Added(newtoks, TokensOf(FirstSuiting(text, ptr, met),
                            PieceOf(FirstSuiting(text, ptr, met), text, ptr, met)))
    BY <1>1 DEF Lex, LexPiece, Taken
  <2>2. IsText(newtoks'.items)
    BY <2>1, AppendKept DEF WholeInv, Added
  <2> QED BY <2>1, <2>2 DEF WholeInv, InLexer, IsInclude, Named, Token
<1>2. CASE Begin
  BY <1>2 DEF Begin, WholeInv, lexing
<1>3. CASE Pass
  BY <1>3 DEF Pass, WholeInv, lexing
<1>4. CASE Open
  <2>1. newtoks'.items = <<>> /\ IsText(newtoks'.items)
    BY <1>4 DEF Open, DoLex, ListCreate, IsText
  <2>2. /\ stage' = "include" /\ IsInclude(index) /\ Named(index) /\ index < Len(tokens.items)
        /\ UNCHANGED <<tokens, index>>
    BY <1>4 DEF Open, Opens, Named
  <2> QED BY <2>1, <2>2 DEF WholeInv, IsInclude, Named, Token
<1>5. CASE TakeOut
  <2> DEFINE p == index - 1
  <2>1. /\ stage = "include" /\ stage' = "insert" /\ inserted' = 0 /\ UNCHANGED <<newtoks, index>>
        /\ tokens' = ListRemove(ListRemove(tokens, p), p)
    BY <1>5 DEF TakeOut, lexing
  <2>2. /\ p \in 0 .. Len(tokens.items) - 2 /\ p \in 0 .. Len(tokens.items) - 1
        /\ IsText(tokens.items) /\ (Len(tokens.items) - 1) - 1 = Len(tokens.items) - 2
    BY <2>1 DEF WholeInv, IsText
  <2>3. IsText(ListRemove(tokens, p).items) /\ Len(ListRemove(tokens, p).items) = Len(tokens.items) - 1
    BY <2>2, RemoveKept
  <2>4. p \in 0 .. Len(ListRemove(tokens, p).items) - 1
    BY <2>2, <2>3
  <2>5. IsText(ListRemove(ListRemove(tokens, p), p).items)
    BY <2>3, <2>4, RemoveKept
  <2>6. 0 \in 0 .. Len(newtoks.items) /\ \A k \in 1 .. 0 : FALSE
    BY DEF WholeInv, IsText
  <2> QED BY <2>1, <2>5, <2>6 DEF WholeInv
<1>6. CASE Insert
  <2> DEFINE e == newtoks.items[inserted + 1]
  <2>1. /\ stage = "insert" /\ stage' = "insert" /\ inserted' = inserted + 1
        /\ UNCHANGED <<newtoks, index>> /\ inserted < Len(newtoks.items)
        /\ Place < Len(tokens.items) /\ tokens' = ListInsert(tokens, Place, e)
    BY <1>6 DEF Insert, More, lexing, CanInsert, PlaceOf, Place
  <2>2. Place \in 0 .. Len(tokens.items) - 1 /\ inserted + 1 \in 0 .. Len(newtoks.items)
        /\ inserted \in Nat /\ IsText(tokens.items)
    BY <2>1 DEF WholeInv, Place, IsText
  <2> HIDE DEF e
  <2>3. /\ IsText(tokens'.items)
        /\ Intact(tokens') => Intact(tokens) /\ e # Zero
    BY <2>1, <2>2, InsertKept
  <2>4. ASSUME Intact(tokens'), NEW k \in 1 .. inserted + 1 PROVE newtoks.items[k] # Zero
    <3>1. k \in 1 .. inserted \/ k = inserted + 1
      BY <2>2
    <3> QED BY <2>1, <2>3, <2>4, <3>1 DEF WholeInv, e
  <2>5. Intact(tokens)' <=> Intact(tokens')
    BY DEF Intact
  <2> QED BY <2>1, <2>2, <2>3, <2>4, <2>5 DEF WholeInv
<1>7. CASE Included
  <2>1. stage' = "scan" /\ index' = index + 2 /\ UNCHANGED <<tokens, newtoks>>
    BY <1>7 DEF Included, Resume, lexing
  <2> QED BY <2>1 DEF WholeInv
<1>8. CASE Panic \/ Overrun \/ Fail \/ Abort \/ Finish
  <2>1. /\ stage' \in {"panicked", "crashed", "failed", "aborted", "done"}
        /\ UNCHANGED <<tokens, newtoks, index>>
    BY <1>8 DEF Panic, Overrun, Fail, Abort, Finish, lexing
  <2> QED BY <2>1 DEF WholeInv
<1>9. CASE UNCHANGED vars
  BY <1>9 DEF vars, lexing, WholeInv, IsInclude, Named, Token, Intact
<1> QED BY <1>1, <1>2, <1>3, <1>4, <1>5, <1>6, <1>7, <1>8, <1>9 DEF Next

(* What has been erased does not come back.                                *)
LEMMA ErasedForGood ==
  ASSUME WholeInv, [Next]_vars, NoneErased'
  PROVE  NoneErased
<1>1. Intact(tokens') /\ (~InList' => Intact(newtoks'))
  BY DEF NoneErased, Intact
<1>2. CASE Lex
  <2> DEFINE t == TokensOf(FirstSuiting(text, ptr, met), PieceOf(FirstSuiting(text, ptr, met), text, ptr, met))
  <2>1. /\ InLexer /\ UNCHANGED <<stage, tokens>> /\ newtoks' = Added(newtoks, t)
    BY <1>2 DEF Lex, LexPiece, Taken
  <2> HIDE DEF t
  <2>2. Intact(newtoks')
    BY <1>1, <2>1 DEF InLexer, InList
  <2>3. Intact(newtoks)
    BY <2>1, <2>2, AppendKept DEF WholeInv, Added
  <2> QED BY <1>1, <2>1, <2>3 DEF NoneErased
<1>3. CASE Begin
  <2>1. stage = "lex" /\ tokens' = newtoks
    BY <1>3 DEF Begin
  <2>2. tokens.items = <<>>
    BY <2>1 DEF WholeInv
  <2>3. Intact(tokens)
    BY <2>2 DEF Intact
  <2> QED BY <1>1, <2>1, <2>3 DEF NoneErased
<1>4. CASE Pass \/ Overrun \/ Fail \/ Open \/ Finish
  <2>1. stage = "scan" /\ UNCHANGED tokens
    BY <1>4 DEF Pass, Overrun, Fail, Open, Finish
  <2> QED BY <1>1, <2>1 DEF NoneErased, InList
<1>5. CASE TakeOut
  <2> DEFINE p == index - 1
  <2>1. /\ stage = "include" /\ stage' = "insert" /\ UNCHANGED newtoks
        /\ tokens' = ListRemove(ListRemove(tokens, p), p)
    BY <1>5 DEF TakeOut, lexing
  <2>2. /\ p \in 0 .. Len(tokens.items) - 2 /\ p + 1 = index /\ p + 2 = index + 1
        /\ IsText(tokens.items) /\ IsInclude(index) /\ Named(index)
    BY <2>1 DEF WholeInv, IsText
  <2>3. tokens.items[p + 1] # Zero /\ tokens.items[p + 2] # Zero
    BY <2>2, ZeroAssumption DEF IsInclude, Named, Token
  <2> HIDE DEF p
  <2>4. Intact(ListRemove(ListRemove(tokens, p), p)) => Intact(tokens)
    BY <2>2, <2>3, RemoveTwiceKept
  <2> QED BY <1>1, <2>1, <2>4 DEF NoneErased, InList
<1>6. CASE Insert
  <2> DEFINE e == newtoks.items[inserted + 1]
  <2>1. /\ stage = "insert" /\ stage' = "insert" /\ UNCHANGED newtoks
        /\ Place < Len(tokens.items) /\ tokens' = ListInsert(tokens, Place, e)
    BY <1>6 DEF Insert, More, lexing, CanInsert, PlaceOf, Place
  <2>2. Place \in 0 .. Len(tokens.items) - 1 /\ IsText(tokens.items)
    BY <2>1 DEF WholeInv, Place, IsText
  <2> HIDE DEF e
  <2>3. Intact(tokens') => Intact(tokens)
    BY <2>1, <2>2, InsertKept
  <2> QED BY <1>1, <2>1, <2>3 DEF NoneErased, InList
<1>7. CASE Included
  <2>1. stage = "insert" /\ ~(inserted < Len(newtoks.items)) /\ UNCHANGED tokens
    BY <1>7 DEF Included, More
  <2>2. inserted \in 0 .. Len(newtoks.items) /\ Len(newtoks.items) \in Nat
    BY <2>1 DEF WholeInv, IsText
  <2>3. inserted = Len(newtoks.items)
    BY <2>1, <2>2
  <2>4. Intact(tokens)
    BY <1>1, <2>1
  <2>5. Intact(newtoks)
    BY <2>1, <2>3, <2>4 DEF WholeInv, Intact
  <2> QED BY <2>4, <2>5 DEF NoneErased
<1>8. CASE Panic \/ Abort
  <2>1. stage' \in {"panicked", "aborted"} /\ UNCHANGED <<tokens, newtoks>>
    BY <1>8 DEF Panic, Abort, lexing
  <2> QED BY <1>1, <2>1 DEF NoneErased, InList
<1>9. CASE UNCHANGED vars
  BY <1>1, <1>9 DEF vars, lexing, NoneErased, InList
<1> QED BY <1>2, <1>3, <1>4, <1>5, <1>6, <1>7, <1>8, <1>9 DEF Next

LEMMA SoundBefore ==
  ASSUME WholeInv, [Next]_vars, Sound'
  PROVE  Sound
BY FreshBefore, ErasedForGood DEF Sound

(* At the end of its text the lexer has all the tokens of it.              *)
LEMMA AllCut ==
  ASSUME LexInv, ScanInv, Sound, InLexer, Lexed
  PROVE  newtoks.items = TokensIn(text) /\ IsText(newtoks.items)
<1>1. IsText(text) /\ ptr \in 1 .. Len(text) + 1 /\ Len(text) \in Nat
  BY DEF LexInv, TextsGiven, PlaceInText, IsText, Sound
<1>2. ptr = Len(text) + 1
  BY <1>1 DEF Lexed
<1>3. CutAt(text)[ptr] = <<>>
  BY <1>1, <1>2, CutFacts
<1>4. IsText(newtoks.items) /\ newtoks.items \o CutAt(text)[ptr] = TokensIn(text)
  BY DEF ScanInv, CutSoFar
<1> QED BY <1>3, <1>4, ConcatText

(* One piece more moves from what is to be cut to what is.                 *)
LEMMA PieceCut ==
  ASSUME LexInv, ScanInv, Lex, Sound, NoneErased'
  PROVE  CutSoFar'
<1> DEFINE r == FirstSuiting(text, ptr, met)
           t == TokensOf(r, PieceOf(r, text, ptr, met))
           a == newtoks.items
           b == CutAt(text)[ptr']
<1>1. /\ InLexer /\ ~Lexed /\ Suiting(text, ptr, met) # {} /\ Taken(r) /\ UNCHANGED stage
  BY DEF Lex, LexPiece
<1>2. /\ UNCHANGED <<text, stale>> /\ ptr' = Pioneer(r, text, ptr, met)
      /\ newtoks' = Added(newtoks, t)
  BY <1>1 DEF Taken
<1>3. IsText(text) /\ Len(text) \in Nat /\ ptr \in 1 .. Len(text) /\ met = {}
  <2>1. IsText(text) /\ Len(text) \in Nat /\ ptr \in 1 .. Len(text) + 1 /\ met = {}
    BY <1>1 DEF LexInv, TextsGiven, PlaceInText, NoFlagBefore, IsText, Sound
  <2> QED BY <1>1, <2>1 DEF Lexed
<1>4. CutAt(text)[ptr] = t \o b /\ IsText(b)
  <2>1. CutAt(text)[ptr] = t \o b
    BY <1>1, <1>2, <1>3, CutFacts
  <2>2. ~(ptr > Len(text) \/ Suiting(text, ptr, {}) = {}) /\ ptr \in 1 .. Len(text) + 1
    BY <1>1, <1>3
  <2>3. ptr' \in ptr + 1 .. Len(text) + 1
    BY <1>2, <1>3, <2>2, CutMovesOn
  <2>4. ptr' \in 1 .. Len(text) + 1
    BY <1>3, <2>3
  <2> QED BY <1>3, <2>1, <2>4, CutFacts
<1>5. IsText(a) /\ a \o CutAt(text)[ptr] = TokensIn(text)
  BY <1>1 DEF ScanInv, CutSoFar
<1>6. t = <<>> \/ \E e : t = <<e>>
  BY DEF TokensOf
<1> HIDE DEF r, t, b
<1>7. IsText(newtoks'.items) /\ newtoks'.items \o b = a \o (t \o b)
  <2>1. CASE t = <<>>
    BY <1>2, <1>4, <1>5, <2>1, ConcatText DEF Added
  <2>2. CASE \E e : t = <<e>>
    <3>1. PICK e : t = <<e>>
      BY <2>2
    <3>2. t # <<>> /\ t[1] = e
      BY <3>1
    <3>3. newtoks'.items = Append(a, e)
      <4>1. Intact(newtoks')
        BY <1>1 DEF NoneErased, InList, InLexer, Intact
      <4>2. newtoks' = ListAppend(newtoks, e)
        BY <1>2, <3>2 DEF Added
      <4> QED BY <1>5, <4>1, <4>2, AppendKept
    <3> HIDE DEF a
    <3>4. IsText(newtoks'.items) /\ newtoks'.items = a \o <<e>>
      BY <1>5, <3>3, AppendText
    <3>5. (a \o <<e>>) \o b = a \o (<<e>> \o b)
      BY <1>4, <1>5, ConcatMoves
    <3> QED BY <3>1, <3>4, <3>5
  <2> QED BY <1>6, <2>1, <2>2
<1>8. InLexer' /\ text' = text
  BY <1>1, <1>2 DEF InLexer
<1>9. newtoks'.items \o CutAt(text)[ptr'] = TokensIn(text)
  BY <1>4, <1>5, <1>7 DEF b
<1> QED BY <1>2, <1>7, <1>9 DEF CutSoFar

(* The cut begins anew where do_lex does.                                  *)
LEMMA CutAnew ==
  ASSUME NEW s, IsText(s), NEW l, l.items = <<>>
  PROVE  IsText(l.items) /\ l.items \o CutAt(s)[1] = TokensIn(s)
<1>1. Len(s) \in Nat /\ 1 \in 1 .. Len(s) + 1
  BY DEF IsText
<1>2. IsText(CutAt(s)[1])
  BY <1>1, CutFacts
<1>3. IsText(<<>>)
  BY DEF IsText
<1> QED BY <1>2, <1>3, ConcatText, TokensAreCut

(* The include and its path go, ...                                        *)
LEMMA TakeOutFacts ==
  ASSUME ScanInv, Sound, NoneErased', TakeOut
  PROVE  /\ Len(tokens.items) \in Nat /\ index \in 1 .. Len(tokens.items) - 1
         /\ IsText(tokens'.items) /\ Len(tokens'.items) = Len(tokens.items) - 2
         /\ \A k \in 1 .. Len(tokens.items) - 2 :
              tokens'.items[k] = IF k < index THEN tokens.items[k] ELSE tokens.items[k + 2]
<1> DEFINE s == tokens.items
           n == Len(s)
           p == index - 1
           r == RemoveAt(s, index)
<1>1. n \in Nat /\ IsText(s) /\ index \in 1 .. n - 1
  <2>1. IsText(s) /\ index \in Nat \ {0} /\ index < n
    BY DEF ScanInv, ScanShape, AtInclude, TakeOut
  <2> QED BY <2>1 DEF IsText
<1>2. tokens'.items = RemoveAt(r, index)
  <2>1. p + 1 = index /\ p + 2 = index + 1 /\ p \in 0 .. Len(tokens.items) - 2
    BY <1>1
  <2>2. tokens.items[index] # Zero /\ tokens.items[index + 1] # Zero
    BY ZeroAssumption
       DEF ScanInv, ScanShape, AtInclude, TakeOut, IsInclude, Opens, Named, Token
  <2>3. tokens' = ListRemove(ListRemove(tokens, p), p) /\ Intact(tokens')
    BY DEF TakeOut, NoneErased, Intact
  <2> HIDE DEF p
  <2> QED BY <1>1, <2>1, <2>2, <2>3, RemoveTwiceKept
<1>3. /\ IsText(r) /\ Len(r) = n - 1
      /\ \A k \in 1 .. n - 1 : r[k] = IF k < index THEN s[k] ELSE s[k + 1]
  <2>1. index \in 1 .. Len(s)
    BY <1>1
  <2> QED BY <1>1, <2>1, RemoveText
<1> HIDE DEF s, r
<1>4. /\ IsText(tokens'.items) /\ Len(tokens'.items) = n - 2
      /\ \A k \in 1 .. n - 2 : tokens'.items[k] = IF k < index THEN r[k] ELSE r[k + 1]
  <2>1. index \in 1 .. Len(r) /\ Len(r) - 1 = n - 2
    BY <1>1, <1>3
  <2>2. LET q == RemoveAt(r, index)
        IN  /\ IsText(q) /\ Len(q) = Len(r) - 1
            /\ \A k \in 1 .. Len(r) - 1 : q[k] = IF k < index THEN r[k] ELSE r[k + 1]
    BY <1>3, <2>1, RemoveText
  <2> QED BY <1>2, <2>1, <2>2
<1> HIDE DEF n
<1>5. ASSUME NEW k \in 1 .. n - 2
      PROVE  tokens'.items[k] = IF k < index THEN s[k] ELSE s[k + 2]
  <2>1. k \in 1 .. n - 1 /\ k + 1 \in 1 .. n - 1 /\ (k + 1) + 1 = k + 2
        /\ (~(k < index) => ~(k + 1 < index))
    BY <1>1
  <2> QED BY <1>3, <1>4, <2>1
<1> QED BY <1>1, <1>4, <1>5 DEF s, n

(* ... and a token of the file comes in before those behind.               *)
LEMMA InsertFacts ==
  ASSUME ScanInv, Sound, NoneErased', Insert
  PROVE  /\ Len(tokens.items) \in Nat /\ Place \in 0 .. Len(tokens.items) - 1
         /\ index \in Nat \ {0} /\ inserted \in Nat /\ inserted < Len(newtoks.items)
         /\ IsText(tokens'.items) /\ Len(tokens'.items) = Len(tokens.items) + 1
         /\ \A k \in 1 .. Place : tokens'.items[k] = tokens.items[k]
         /\ tokens'.items[Place + 1] = newtoks.items[inserted + 1]
         /\ \A k \in Place + 1 .. Len(tokens.items) : tokens'.items[k + 1] = tokens.items[k]
<1> DEFINE s == tokens.items
           n == Len(s)
           e == newtoks.items[inserted + 1]
           p == Place
<1>1. /\ n \in Nat /\ IsText(s) /\ p \in 0 .. n - 1
      /\ index \in Nat \ {0} /\ inserted \in Nat /\ inserted < Len(newtoks.items)
  <2>1. /\ IsText(s) /\ index \in Nat \ {0} /\ Place \in 0 .. n
        /\ inserted \in 0 .. Len(newtoks.items)
    BY DEF ScanInv, ScanShape, AtInsert, Insert, More
  <2>2. Place < n /\ inserted < Len(newtoks.items)
    BY DEF Insert, More, CanInsert, PlaceOf, Place
  <2> QED BY <2>1, <2>2 DEF IsText
<1>2. tokens'.items = InsertAt(s, p + 1, e)
  <2>1. tokens' = ListInsert(tokens, p, e)
    BY DEF Insert, PlaceOf, Place
  <2>2. Intact(tokens')
    BY DEF NoneErased, Intact
  <2> HIDE DEF e, p
  <2> QED BY <1>1, <2>1, <2>2, InsertKept
<1> HIDE DEF s, n, e, p
<1>3. p + 1 \in 1 .. Len(s) /\ (p + 1) - 1 = p
  BY <1>1 DEF n
<1>4. LET q == InsertAt(s, p + 1, e)
      IN  /\ IsText(q) /\ Len(q) = Len(s) + 1
          /\ \A k \in 1 .. (p + 1) - 1 : q[k] = s[k]
          /\ q[p + 1] = e
          /\ \A k \in p + 1 .. Len(s) : q[k + 1] = s[k]
  BY <1>1, <1>3, InsertText
<1> QED BY <1>1, <1>2, <1>3, <1>4 DEF s, n, e, p

LEMMA ScanInvInit == Init => ScanInv
<1> SUFFICES ASSUME Init PROVE ScanInv
  OBVIOUS
<1>1. /\ stage = "lex" /\ text = main /\ ptr = 1 /\ index = 1
      /\ tokens.items = <<>> /\ newtoks.items = <<>>
  BY DEF Init, ListCreate
<1>2. AloneKnown
  BY DEF Init, AloneKnown
<1>3. IsText(text)
  BY LexInvInit DEF LexInv, TextsGiven
<1>4. CutSoFar
  BY <1>1, <1>3, CutAnew DEF CutSoFar
<1>5. ScanShape
  BY <1>1 DEF ScanShape, AtInclude, AtInsert, IsText
<1> QED BY <1>2, <1>4, <1>5 DEF ScanInv

(* The steps that do something to the list or begin a text, one by one.    *)
LEMMA BeginShape ==
  ASSUME LexInv, ScanInv, Sound, Begin
  PROVE  /\ tokens'.items = alone.main /\ IsText(alone.main)
         /\ CutSoFar' /\ ScanShape'
<1>1. /\ stage = "lex" /\ Lexed /\ tokens' = newtoks /\ stage' = "scan" /\ UNCHANGED index
  BY DEF Begin
<1>2. InLexer /\ text = main /\ index \in Nat \ {0} /\ AloneKnown /\ TextsGiven
  BY <1>1 DEF InLexer, LexInv, ScanInv, ScanShape
<1>3. newtoks.items = TokensIn(text) /\ IsText(newtoks.items)
  BY <1>1, <1>2, AllCut
<1>4. alone.main = TokensIn(main) /\ IsText(alone.main)
  BY <1>2, AloneFacts
<1>5. tokens'.items = alone.main
  BY <1>1, <1>2, <1>3, <1>4
<1>6. CutSoFar'
  BY <1>1 DEF CutSoFar, InLexer
<1>7. ScanShape'
  BY <1>1, <1>2, <1>4, <1>5 DEF ScanShape, AtInclude, AtInsert
<1> QED BY <1>4, <1>5, <1>6, <1>7

LEMMA OpenShape ==
  ASSUME LexInv, ScanInv, Sound, Open
  PROVE  CutSoFar' /\ ScanShape'
<1> DEFINE f == NameIn(Token(index + 1).value)
<1>1. /\ IsInclude(index) /\ Opens(index) /\ stage' = "include"
      /\ text' = files[f] /\ ptr' = 1 /\ newtoks' = ListCreate(TokenCap)
      /\ UNCHANGED <<files, tokens, index>>
  BY DEF Open, DoLex
<1>2. f \in DOMAIN files /\ index < Len(tokens.items)
  BY <1>1 DEF Opens, Named
<1>3. IsText(text')
  BY <1>1, <1>2 DEF LexInv, TextsGiven
<1>4. newtoks'.items = <<>>
  BY <1>1 DEF ListCreate
<1>5. CutSoFar'
  <2>1. IsText(newtoks'.items) /\ newtoks'.items \o CutAt(text')[1] = TokensIn(text')
    BY <1>3, <1>4, CutAnew
  <2> QED BY <1>1, <2>1 DEF CutSoFar
<1>6. IsText(tokens.items) /\ index \in Nat \ {0}
  BY DEF ScanInv, ScanShape
<1>7. AtInclude'
  <2>1. IsInclude(index)' /\ Opens(index)' /\ Token(index + 1)' = Token(index + 1)
    BY <1>1 DEF IsInclude, Opens, Named, Token
  <2> QED BY <1>1, <1>2, <2>1 DEF AtInclude
<1>8. AtInsert'
  BY <1>1 DEF AtInsert
<1> QED BY <1>1, <1>5, <1>6, <1>7, <1>8 DEF ScanShape

LEMMA TakeOutShape ==
  ASSUME LexInv, ScanInv, Sound, NoneErased', TakeOut
  PROVE  CutSoFar' /\ ScanShape'
<1> DEFINE f == NameIn(Token(index + 1).value)
<1>1. /\ stage = "include" /\ Lexed /\ stage' = "insert" /\ inserted' = 0
      /\ UNCHANGED <<newtoks, files, index, alone>>
  BY DEF TakeOut, lexing
<1>2. InLexer /\ f \in DOMAIN files /\ text = files[f] /\ AloneKnown /\ TextsGiven
  BY <1>1 DEF InLexer, LexInv, ScanInv, ScanShape, AtInclude, Opens
<1> HIDE DEF f
<1>3. newtoks.items = TokensIn(text) /\ IsText(newtoks.items)
  BY <1>1, <1>2, AllCut
<1>4. newtoks.items = alone.files[f]
  BY <1>2, <1>3, AloneFacts
<1>5. /\ Len(tokens.items) \in Nat /\ index \in 1 .. Len(tokens.items) - 1
      /\ IsText(tokens'.items) /\ Len(tokens'.items) = Len(tokens.items) - 2
  BY TakeOutFacts
<1>6. AtInsert'
  <2>1. \E g \in DOMAIN files' : newtoks'.items = alone'.files[g]
    BY <1>1, <1>2, <1>4
  <2>2. inserted' \in 0 .. Len(newtoks'.items)
    BY <1>1, <1>3 DEF IsText
  <2>3. Place' \in 0 .. Len(tokens'.items)
    BY <1>1, <1>5 DEF Place
  <2>4. \A k \in 1 .. inserted' : Token(index - 1 + k)' = newtoks'.items[k]
    BY <1>1
  <2> QED BY <1>1, <2>1, <2>2, <2>3, <2>4 DEF AtInsert
<1>7. CutSoFar' /\ AtInclude'
  BY <1>1 DEF CutSoFar, InLexer, AtInclude
<1> QED BY <1>1, <1>5, <1>6, <1>7 DEF ScanShape

LEMMA InsertShape ==
  ASSUME LexInv, ScanInv, Sound, NoneErased', Insert
  PROVE  CutSoFar' /\ ScanShape'
<1>1. /\ stage = "insert" /\ stage' = "insert" /\ inserted' = inserted + 1
      /\ UNCHANGED <<newtoks, files, index, alone>>
  BY DEF Insert, More, lexing
<1>2. /\ \E g \in DOMAIN files : newtoks.items = alone.files[g]
      /\ inserted \in 0 .. Len(newtoks.items)
      /\ \A k \in 1 .. inserted : Token(index - 1 + k) = newtoks.items[k]
  BY <1>1 DEF ScanInv, ScanShape, AtInsert
<1> DEFINE n == Len(tokens.items)
           c == Len(newtoks.items)
<1>3. /\ n \in Nat /\ Place \in 0 .. n - 1
      /\ index \in Nat \ {0} /\ inserted \in Nat /\ inserted < c
      /\ IsText(tokens'.items) /\ Len(tokens'.items) = n + 1
      /\ \A k \in 1 .. Place : tokens'.items[k] = tokens.items[k]
      /\ tokens'.items[Place + 1] = newtoks.items[inserted + 1]
  BY InsertFacts
<1>4. c \in Nat
  <2>1. TextsGiven /\ AloneKnown
    BY DEF LexInv, ScanInv
  <2> QED BY <1>2, <2>1, AloneFacts DEF IsText
<1> HIDE DEF n, c
<1>5. Place' = Place + 1
  BY <1>1, <1>3 DEF Place
<1>6. \A k \in 1 .. inserted' : tokens'.items[index - 1 + k] = newtoks.items[k]
  <2> SUFFICES ASSUME NEW k \in 1 .. inserted + 1
               PROVE  tokens'.items[index - 1 + k] = newtoks.items[k]
    BY <1>1
  <2>1. CASE k = inserted + 1
    <3>1. index - 1 + k = Place + 1
      BY <1>3, <2>1 DEF Place
    <3> QED BY <1>3, <2>1, <3>1
  <2>2. CASE k # inserted + 1
    <3>1. k \in 1 .. inserted /\ index - 1 + k \in 1 .. Place
      BY <1>3, <2>2 DEF Place
    <3> QED BY <1>2, <1>3, <3>1 DEF Token
  <2> QED BY <2>1, <2>2
<1>7. AtInsert'
  <2>1. \E g \in DOMAIN files' : newtoks'.items = alone'.files[g]
    BY <1>1, <1>2
  <2>2. inserted' \in 0 .. c
    BY <1>1, <1>3, <1>4
  <2>3. Place' \in 0 .. Len(tokens'.items)
    BY <1>3, <1>5
  <2>4. \A k \in 1 .. inserted' : Token(index - 1 + k)' = newtoks'.items[k]
    BY <1>1, <1>6 DEF Token
  <2> QED BY <1>1, <2>1, <2>2, <2>3, <2>4 DEF AtInsert, c
<1>8. CutSoFar' /\ AtInclude'
  BY <1>1 DEF CutSoFar, InLexer, AtInclude
<1> QED BY <1>1, <1>3, <1>7, <1>8 DEF ScanShape

LEMMA ScanInvNext == LexInv /\ WholeInv /\ ScanInv /\ [Next]_vars => ScanInv'
<1> SUFFICES ASSUME LexInv, WholeInv, ScanInv, [Next]_vars PROVE ScanInv'
  OBVIOUS
<1>1. UNCHANGED <<alone, main, files>>
  BY DEF Next, vars, Lex, Panic, Begin, Pass, Overrun, Fail, Open, TakeOut, Insert, Abort, Included, Finish
<1>2. AloneKnown'
  BY <1>1 DEF ScanInv, AloneKnown
<1> SUFFICES ASSUME Sound' PROVE CutSoFar' /\ ScanShape'
  BY <1>2 DEF ScanInv
<1>3. Sound /\ NoneErased'
  BY SoundBefore DEF Sound
<1>4. CutSoFar /\ IsText(tokens.items) /\ index \in Nat \ {0}
      /\ (stage = "lex" => text = main /\ index = 1) /\ AtInclude /\ AtInsert
  BY <1>3 DEF ScanInv, ScanShape
<1>5. CASE Lex
  <2>1. /\ InLexer /\ UNCHANGED <<text, stage, files, tokens, index>>
    BY <1>5 DEF Lex, LexPiece, Taken
  <2>2. CutSoFar'
    BY <1>3, <1>5, PieceCut
  <2>3. AtInclude' /\ AtInsert'
    BY <1>4, <2>1 DEF AtInclude, AtInsert, InLexer, IsInclude, Opens, Named, Token
  <2> QED BY <1>1, <1>4, <2>1, <2>2, <2>3 DEF ScanShape
<1>6. CASE Begin
  BY <1>3, <1>6, BeginShape
<1>7. CASE Open
  BY <1>3, <1>7, OpenShape
<1>8. CASE TakeOut
  BY <1>3, <1>8, TakeOutShape
<1>9. CASE Insert
  BY <1>3, <1>9, InsertShape
<1>10. CASE Pass \/ Included
  <2>1. stage' = "scan" /\ index' \in {index + 1, index + 2} /\ UNCHANGED tokens
    BY <1>10 DEF Pass, Included, Resume
  <2>2. index' \in Nat \ {0}
    BY <1>4, <2>1
  <2> QED BY <1>4, <2>1, <2>2 DEF CutSoFar, InLexer, ScanShape, AtInclude, AtInsert
<1>11. CASE Panic \/ Overrun \/ Fail \/ Abort \/ Finish
  <2>1. /\ stage' \in {"panicked", "crashed", "failed", "aborted", "done"}
        /\ UNCHANGED <<tokens, index>>
    BY <1>11 DEF Panic, Overrun, Fail, Abort, Finish
  <2> QED BY <1>4, <2>1 DEF CutSoFar, InLexer, ScanShape, AtInclude, AtInsert
<1>12. CASE UNCHANGED vars
  <2>1. UNCHANGED <<text, ptr, newtoks, stage, files, main, tokens, index, inserted, alone>>
    BY <1>12 DEF vars, lexing
  <2>2. CutSoFar'
    BY <1>4, <2>1 DEF CutSoFar, InLexer
  <2>3. AtInclude' /\ AtInsert'
    BY <1>4, <2>1 DEF AtInclude, AtInsert, IsInclude, Opens, Named, Token, Place
  <2> QED BY <1>4, <2>1, <2>2, <2>3 DEF ScanShape
<1> QED BY <1>5, <1>6, <1>7, <1>8, <1>9, <1>10, <1>11, <1>12 DEF Next

-----------------------------------------------------------------------------
(* Why it stops.  An include that stands before its path is followed by    *)
(* it; strictly, by the path of a file that there is.                      *)
Follows(t, strict) ==
  t.type = "CONSTANT_STRING" /\ (strict => NameIn(t.value) \in DOMAIN files)
ClosedOn(toks, a, b, strict) ==
  \A i \in a .. b : toks[i].type = "INCLUDE" => i < b /\ Follows(toks[i + 1], strict)
Closed(toks, strict) == ClosedOn(toks, 1, Len(toks), strict)
AllClosed(strict) ==
  Closed(alone.main, strict) /\ \A f \in DOMAIN files : Closed(alone.files[f], strict)

(* The list as the scan has it, and around the tokens that come in: where  *)
(* no token is behind them, or an include and its path are last, the main  *)
(* file ended so too.                                                      *)
Goal == EndsWithInclude(alone.main)
Fits(toks, strict) == Closed(toks, strict) /\ (EndsWithInclude(toks) => Goal)
FitsAround(toks, place, strict) ==
  /\ ClosedOn(toks, 1, index - 1, strict) /\ ClosedOn(toks, place + 1, Len(toks), strict)
  /\ place = Len(toks) => Goal
  /\ place + 2 <= Len(toks) /\ IncludesAt(toks, Len(toks) - 1) => Goal
ListFits(strict) ==
  Sound /\ AllClosed(strict) =>
    /\ stage \in {"scan", "include"} => Fits(tokens.items, strict)
    /\ stage = "insert" => FitsAround(tokens.items, Place, strict)
    /\ stage = "aborted" => Goal
    /\ strict => stage # "failed"

(* Files and their tokens stay what they are, so these do.                 *)
LEMMA FitsStays ==
  ASSUME NEW strict, UNCHANGED <<files, alone>>
  PROVE  /\ AllClosed(strict)' <=> AllClosed(strict)
         /\ Fits(tokens.items, strict)' <=> Fits(tokens'.items, strict)
         /\ UNCHANGED index =>
              (FitsAround(tokens.items, Place, strict)' <=> FitsAround(tokens'.items, Place', strict))
         /\ Goal' <=> Goal
<1>1. AllClosed(strict)' <=> AllClosed(strict)
  BY DEF AllClosed, Closed, ClosedOn, Follows
<1>2. Goal' <=> Goal
  BY DEF Goal, EndsWithInclude, IncludesAt
<1>3. Fits(tokens.items, strict)' <=> Fits(tokens'.items, strict)
  <2>1. Closed(tokens.items, strict)' <=> Closed(tokens'.items, strict)
    BY DEF Closed, ClosedOn, Follows
  <2>2. EndsWithInclude(tokens.items)' <=> EndsWithInclude(tokens'.items)
    BY DEF EndsWithInclude, IncludesAt
  <2> QED BY <1>2, <2>1, <2>2 DEF Fits
<1>4. ASSUME UNCHANGED index
      PROVE  FitsAround(tokens.items, Place, strict)' <=> FitsAround(tokens'.items, Place', strict)
  <2>1. /\ ClosedOn(tokens.items, 1, index - 1, strict)' <=> ClosedOn(tokens'.items, 1, index - 1, strict)
        /\ ClosedOn(tokens.items, Place + 1, Len(tokens.items), strict)'
             <=> ClosedOn(tokens'.items, Place' + 1, Len(tokens'.items), strict)
    BY <1>4 DEF ClosedOn, Follows
  <2>2. IncludesAt(tokens.items, Len(tokens.items) - 1)'
          <=> IncludesAt(tokens'.items, Len(tokens'.items) - 1)
    BY DEF IncludesAt
  <2> QED BY <1>2, <2>1, <2>2 DEF FitsAround
<1> QED BY <1>1, <1>2, <1>3, <1>4

(* What stands around an include that is taken out fits.                   *)
LEMMA TakeOutFits ==
  ASSUME NEW strict, LexInv, ScanInv, Sound, NoneErased', TakeOut, Fits(tokens.items, strict)
  PROVE  FitsAround(tokens'.items, Place', strict)
<1> DEFINE s == tokens.items
           q == tokens'.items
           n == Len(s)
<1>1. /\ n \in Nat /\ index \in 1 .. n - 1 /\ Len(q) = n - 2
      /\ \A k \in 1 .. n - 2 : q[k] = IF k < index THEN s[k] ELSE s[k + 2]
  BY TakeOutFacts
<1>2. /\ IncludesAt(s, index)
      /\ Place' = index - 1
  <2>1. stage = "include" /\ inserted' = 0 /\ UNCHANGED index
    BY DEF TakeOut
  <2>2. index < n /\ IsInclude(index) /\ Opens(index)
    BY <2>1 DEF ScanInv, ScanShape, AtInclude
  <2>3. IncludesAt(s, index)
    BY <2>2 DEF IncludesAt, IsInclude, Opens, Named, Token
  <2>4. Place' = index - 1
    BY <1>1, <2>1 DEF Place
  <2> QED BY <2>3, <2>4
<1>3. /\ \A i \in 1 .. n : s[i].type = "INCLUDE" => i < n /\ Follows(s[i + 1], strict)
      /\ n >= 2 /\ IncludesAt(s, n - 1) => Goal
  BY DEF Fits, Closed, ClosedOn, EndsWithInclude
<1>4. s[index].type = "INCLUDE"
  BY <1>2 DEF IncludesAt
<1> DEFINE place == Place'
<1>5. place = index - 1
  BY <1>2
<1> HIDE DEF s, q, n, place
<1>6. ASSUME NEW i \in 1 .. index - 1, q[i].type = "INCLUDE"
      PROVE  i < index - 1 /\ Follows(q[i + 1], strict)
  <2>1. i \in 1 .. n /\ i \in 1 .. n - 2 /\ i < index
    BY <1>1
  <2>2. s[i].type = "INCLUDE"
    BY <1>1, <1>6, <2>1
  <2>3. Follows(s[i + 1], strict)
    BY <1>3, <2>1, <2>2
  <2>4. i + 1 # index
    <3>1. "INCLUDE" # "CONSTANT_STRING"
      OBVIOUS
    <3> QED BY <1>4, <2>3, <3>1 DEF Follows
  <2>5. i + 1 \in 1 .. n - 2 /\ i + 1 < index /\ i < index - 1
    BY <1>1, <2>1, <2>4
  <2>6. q[i + 1] = s[i + 1]
    BY <1>1, <2>5
  <2> QED BY <2>3, <2>5, <2>6
<1>7. ASSUME NEW i \in index .. n - 2, q[i].type = "INCLUDE"
      PROVE  i < n - 2 /\ Follows(q[i + 1], strict)
  <2>1. i \in 1 .. n - 2 /\ ~(i < index) /\ i + 2 \in 1 .. n /\ (i + 1) + 2 = i + 3 /\ (i + 2) + 1 = i + 3
    BY <1>1
  <2>2. s[i + 2].type = "INCLUDE"
    BY <1>1, <1>7, <2>1
  <2>3. i + 2 < n /\ Follows(s[i + 3], strict)
    BY <1>3, <2>1, <2>2
  <2>4. i + 1 \in 1 .. n - 2 /\ ~(i + 1 < index) /\ i < n - 2
    BY <1>1, <2>1, <2>3
  <2>5. q[i + 1] = s[i + 3]
    BY <1>1, <2>1, <2>4
  <2> QED BY <2>3, <2>4, <2>5
<1>8. place = n - 2 => Goal
  <2>1. place = n - 2 => index = n - 1 /\ n >= 2
    BY <1>1, <1>5
  <2> QED BY <1>2, <1>3, <2>1
<1>9. ASSUME place + 2 <= n - 2, IncludesAt(q, n - 2 - 1) PROVE Goal
  <2>1. n - 2 - 1 \in 1 .. n - 2 /\ n - 2 \in 1 .. n - 2 /\ ~(n - 2 - 1 < index) /\ ~(n - 2 < index)
        /\ n - 2 - 1 + 2 = n - 1 /\ n - 2 + 2 = n /\ n - 2 - 1 + 1 = n - 2 /\ n - 1 + 1 = n
        /\ n - 1 < n /\ n >= 2
    BY <1>1, <1>5, <1>9
  <2>2. q[n - 2 - 1] = s[n - 1] /\ q[n - 2] = s[n]
    BY <1>1, <2>1
  <2>3. IncludesAt(s, n - 1)
    BY <1>9, <2>1, <2>2 DEF IncludesAt, n
  <2> QED BY <1>3, <2>1, <2>3
<1>10. ClosedOn(q, 1, index - 1, strict)
  BY <1>6 DEF ClosedOn
<1>11. place + 1 = index
  BY <1>1, <1>5
<1>12. ClosedOn(q, place + 1, Len(q), strict)
  BY <1>1, <1>7, <1>11 DEF ClosedOn
<1> QED BY <1>1, <1>8, <1>9, <1>10, <1>12 DEF FitsAround, q, place

(* What comes in changes nothing around it.                                *)
LEMMA InsertFits ==
  ASSUME NEW strict, ScanInv, Sound, NoneErased', Insert,
         FitsAround(tokens.items, Place, strict)
  PROVE  FitsAround(tokens'.items, Place', strict)
<1> DEFINE s == tokens.items
           q == tokens'.items
           n == Len(s)
           p == Place
           c == Place'
<1>1. /\ n \in Nat /\ p \in 0 .. n - 1 /\ index \in Nat \ {0} /\ inserted \in Nat
      /\ Len(q) = n + 1
      /\ \A k \in 1 .. p : q[k] = s[k]
      /\ \A k \in p + 1 .. n : q[k + 1] = s[k]
  BY InsertFacts
<1>2. c = p + 1 /\ index - 1 <= p
  <2>1. inserted' = inserted + 1 /\ UNCHANGED index
    BY DEF Insert
  <2> QED BY <1>1, <2>1 DEF Place
<1>3. /\ \A i \in 1 .. index - 1 : s[i].type = "INCLUDE" => i < index - 1 /\ Follows(s[i + 1], strict)
      /\ \A i \in p + 1 .. n : s[i].type = "INCLUDE" => i < n /\ Follows(s[i + 1], strict)
      /\ p + 2 <= n /\ IncludesAt(s, n - 1) => Goal
  BY DEF FitsAround, ClosedOn
<1> HIDE DEF s, q, n, p, c
<1>4. ASSUME NEW i \in 1 .. index - 1, q[i].type = "INCLUDE"
      PROVE  i < index - 1 /\ Follows(q[i + 1], strict)
  <2>1. i \in 1 .. p
    BY <1>1, <1>2
  <2>2. s[i].type = "INCLUDE"
    BY <1>1, <1>4, <2>1
  <2>3. i < index - 1 /\ Follows(s[i + 1], strict)
    BY <1>3, <2>2
  <2>4. i + 1 \in 1 .. p
    BY <1>1, <1>2, <2>3
  <2> QED BY <1>1, <2>3, <2>4
<1>5. ASSUME NEW i \in p + 2 .. n + 1, q[i].type = "INCLUDE"
      PROVE  i < n + 1 /\ Follows(q[i + 1], strict)
  <2>1. PICK j \in p + 1 .. n : i = j + 1
    <3>1. i - 1 \in p + 1 .. n /\ i = (i - 1) + 1
      BY <1>1
    <3> QED BY <3>1
  <2>2. s[j].type = "INCLUDE"
    BY <1>1, <1>5, <2>1
  <2>3. j < n /\ Follows(s[j + 1], strict)
    BY <1>3, <2>2
  <2>4. j + 1 \in p + 1 .. n /\ i < n + 1
    BY <1>1, <2>1, <2>3
  <2>5. q[i + 1] = s[j + 1]
    BY <1>1, <2>1, <2>4
  <2> QED BY <2>3, <2>4, <2>5
<1>6. c = n + 1 => Goal
  BY <1>1, <1>2
<1>7. ASSUME c + 2 <= n + 1, IncludesAt(q, n + 1 - 1) PROVE Goal
  <2>1. /\ n + 1 - 1 = (n - 1) + 1 /\ n - 1 \in p + 1 .. n /\ n \in p + 1 .. n
        /\ p + 2 <= n /\ n - 1 < n
    BY <1>1, <1>2, <1>7
  <2>2. q[n + 1 - 1] = s[n - 1] /\ q[n + 1 - 1 + 1] = s[n - 1 + 1]
    <3>1. n + 1 - 1 + 1 = n + 1 /\ n - 1 + 1 = n
      BY <1>1
    <3> QED BY <1>1, <2>1, <3>1
  <2>3. IncludesAt(s, n - 1)
    BY <1>7, <2>1, <2>2 DEF IncludesAt, n
  <2> QED BY <1>3, <2>1, <2>3
<1>8. ClosedOn(q, 1, index - 1, strict)
  BY <1>4 DEF ClosedOn
<1>9. c + 1 = p + 2
  BY <1>1, <1>2
<1>10. ClosedOn(q, c + 1, Len(q), strict)
  BY <1>1, <1>5, <1>9 DEF ClosedOn
<1> QED BY <1>1, <1>6, <1>7, <1>8, <1>10 DEF FitsAround, q, c

(* When all are in, the list fits as a whole.                              *)
LEMMA IncludedFits ==
  ASSUME NEW strict, LexInv, ScanInv, Sound, Included, AllClosed(strict),
         FitsAround(tokens.items, Place, strict)
  PROVE  Fits(tokens.items, strict)
<1> DEFINE s == tokens.items
           n == Len(s)
           p == Place
           t == newtoks.items
           m == Len(t)
<1>1. /\ stage = "insert" /\ ~(inserted < m)
  BY DEF Included, More
<1>2. /\ IsText(s) /\ n \in Nat /\ index \in Nat \ {0}
      /\ \E f \in DOMAIN files : t = alone.files[f]
      /\ inserted \in 0 .. m /\ p \in 0 .. n
      /\ \A k \in 1 .. inserted : s[index - 1 + k] = t[k]
  BY <1>1 DEF ScanInv, ScanShape, AtInsert, IsText, Token
<1>3. /\ m \in Nat
      /\ \A k \in 1 .. m : t[k].type = "INCLUDE" => k < m /\ Follows(t[k + 1], strict)
  <2>1. PICK f \in DOMAIN files : t = alone.files[f]
    BY <1>2
  <2>2. IsText(alone.files[f])
    BY AloneFacts DEF LexInv, ScanInv
  <2>3. Closed(alone.files[f], strict)
    BY DEF AllClosed
  <2> QED BY <2>1, <2>2, <2>3 DEF Closed, ClosedOn, IsText
<1>4. inserted = m /\ p = index - 1 + m
  <2>1. inserted = m
    BY <1>1, <1>2, <1>3
  <2>2. p = index - 1 + inserted
    BY DEF Place
  <2> QED BY <2>1, <2>2
<1>5. /\ \A i \in 1 .. index - 1 : s[i].type = "INCLUDE" => i < index - 1 /\ Follows(s[i + 1], strict)
      /\ \A i \in p + 1 .. n : s[i].type = "INCLUDE" => i < n /\ Follows(s[i + 1], strict)
      /\ p = n => Goal
      /\ p + 2 <= n /\ IncludesAt(s, n - 1) => Goal
  BY DEF FitsAround, ClosedOn
<1> HIDE DEF s, n, p, t, m
<1>6. ASSUME NEW i \in index .. p
      PROVE  /\ i - index + 1 \in 1 .. m /\ s[i] = t[i - index + 1]
             /\ s[i].type = "INCLUDE" => i < p /\ Follows(s[i + 1], strict)
  <2>1. PICK k \in 1 .. m : k = i - index + 1 /\ index - 1 + k = i
    <3>1. i - index + 1 \in 1 .. m /\ index - 1 + (i - index + 1) = i
      BY <1>2, <1>3, <1>4
    <3> QED BY <3>1
  <2>2. s[i] = t[k]
    BY <1>2, <1>4, <2>1
  <2>3. ASSUME s[i].type = "INCLUDE" PROVE i < p /\ Follows(s[i + 1], strict)
    <3>1. k < m /\ Follows(t[k + 1], strict)
      BY <1>3, <2>2, <2>3
    <3>2. k + 1 \in 1 .. inserted /\ index - 1 + (k + 1) = i + 1 /\ i < p
      BY <1>2, <1>3, <1>4, <2>1, <3>1
    <3>3. s[i + 1] = t[k + 1]
      BY <1>2, <3>2
    <3> QED BY <3>1, <3>2, <3>3
  <2> QED BY <2>1, <2>2, <2>3
<1>7. ASSUME NEW i \in 1 .. n, s[i].type = "INCLUDE"
      PROVE  i < n /\ Follows(s[i + 1], strict)
  <2>1. i \in 1 .. index - 1 \/ i \in index .. p \/ i \in p + 1 .. n
    BY <1>2, <1>3, <1>4
  <2>2. ASSUME i \in 1 .. index - 1 PROVE i < n /\ Follows(s[i + 1], strict)
    <3>1. i < index - 1 /\ Follows(s[i + 1], strict)
      BY <1>5, <1>7, <2>2
    <3> QED BY <1>2, <1>3, <1>4, <3>1
  <2>3. ASSUME i \in index .. p PROVE i < n /\ Follows(s[i + 1], strict)
    <3>1. i < p /\ Follows(s[i + 1], strict)
      BY <1>6, <1>7, <2>3
    <3> QED BY <1>2, <3>1
  <2>4. ASSUME i \in p + 1 .. n PROVE i < n /\ Follows(s[i + 1], strict)
    BY <1>5, <1>7, <2>4
  <2> QED BY <2>1, <2>2, <2>3, <2>4
<1>8. ASSUME n >= 2, IncludesAt(s, n - 1) PROVE Goal
  <2>1. s[n - 1].type = "INCLUDE"
    BY <1>8 DEF IncludesAt
  <2>2. p # n - 1
    <3> SUFFICES ASSUME p = n - 1 PROVE FALSE
      OBVIOUS
    <3>1. n - 1 \in 1 .. index - 1 \/ n - 1 \in index .. p
      BY <1>2, <1>3, <1>4, <1>8
    <3>2. ASSUME n - 1 \in 1 .. index - 1 PROVE FALSE
      <4>1. n - 1 < index - 1
        BY <1>5, <2>1, <3>2
      <4> QED BY <1>2, <1>3, <1>4, <4>1
    <3>3. ASSUME n - 1 \in index .. p PROVE FALSE
      <4>1. n - 1 < p
        BY <1>6, <2>1, <3>3
      <4> QED BY <1>2, <4>1
    <3> QED BY <3>1, <3>2, <3>3
  <2>3. p = n \/ p + 2 <= n
    BY <1>2, <2>2
  <2> QED BY <1>5, <1>8, <2>3
<1>9. Closed(s, strict)
  BY <1>7 DEF Closed, ClosedOn, n
<1> QED BY <1>8, <1>9 DEF Fits, EndsWithInclude, s, n

(* An include that fits strictly is one that can be opened.                *)
LEMMA NoFailure ==
  ASSUME Closed(tokens.items, TRUE), index \in Nat \ {0}
  PROVE  ~Fail
<1> SUFFICES ASSUME Fail PROVE FALSE
  OBVIOUS
<1>1. index <= Len(tokens.items) /\ IsInclude(index) /\ ~Opens(index) /\ ~Overruns(index)
  BY DEF Fail
<1>2. index \in 1 .. Len(tokens.items)
  BY <1>1
<1>3. index < Len(tokens.items) /\ Follows(tokens.items[index + 1], TRUE)
  BY <1>1, <1>2 DEF Closed, ClosedOn, IsInclude, Token
<1> QED BY <1>1, <1>3 DEF Follows, Opens, Named, Token

LEMMA ListFitsInit ==
  ASSUME NEW strict
  PROVE  Init => ListFits(strict)
BY DEF Init, ListFits

LEMMA ListFitsNext ==
  ASSUME NEW strict \in BOOLEAN
  PROVE  LexInv /\ WholeInv /\ ScanInv /\ ListFits(strict) /\ [Next]_vars => ListFits(strict)'
<1> SUFFICES ASSUME LexInv, WholeInv, ScanInv, ListFits(strict), [Next]_vars, Sound',
                    AllClosed(strict)'
             PROVE  /\ stage' \in {"scan", "include"} => Fits(tokens.items, strict)'
                    /\ stage' = "insert" => FitsAround(tokens.items, Place, strict)'
                    /\ stage' = "aborted" => Goal'
                    /\ strict => stage' # "failed"
  BY DEF ListFits
<1>1. UNCHANGED <<alone, files>>
  BY DEF Next, vars, Lex, Panic, Begin, Pass, Overrun, Fail, Open, TakeOut, Insert, Abort, Included, Finish
<1>2. Sound /\ NoneErased'
  BY SoundBefore DEF Sound
<1>3. /\ AllClosed(strict)
      /\ Fits(tokens.items, strict)' <=> Fits(tokens'.items, strict)
      /\ UNCHANGED index =>
           (FitsAround(tokens.items, Place, strict)' <=> FitsAround(tokens'.items, Place', strict))
      /\ Goal' <=> Goal
  BY <1>1, FitsStays
<1>4. /\ stage \in {"scan", "include"} => Fits(tokens.items, strict)
      /\ stage = "insert" => FitsAround(tokens.items, Place, strict)
      /\ stage = "aborted" => Goal
      /\ strict => stage # "failed"
  BY <1>2, <1>3 DEF ListFits
<1>5. index \in Nat \ {0} /\ AtInsert /\ IsText(tokens.items)
  BY <1>2 DEF ScanInv, ScanShape
<1>6. CASE Lex
  <2>1. stage \in {"lex", "include"} /\ UNCHANGED <<stage, tokens>>
    BY <1>6 DEF Lex, InLexer
  <2> QED BY <1>3, <1>4, <2>1
<1>7. CASE Begin
  <2>1. stage' = "scan" /\ tokens'.items = alone.main
    BY <1>2, <1>7, BeginShape DEF Begin
  <2>2. Fits(alone.main, strict)
    BY <1>3 DEF Fits, AllClosed, Goal
  <2> QED BY <1>3, <2>1, <2>2
<1>8. CASE Pass \/ Open
  <2>1. stage = "scan" /\ stage' \in {"scan", "include"} /\ UNCHANGED tokens
    BY <1>8 DEF Pass, Open
  <2> QED BY <1>3, <1>4, <2>1
<1>9. CASE Fail
  <2>1. stage = "scan" /\ stage' = "failed"
    BY <1>9 DEF Fail
  <2>2. ~strict
    <3> SUFFICES ASSUME strict PROVE FALSE
      OBVIOUS
    <3>1. strict = TRUE
      OBVIOUS
    <3>2. Closed(tokens.items, TRUE)
      BY <1>4, <2>1, <3>1 DEF Fits
    <3> QED BY <1>5, <1>9, <3>2, NoFailure
  <2> QED BY <2>1, <2>2
<1>10. CASE TakeOut
  <2>1. stage = "include" /\ stage' = "insert" /\ UNCHANGED index
    BY <1>10 DEF TakeOut
  <2>2. FitsAround(tokens'.items, Place', strict)
    BY <1>2, <1>4, <1>10, <2>1, TakeOutFits
  <2> QED BY <1>3, <2>1, <2>2
<1>11. CASE Insert
  <2>1. stage = "insert" /\ stage' = "insert" /\ UNCHANGED index
    BY <1>11 DEF Insert, More
  <2>2. FitsAround(tokens'.items, Place', strict)
    BY <1>2, <1>4, <1>11, <2>1, InsertFits
  <2> QED BY <1>3, <2>1, <2>2
<1>12. CASE Abort
  <2>1. stage = "insert" /\ stage' = "aborted" /\ ~(Place < Len(tokens.items))
    BY <1>12 DEF Abort, More, CanInsert, PlaceOf, Place
  <2>2. Place = Len(tokens.items)
    BY <1>5, <2>1 DEF AtInsert, IsText
  <2>3. Goal
    BY <1>4, <2>1, <2>2 DEF FitsAround
  <2> QED BY <1>3, <2>1, <2>3
<1>13. CASE Included
  <2>1. stage = "insert" /\ stage' = "scan" /\ UNCHANGED tokens
    BY <1>13 DEF Included
  <2>2. Fits(tokens.items, strict)
    BY <1>2, <1>3, <1>4, <1>13, <2>1, IncludedFits
  <2> QED BY <1>3, <2>1, <2>2
<1>14. CASE Panic \/ Overrun \/ Finish
  <2>1. stage' \in {"panicked", "crashed", "done"}
    BY <1>14 DEF Panic, Overrun, Finish
  <2> QED BY <2>1
<1>15. CASE UNCHANGED vars
  <2>1. UNCHANGED <<stage, tokens, index, inserted>>
    BY <1>15 DEF vars
  <2>2. Place' = Place
    BY <2>1 DEF Place
  <2> QED BY <1>3, <1>4, <2>1, <2>2
<1> QED
  BY <1>6, <1>7, <1>8, <1>9, <1>10, <1>11, <1>12, <1>13, <1>14, <1>15 DEF Next

(* The compiler stops at an assertion of list_insert (utils.c) only where  *)
(* the main file ends with an include, and gives up (preprocess.c:16-36)   *)
(* only for an include that has no path or no file behind it in its own    *)
(* file, however deep the files include each other: for the list with and  *)
(* the one without realloc, until a resize has erased a token.             *)
THEOREM StopsForAReasonAlways == Spec => []StopsForAReason
<1> DEFINE Inv == LexInv /\ WholeInv /\ ScanInv /\ ListFits(TRUE) /\ ListFits(FALSE)
<1>1. Init => Inv
  BY LexInvInit, WholeInvInit, ScanInvInit, ListFitsInit
<1>2. Inv /\ [Next]_vars => Inv'
  <2>1. LexInv /\ WholeInv /\ ScanInv /\ [Next]_vars => LexInv' /\ WholeInv' /\ ScanInv'
    BY LexInvNext, WholeInvNext, ScanInvNext
  <2>2. LexInv /\ WholeInv /\ ScanInv /\ ListFits(TRUE) /\ [Next]_vars => ListFits(TRUE)'
    BY ListFitsNext
  <2>3. LexInv /\ WholeInv /\ ScanInv /\ ListFits(FALSE) /\ [Next]_vars => ListFits(FALSE)'
    BY ListFitsNext
  <2> QED BY <2>1, <2>2, <2>3
<1>3. Inv => StopsForAReason
  <2> SUFFICES ASSUME Inv PROVE StopsForAReason
    OBVIOUS
  <2>1. ASSUME stage = "aborted", Sound, EveryPathGiven PROVE EndsWithInclude(alone.main)
    <3>1. AllClosed(FALSE)
      BY <2>1 DEF EveryPathGiven, PathsGiven, AllClosed, Closed, ClosedOn, Follows
    <3> QED BY <2>1, <3>1 DEF ListFits, Goal
  <2>2. ASSUME stage = "failed", Sound
        PROVE  NoFile(alone.main) \/ \E n \in DOMAIN files : NoFile(alone.files[n])
    <3> SUFFICES ASSUME ~NoFile(alone.main), \A n \in DOMAIN files : ~NoFile(alone.files[n])
                 PROVE  FALSE
      OBVIOUS
    <3>1. ASSUME NEW toks, ~NoFile(toks) PROVE Closed(toks, TRUE)
      BY <3>1 DEF NoFile, IncludesAt, Closed, ClosedOn, Follows
    <3>2. AllClosed(TRUE)
      BY <3>1 DEF AllClosed
    <3> QED BY <2>2, <3>2 DEF ListFits
  <2> QED BY <2>1, <2>2 DEF StopsForAReason
<1> QED BY <1>1, <1>2, <1>3, PTL DEF Spec

(* And nothing is left: no include stands where the scan has been, if      *)
(* every file begins with two tokens that are none.                        *)
AllBeginPlainly == \A n \in DOMAIN files : BeginsPlainly(alone.files[n])
NoneBefore ==
  stage \in {"scan", "include", "insert"} =>
    \A i \in 1 .. Len(tokens.items) : i < index => ~IsInclude(i)
PlainInv == Sound /\ AllBeginPlainly => NoneBefore /\ AllIncluded

LEMMA PlainInvInit == Init => PlainInv
BY DEF Init, PlainInv, NoneBefore, AllIncluded, ListCreate

LEMMA PlainInvNext == LexInv /\ WholeInv /\ ScanInv /\ PlainInv /\ [Next]_vars => PlainInv'
<1> SUFFICES ASSUME LexInv, WholeInv, ScanInv, PlainInv, [Next]_vars, Sound', AllBeginPlainly'
             PROVE  NoneBefore' /\ AllIncluded'
  BY DEF PlainInv
<1>1. UNCHANGED <<alone, files>>
  BY DEF Next, vars, Lex, Panic, Begin, Pass, Overrun, Fail, Open, TakeOut, Insert, Abort, Included, Finish
<1>2. Sound /\ NoneErased'
  BY SoundBefore DEF Sound
<1>3. AllBeginPlainly
  BY <1>1 DEF AllBeginPlainly
<1>4. NoneBefore /\ AllIncluded
  BY <1>2, <1>3 DEF PlainInv
<1>5. index \in Nat \ {0} /\ AtInsert /\ IsText(tokens.items)
  BY <1>2 DEF ScanInv, ScanShape
<1> DEFINE s == tokens.items
           n == Len(s)
<1>6. n \in Nat
  BY <1>5 DEF IsText
<1>7. CASE Lex \/ Open \/ Panic \/ Overrun \/ Fail \/ Abort
  <2>1. /\ UNCHANGED <<tokens, index>> /\ stage' # "done"
        /\ stage' \in {"scan", "include", "insert"} => stage \in {"scan", "include", "insert"}
    BY <1>7 DEF Lex, InLexer, Open, Panic, Overrun, Fail, Abort
  <2>2. NoneBefore'
    BY <1>4, <2>1 DEF NoneBefore, IsInclude, Token
  <2> QED BY <2>1, <2>2 DEF AllIncluded
<1>8. CASE Begin
  <2>1. stage = "lex" /\ stage' = "scan" /\ index' = index
    BY <1>8 DEF Begin
  <2>2. index' = 1
    BY <1>2, <2>1 DEF ScanInv, ScanShape
  <2>3. \A i \in 1 .. Len(tokens'.items) : ~(i < index')
    BY <2>2
  <2>4. NoneBefore'
    BY <2>3 DEF NoneBefore
  <2> QED BY <2>1, <2>4 DEF AllIncluded
<1>9. CASE Pass
  <2>1. stage = "scan" /\ stage' = "scan" /\ ~IsInclude(index) /\ index' = index + 1 /\ UNCHANGED tokens
    BY <1>9 DEF Pass
  <2>2. ASSUME NEW i \in 1 .. Len(tokens.items), i < index + 1 PROVE ~IsInclude(i)
    <3>1. i = index \/ i < index
      BY <1>5, <2>2
    <3> QED BY <1>4, <2>1, <3>1 DEF NoneBefore
  <2>3. NoneBefore'
    BY <2>1, <2>2 DEF NoneBefore, IsInclude, Token
  <2> QED BY <2>1, <2>3 DEF AllIncluded
<1>10. CASE TakeOut
  <2>1. stage = "include" /\ stage' = "insert" /\ UNCHANGED index
    BY <1>10 DEF TakeOut
  <2>2. /\ Len(tokens'.items) = n - 2
        /\ \A k \in 1 .. n - 2 : k < index => tokens'.items[k] = s[k]
    BY <1>2, <1>10, TakeOutFacts
  <2>3. \A k \in 1 .. n : k < index => s[k].type # "INCLUDE"
    BY <1>4, <2>1 DEF NoneBefore, IsInclude, Token
  <2> HIDE DEF n, s
  <2>4. \A k \in 1 .. n - 2 : k \in 1 .. n
    BY <1>6
  <2>5. NoneBefore'
    BY <2>1, <2>2, <2>3, <2>4 DEF NoneBefore, IsInclude, Token
  <2> QED BY <2>1, <2>5 DEF AllIncluded
<1>11. CASE Insert
  <2>1. stage = "insert" /\ stage' = "insert" /\ UNCHANGED index
    BY <1>11 DEF Insert, More
  <2>2. /\ Len(tokens'.items) = n + 1 /\ Place \in 0 .. n - 1 /\ inserted \in Nat
        /\ \A k \in 1 .. Place : tokens'.items[k] = s[k]
    BY <1>2, <1>11, InsertFacts
  <2>3. \A k \in 1 .. n : k < index => s[k].type # "INCLUDE"
    BY <1>4, <2>1 DEF NoneBefore, IsInclude, Token
  <2> HIDE DEF n, s
  <2>4. \A k \in 1 .. n + 1 : k < index => k \in 1 .. n /\ k \in 1 .. Place
    BY <1>5, <1>6, <2>2 DEF Place
  <2>5. NoneBefore'
    BY <2>1, <2>2, <2>3, <2>4 DEF NoneBefore, IsInclude, Token
  <2> QED BY <2>1, <2>5 DEF AllIncluded
<1>12. CASE Included
  <2>1. stage = "insert" /\ stage' = "scan" /\ index' = index + 2 /\ UNCHANGED tokens
        /\ ~(inserted < Len(newtoks.items))
    BY <1>12 DEF Included, More, Resume
  <2>2. PICK f \in DOMAIN files : newtoks.items = alone.files[f]
    BY <1>5, <2>1 DEF AtInsert
  <2>3. /\ Len(newtoks.items) >= 2 /\ newtoks.items[1].type # "INCLUDE" /\ newtoks.items[2].type # "INCLUDE"
        /\ Len(newtoks.items) \in Nat
    <3>1. BeginsPlainly(newtoks.items)
      BY <1>3, <2>2 DEF AllBeginPlainly
    <3>2. IsText(newtoks.items)
      BY <2>2, AloneFacts DEF LexInv, ScanInv
    <3> QED BY <3>1, <3>2 DEF BeginsPlainly, IsText
  <2>4. inserted \in Nat /\ 1 \in 1 .. inserted /\ 2 \in 1 .. inserted
        /\ \A k \in 1 .. inserted : Token(index - 1 + k) = newtoks.items[k]
    BY <1>5, <2>1, <2>3 DEF AtInsert
  <2>5. ~IsInclude(index) /\ ~IsInclude(index + 1)
    <3>1. index - 1 + 1 = index /\ index - 1 + 2 = index + 1
      BY <1>5
    <3> QED BY <2>3, <2>4, <3>1 DEF IsInclude
  <2>6. ASSUME NEW i \in 1 .. Len(tokens.items), i < index + 2 PROVE ~IsInclude(i)
    <3>1. i = index \/ i = index + 1 \/ i < index
      BY <1>5, <2>6
    <3> QED BY <1>4, <2>1, <2>5, <3>1 DEF NoneBefore
  <2>7. NoneBefore'
    BY <2>1, <2>6 DEF NoneBefore, IsInclude, Token
  <2> QED BY <2>1, <2>7 DEF AllIncluded
<1>13. CASE Finish
  <2>1. stage = "scan" /\ stage' = "done" /\ index > Len(tokens.items) /\ UNCHANGED tokens
    BY <1>13 DEF Finish
  <2>2. \A i \in 1 .. Len(tokens.items) : ~IsInclude(i)
    <3>1. \A i \in 1 .. Len(tokens.items) : i < index
      BY <1>5, <1>6, <2>1
    <3> QED BY <1>4, <2>1, <3>1 DEF NoneBefore
  <2> QED BY <2>1, <2>2 DEF NoneBefore, AllIncluded, IsInclude, Token
<1>14. CASE UNCHANGED vars
  <2>1. UNCHANGED <<stage, tokens, index>>
    BY <1>14 DEF vars
  <2>2. NoneBefore'
    BY <1>4, <2>1 DEF NoneBefore, IsInclude, Token
  <2>3. stage' = "done" => \A i \in 1 .. Len(tokens.items) : ~IsInclude(i)
    BY <1>2, <1>3, <1>4, <2>1 DEF AllIncluded, AllBeginPlainly
  <2> QED BY <2>1, <2>2, <2>3 DEF AllIncluded, IsInclude, Token
<1> QED
  BY <1>7, <1>8, <1>9, <1>10, <1>11, <1>12, <1>13, <1>14 DEF Next

(* When the scan is through, no include is left in the list, if no file    *)
(* begins with one: "i++" (preprocess.c:58) jumps over the first two       *)
(* tokens that came in.  Again for both lists, until a token is erased.    *)
THEOREM AllIncludedAlways == Spec => []AllIncluded
<1> DEFINE Inv == LexInv /\ WholeInv /\ ScanInv /\ PlainInv
<1>1. Init => Inv
  BY LexInvInit, WholeInvInit, ScanInvInit, PlainInvInit
<1>2. Inv /\ [Next]_vars => Inv'
  BY LexInvNext, WholeInvNext, ScanInvNext, PlainInvNext
<1>3. Inv => AllIncluded
  BY DEF PlainInv, AllBeginPlainly, AllIncluded
<1> QED BY <1>1, <1>2, <1>3, PTL DEF Spec

-----------------------------------------------------------------------------
(* Part three: the list stands for the same program throughout.  First two *)
(* inductions, up the naturals and down an interval.                       *)
LEMMA UpTo ==
  ASSUME NEW T, 0 \in T, \A n \in Nat : n \in T => n + 1 \in T
  PROVE  \A n \in Nat : n \in T
<1> DEFINE B == {n \in Nat : n \notin T}
<1> SUFFICES ASSUME B # {} PROVE FALSE
  OBVIOUS
<1>1. B \subseteq Nat
  OBVIOUS
<1> HIDE DEF B
<1>2. PICK m \in B : \A k \in B : m <= k
  BY <1>1, LeastNat
<1> USE DEF B
<1>3. m # 0 /\ m \in Nat /\ m \notin T
  BY <1>2
<1>4. m - 1 \in Nat /\ m - 1 \notin B /\ (m - 1) + 1 = m
  BY <1>2, <1>3
<1> QED BY <1>3, <1>4

LEMMA DownTo ==
  ASSUME NEW lo \in Nat, NEW hi \in Nat, NEW T, hi \in T,
         \A k \in lo + 1 .. hi : k \in T => k - 1 \in T
  PROVE  \A k \in lo .. hi : k \in T
<1> DEFINE B == {j \in 0 .. hi - lo : hi - j \notin T}
<1> SUFFICES ASSUME NEW k \in lo .. hi, k \notin T PROVE FALSE
  OBVIOUS
<1>1. hi - k \in B
  <2>1. hi - k \in 0 .. hi - lo /\ hi - (hi - k) = k
    OBVIOUS
  <2> QED BY <2>1
<1>2. B \subseteq Nat
  OBVIOUS
<1> HIDE DEF B
<1>3. PICK m \in B : \A j \in B : m <= j
  BY <1>1, <1>2, LeastNat
<1> USE DEF B
<1>4. m \in 0 .. hi - lo /\ hi - m \notin T
  BY <1>3
<1>5. m # 0
  BY <1>4
<1>6. m - 1 \in 0 .. hi - lo /\ ~(m <= m - 1) /\ hi - (m - 1) \in lo + 1 .. hi
      /\ hi - (m - 1) - 1 = hi - m
  BY <1>4, <1>5
<1>7. hi - (m - 1) \in T
  BY <1>3, <1>6
<1> QED BY <1>4, <1>6, <1>7

LEMMA ConcatAssoc ==
  ASSUME NEW u, IsText(u)
  PROVE  \A s, t : IsText(s) /\ IsText(t) => (s \o t) \o u = s \o (t \o u)
<1> SUFFICES ASSUME NEW s, NEW t, IsText(s), IsText(t)
             PROVE  (s \o t) \o u = s \o (t \o u)
  OBVIOUS
<1> DEFINE S == {s[i] : i \in 1 .. Len(s)} \union {t[i] : i \in 1 .. Len(t)}
                \union {u[i] : i \in 1 .. Len(u)}
<1>1. s \in Seq({s[i] : i \in 1 .. Len(s)}) /\ t \in Seq({t[i] : i \in 1 .. Len(t)})
      /\ u \in Seq({u[i] : i \in 1 .. Len(u)})
  BY TextSeq
<1>2. s \in Seq(S) /\ t \in Seq(S) /\ u \in Seq(S)
  BY <1>1
<1> HIDE DEF S
<1> QED BY <1>2

-----------------------------------------------------------------------------
(* What the tokens from each place on stand for, as CutAt is for texts.    *)
Unrolls(at, toks, of, lo) ==
  at = [i \in lo .. Len(toks) + 1 |->
          IF i > Len(toks) THEN <<>>
          ELSE IF IncludesAt(toks, i) THEN of[NameIn(toks[i + 1].value)] \o at[i + 2]
          ELSE <<toks[i]>> \o at[i + 1]]
From(toks, of) == CHOOSE at : Unrolls(at, toks, of, 1)

LEMMA ExpandedIsFrom ==
  ASSUME NEW toks, NEW of
  PROVE  Expanded(toks, of) = From(toks, of)[1]
BY DEF Expanded, From, Unrolls

LEMMA UnrollExists ==
  ASSUME NEW toks, IsText(toks), NEW of
  PROVE  Unrolls(From(toks, of), toks, of, 1)
<1> DEFINE n == Len(toks)
           T == {lo \in 1 .. n + 1 : \E at : Unrolls(at, toks, of, lo)}
<1>1. n \in Nat
  BY DEF IsText
<1>2. n + 1 \in T
  <2> DEFINE at == [p \in n + 1 .. n + 1 |-> <<>>]
  <2>1. \A p \in n + 1 .. n + 1 : p > n
    BY <1>1
  <2>2. Unrolls(at, toks, of, n + 1)
    BY <2>1 DEF Unrolls
  <2> QED BY <1>1, <2>2
<1>3. ASSUME NEW m \in 2 .. n + 1, m \in T PROVE m - 1 \in T
  <2>1. PICK at : Unrolls(at, toks, of, m)
    BY <1>3
  <2> DEFINE Row(p, f) ==
               IF p > Len(toks) THEN <<>>
               ELSE IF IncludesAt(toks, p) THEN of[NameIn(toks[p + 1].value)] \o f[p + 2]
               ELSE <<toks[p]>> \o f[p + 1]
             g == [p \in m - 1 .. n + 1 |-> IF p \in m .. n + 1 THEN at[p] ELSE Row(p, at)]
  <2>2. \A p \in m .. n + 1 : at[p] = Row(p, at)
    BY <2>1 DEF Unrolls
  <2>3. ASSUME NEW p \in m - 1 .. n + 1 PROVE g[p] = Row(p, at)
    BY <2>2
  <2>4. ASSUME NEW p \in m - 1 .. n + 1 PROVE Row(p, g) = Row(p, at)
    <3>1. CASE p > Len(toks)
      BY <3>1
    <3>2. CASE ~(p > Len(toks))
      <4>1. p + 1 \in m .. n + 1 /\ p + 1 \in m - 1 .. n + 1
        BY <1>1, <3>2
      <4>2. g[p + 1] = at[p + 1]
        BY <4>1
      <4>3. IncludesAt(toks, p) => g[p + 2] = at[p + 2]
        <5>1. IncludesAt(toks, p) => p + 2 \in m .. n + 1 /\ p + 2 \in m - 1 .. n + 1
          BY <1>1 DEF IncludesAt
        <5> QED BY <5>1
      <4> HIDE DEF g
      <4> QED BY <4>2, <4>3
    <3> QED BY <3>1, <3>2
  <2>5. \A p \in m - 1 .. n + 1 : g[p] = Row(p, g)
    <3> HIDE DEF g, Row
    <3> QED BY <2>3, <2>4
  <2>6. g = [p \in m - 1 .. n + 1 |-> g[p]]
    OBVIOUS
  <2> HIDE DEF g
  <2>7. g = [p \in m - 1 .. n + 1 |-> Row(p, g)]
    <3> HIDE DEF Row
    <3> QED BY <2>5, <2>6, Zenon
  <2>8. Unrolls(g, toks, of, m - 1)
    BY <2>7, Zenon DEF Unrolls
  <2>9. m - 1 \in 1 .. n + 1
    BY <1>1, <1>3
  <2> QED BY <2>8, <2>9
<1> HIDE DEF T, n
<1>4. \A k \in 1 .. n + 1 : k \in T
  <2>1. 1 \in Nat /\ n + 1 \in Nat /\ \A k \in 1 + 1 .. n + 1 : k \in 2 .. n + 1
    BY <1>1
  <2>2. \A k \in 1 + 1 .. n + 1 : k \in T => k - 1 \in T
    BY <1>3, <2>1
  <2> QED BY <1>2, <2>1, <2>2, DownTo
<1>5. 1 \in T
  <2>1. 1 \in 1 .. n + 1
    BY <1>1
  <2> QED BY <1>4, <2>1
<1>6. \E at : Unrolls(at, toks, of, 1)
  BY <1>5 DEF T
<1> QED BY <1>6 DEF From

(* Each place by those behind it, and that it is a sequence if the files   *)
(* are.                                                                    *)
LEMMA FromFacts ==
  ASSUME NEW toks, IsText(toks), NEW of
  PROVE  /\ From(toks, of)[Len(toks) + 1] = <<>>
         /\ \A i \in 1 .. Len(toks) :
              From(toks, of)[i] =
                IF IncludesAt(toks, i)
                THEN of[NameIn(toks[i + 1].value)] \o From(toks, of)[i + 2]
                ELSE <<toks[i]>> \o From(toks, of)[i + 1]
<1> DEFINE n == Len(toks)
           at == From(toks, of)
<1>1. n \in Nat
  BY DEF IsText
<1>2. Unrolls(at, toks, of, 1)
  BY UnrollExists
<1> HIDE DEF at
<1>3. \A i \in 1 .. n + 1 :
        at[i] = IF i > Len(toks) THEN <<>>
                ELSE IF IncludesAt(toks, i) THEN of[NameIn(toks[i + 1].value)] \o at[i + 2]
                ELSE <<toks[i]>> \o at[i + 1]
  BY <1>2 DEF Unrolls
<1>4. n + 1 \in 1 .. n + 1 /\ n + 1 > n
  BY <1>1
<1>5. at[n + 1] = <<>>
  BY <1>3, <1>4
<1>6. \A i \in 1 .. n : i \in 1 .. n + 1 /\ ~(i > n)
  BY <1>1
<1>7. \A i \in 1 .. n :
        at[i] = IF IncludesAt(toks, i) THEN of[NameIn(toks[i + 1].value)] \o at[i + 2]
                ELSE <<toks[i]>> \o at[i + 1]
  BY <1>3, <1>6
<1> QED BY <1>5, <1>7 DEF at

LEMMA FromText ==
  ASSUME NEW toks, IsText(toks), NEW of, \A f \in DOMAIN files : IsText(of[f])
  PROVE  \A i \in 1 .. Len(toks) + 1 : IsText(From(toks, of)[i])
<1> DEFINE n == Len(toks)
           at == From(toks, of)
           T == {i \in 1 .. n + 1 : \A j \in i .. n + 1 : IsText(at[j])}
<1>1. n \in Nat
  BY DEF IsText
<1>2. /\ at[n + 1] = <<>>
      /\ \A i \in 1 .. n :
           at[i] = IF IncludesAt(toks, i) THEN of[NameIn(toks[i + 1].value)] \o at[i + 2]
                   ELSE <<toks[i]>> \o at[i + 1]
  BY FromFacts
<1>3. IsText(<<>>) /\ \A e : IsText(<<e>>)
  BY DEF IsText
<1> HIDE DEF at
<1>4. n + 1 \in T
  BY <1>1, <1>2, <1>3
<1>5. ASSUME NEW m \in 1 + 1 .. n + 1, m \in T PROVE m - 1 \in T
  <2> DEFINE k == m - 1
  <2>1. k \in 1 .. n /\ k \in 1 .. n + 1 /\ k + 1 = m /\ m \in m .. n + 1
        /\ \A j \in k .. n + 1 : j = k \/ j \in m .. n + 1
    BY <1>1
  <2>2. IsText(at[k])
    <3>1. CASE IncludesAt(toks, k)
      <4>1. k + 2 \in m .. n + 1 /\ NameIn(toks[k + 1].value) \in DOMAIN files
        BY <1>1, <3>1 DEF IncludesAt
      <4>2. IsText(at[k + 2])
        BY <1>5, <4>1
      <4>3. IsText(of[NameIn(toks[k + 1].value)])
        BY <4>1
      <4>4. at[k] = of[NameIn(toks[k + 1].value)] \o at[k + 2]
        BY <1>2, <2>1, <3>1
      <4> HIDE DEF k
      <4> QED BY <4>2, <4>3, <4>4, ConcatText
    <3>2. CASE ~IncludesAt(toks, k)
      <4>1. at[k] = <<toks[k]>> \o at[m]
        BY <1>2, <2>1, <3>2
      <4>2. IsText(at[m]) /\ IsText(<<toks[k]>>)
        BY <1>3, <1>5, <2>1
      <4> HIDE DEF k
      <4> QED BY <4>1, <4>2, ConcatText
    <3> QED BY <3>1, <3>2
  <2> HIDE DEF k
  <2>3. \A j \in k .. n + 1 : IsText(at[j])
    BY <1>5, <2>1, <2>2
  <2>4. k \in T
    BY <2>1, <2>3
  <2> QED BY <2>4 DEF k
<1> HIDE DEF T, n
<1>6. \A k \in 1 .. n + 1 : k \in T
  <2>1. 1 \in Nat /\ n + 1 \in Nat
    BY <1>1
  <2> QED BY <1>4, <1>5, <2>1, DownTo
<1>7. \A k \in 1 .. n + 1 : IsText(at[k])
  <2>1. \A k \in 1 .. n + 1 : k \in k .. n + 1
    BY <1>1
  <2> QED BY <1>6, <2>1 DEF T
<1> QED BY <1>7 DEF n, at


(* What a text stands for is settled by what the files it includes do.     *)
LEMMA ExpandedText ==
  ASSUME NEW toks, IsText(toks), NEW of, \A f \in DOMAIN files : IsText(of[f])
  PROVE  IsText(Expanded(toks, of))
<1>1. 1 \in 1 .. Len(toks) + 1
  BY DEF IsText
<1> QED BY <1>1, FromText, ExpandedIsFrom

LEMMA ExpandedAgrees ==
  ASSUME NEW toks, IsText(toks), NEW of, NEW so,
         \A f \in Includes(toks) : of[f] = so[f]
  PROVE  Expanded(toks, of) = Expanded(toks, so)
<1> DEFINE n == Len(toks)
           a == From(toks, of)
           b == From(toks, so)
           T == {i \in 1 .. n + 1 : \A j \in i .. n + 1 : a[j] = b[j]}
<1>1. n \in Nat
  BY DEF IsText
<1>2. /\ a[n + 1] = <<>>
      /\ \A i \in 1 .. n :
           a[i] = IF IncludesAt(toks, i) THEN of[NameIn(toks[i + 1].value)] \o a[i + 2]
                  ELSE <<toks[i]>> \o a[i + 1]
  BY FromFacts
<1>3. /\ b[n + 1] = <<>>
      /\ \A i \in 1 .. n :
           b[i] = IF IncludesAt(toks, i) THEN so[NameIn(toks[i + 1].value)] \o b[i + 2]
                  ELSE <<toks[i]>> \o b[i + 1]
  BY FromFacts
<1> HIDE DEF a, b
<1>4. n + 1 \in T
  BY <1>1, <1>2, <1>3
<1>5. ASSUME NEW m \in 1 + 1 .. n + 1, m \in T PROVE m - 1 \in T
  <2> DEFINE k == m - 1
  <2>1. k \in 1 .. n /\ k \in 1 .. n + 1 /\ k + 1 = m /\ m \in m .. n + 1
        /\ \A j \in k .. n + 1 : j = k \/ j \in m .. n + 1
    BY <1>1
  <2>2. a[k] = b[k]
    <3>1. CASE IncludesAt(toks, k)
      <4>1. k + 2 \in m .. n + 1
        BY <1>1, <3>1 DEF IncludesAt
      <4>2. NameIn(toks[k + 1].value) \in Includes(toks)
        BY <2>1, <3>1 DEF Includes
      <4>3. of[NameIn(toks[k + 1].value)] = so[NameIn(toks[k + 1].value)] /\ a[k + 2] = b[k + 2]
        BY <1>5, <4>1, <4>2
      <4> HIDE DEF k
      <4> QED BY <1>2, <1>3, <2>1, <3>1, <4>3
    <3>2. CASE ~IncludesAt(toks, k)
      <4>1. a[m] = b[m]
        BY <1>5, <2>1
      <4> HIDE DEF k
      <4> QED BY <1>2, <1>3, <2>1, <3>2, <4>1
    <3> QED BY <3>1, <3>2
  <2> HIDE DEF k
  <2>3. \A j \in k .. n + 1 : a[j] = b[j]
    BY <1>5, <2>1, <2>2
  <2>4. k \in T
    BY <2>1, <2>3
  <2> QED BY <2>4 DEF k
<1> HIDE DEF T
<1>6. 1 \in T
  <2>1. 1 \in Nat /\ n + 1 \in Nat /\ 1 \in 1 .. n + 1
    BY <1>1
  <2> HIDE DEF n
  <2>2. \A k \in 1 .. n + 1 : k \in T
    BY <1>4, <1>5, <2>1, DownTo
  <2> QED BY <2>1, <2>2
<1>7. a[1] = b[1]
  BY <1>1, <1>6 DEF T
<1> QED BY <1>7, ExpandedIsFrom DEF a, b

-----------------------------------------------------------------------------
(* The levels of includes, and of what is reached, one by one.             *)
LevelStep(x, n) ==
  [f \in DOMAIN files |-> IF n = 0 THEN <<>> ELSE Expanded(alone.files[f], x)]
ReachStep(x, n) ==
  [f \in DOMAIN files |->
     Includes(alone.files[f]) \union
       IF n = 0 THEN {} ELSE UNION {x[g] : g \in Includes(alone.files[f])}]
Levels  == INSTANCE FoldProofs WITH Op <- LevelStep
Reaches == INSTANCE FoldProofs WITH Op <- ReachStep

LEMMA LevelFacts ==
  /\ \A f \in DOMAIN files : Expansions[0][f] = <<>>
  /\ \A n \in Nat, f \in DOMAIN files :
       Expansions[n + 1][f] = Expanded(alone.files[f], Expansions[n])
<1>1. \A x, y : LevelStep(x, 0) = LevelStep(y, 0)
  BY DEF LevelStep
<1>2. \E g : Levels!Recurs(g)
  BY <1>1, Levels!RecursionHolds
<1>3. Expansions = CHOOSE g : Levels!Recurs(g)
  BY DEF Expansions, Levels!Recurs, LevelStep
<1>4. Levels!Recurs(Expansions)
  BY <1>2, <1>3
<1> DEFINE g == Expansions
<1> HIDE DEF g
<1>5. g = [n \in Nat |-> LevelStep(g[n - 1], n)]
  BY <1>4 DEF g, Levels!Recurs
<1>6. \A n \in Nat : g[n] = LevelStep(g[n - 1], n)
  BY <1>5
<1>7. \A f \in DOMAIN files : g[0][f] = <<>>
  BY <1>6 DEF LevelStep
<1>8. \A n \in Nat, f \in DOMAIN files : g[n + 1][f] = Expanded(alone.files[f], g[n])
  <2> TAKE n \in Nat, f \in DOMAIN files
  <2>1. n + 1 \in Nat /\ (n + 1) - 1 = n /\ n + 1 # 0
    OBVIOUS
  <2>2. g[n + 1] = LevelStep(g[n], n + 1)
    BY <1>6, <2>1
  <2> QED BY <2>1, <2>2 DEF LevelStep
<1> QED BY <1>7, <1>8 DEF g

LEMMA ReachFacts ==
  /\ \A f \in DOMAIN files : Reached[0][f] = Includes(alone.files[f])
  /\ \A n \in Nat, f \in DOMAIN files :
       Reached[n + 1][f] = Includes(alone.files[f])
                             \union UNION {Reached[n][g] : g \in Includes(alone.files[f])}
<1>1. \A x, y : ReachStep(x, 0) = ReachStep(y, 0)
  BY DEF ReachStep
<1>2. \E g : Reaches!Recurs(g)
  BY <1>1, Reaches!RecursionHolds
<1>3. Reached = CHOOSE g : Reaches!Recurs(g)
  BY DEF Reached, Reaches!Recurs, ReachStep
<1>4. Reaches!Recurs(Reached)
  BY <1>2, <1>3
<1> DEFINE r == Reached
<1> HIDE DEF r
<1>5. r = [n \in Nat |-> ReachStep(r[n - 1], n)]
  BY <1>4 DEF r, Reaches!Recurs
<1>6. \A n \in Nat : r[n] = ReachStep(r[n - 1], n)
  BY <1>5
<1>7. \A f \in DOMAIN files : r[0][f] = Includes(alone.files[f])
  <2>1. r[0] = ReachStep(r[0 - 1], 0)
    BY <1>6
  <2>2. ReachStep(r[0 - 1], 0) = [f \in DOMAIN files |-> Includes(alone.files[f]) \union {}]
    BY DEF ReachStep
  <2> QED BY <2>1, <2>2
<1>8. \A n \in Nat, f \in DOMAIN files :
        r[n + 1][f] = Includes(alone.files[f]) \union UNION {r[n][g] : g \in Includes(alone.files[f])}
  <2> TAKE n \in Nat, f \in DOMAIN files
  <2>1. n + 1 \in Nat /\ (n + 1) - 1 = n /\ n + 1 # 0
    OBVIOUS
  <2>2. r[n + 1] = ReachStep(r[n], n + 1)
    BY <1>6, <2>1
  <2> QED BY <2>1, <2>2 DEF ReachStep
<1> QED BY <1>7, <1>8 DEF r

LEMMA LevelText ==
  ASSUME \A f \in DOMAIN files : IsText(alone.files[f])
  PROVE  \A n \in Nat : \A f \in DOMAIN files : IsText(Expansions[n][f])
<1> DEFINE T == {n \in Nat : \A f \in DOMAIN files : IsText(Expansions[n][f])}
<1>1. 0 \in T
  BY LevelFacts DEF IsText
<1>2. ASSUME NEW n \in Nat, n \in T PROVE n + 1 \in T
  <2>1. \A f \in DOMAIN files : IsText(Expansions[n][f])
    BY <1>2
  <2>2. \A f \in DOMAIN files : IsText(Expanded(alone.files[f], Expansions[n]))
    BY <2>1, ExpandedText
  <2>3. \A f \in DOMAIN files : IsText(Expansions[n + 1][f])
    BY <2>2, LevelFacts
  <2> QED BY <2>3
<1> HIDE DEF T
<1>3. \A n \in Nat : n \in T
  BY <1>1, <1>2, UpTo
<1> QED BY <1>3 DEF T

-----------------------------------------------------------------------------
(* If one level more makes a difference to a file, a path of includes as   *)
(* long as the levels leads on from it; and without a circle no path is    *)
(* longer than there are files.                                            *)
Path(c, n) ==
  /\ \A i \in 0 .. n : c[i] \in DOMAIN files
  /\ \A i \in 0 .. n - 1 : c[i + 1] \in Includes(alone.files[c[i]])

LEMMA IncludesFiles ==
  ASSUME NEW toks
  PROVE  Includes(toks) \subseteq DOMAIN files
BY DEF Includes, IncludesAt

LEMMA DeepPath ==
  ASSUME \A f \in DOMAIN files : IsText(alone.files[f])
  PROVE  \A n \in Nat : \A f \in DOMAIN files :
           Expansions[n + 1][f] # Expansions[n][f] => \E c : Path(c, n) /\ c[0] = f
<1> DEFINE T == {n \in Nat : \A f \in DOMAIN files :
                   Expansions[n + 1][f] # Expansions[n][f] => \E c : Path(c, n) /\ c[0] = f}
<1>1. 0 \in T
  <2> SUFFICES ASSUME NEW f \in DOMAIN files PROVE \E c : Path(c, 0) /\ c[0] = f
    OBVIOUS
  <2> DEFINE c == [i \in 0 .. 0 |-> f]
  <2>1. c[0] = f /\ (\A i \in 0 .. 0 : c[i] \in DOMAIN files) /\ 0 .. 0 - 1 = {}
    OBVIOUS
  <2> HIDE DEF c
  <2> QED BY <2>1 DEF Path
<1>2. ASSUME NEW n \in Nat, n \in T PROVE n + 1 \in T
  <2> SUFFICES ASSUME NEW f \in DOMAIN files, Expansions[(n + 1) + 1][f] # Expansions[n + 1][f]
               PROVE  \E c : Path(c, n + 1) /\ c[0] = f
    OBVIOUS
  <2>1. n + 1 \in Nat
    OBVIOUS
  <2>2. /\ Expansions[(n + 1) + 1][f] = Expanded(alone.files[f], Expansions[n + 1])
        /\ Expansions[n + 1][f] = Expanded(alone.files[f], Expansions[n])
    BY <2>1, LevelFacts
  <2>3. PICK g \in Includes(alone.files[f]) : Expansions[n + 1][g] # Expansions[n][g]
    BY <2>2, ExpandedAgrees
  <2>4. g \in DOMAIN files
    BY IncludesFiles
  <2>5. PICK c : Path(c, n) /\ c[0] = g
    BY <1>2, <2>3, <2>4
  <2> DEFINE d == [i \in 0 .. n + 1 |-> IF i = 0 THEN f ELSE c[i - 1]]
  <2>6. d[0] = f /\ \A i \in 1 .. n + 1 : d[i] = c[i - 1]
    OBVIOUS
  <2> HIDE DEF d
  <2>7. \A i \in 0 .. n + 1 : d[i] \in DOMAIN files
    <3>1. \A i \in 0 .. n + 1 : i = 0 \/ (i \in 1 .. n + 1 /\ i - 1 \in 0 .. n)
      OBVIOUS
    <3> QED BY <2>5, <2>6, <3>1 DEF Path
  <2>8. ASSUME NEW i \in 0 .. n PROVE d[i + 1] \in Includes(alone.files[d[i]])
    <3>1. CASE i = 0
      <4>1. 1 \in 1 .. n + 1
        OBVIOUS
      <4>2. d[1] = c[0]
        BY <2>6, <4>1
      <4> QED BY <2>3, <2>5, <2>6, <3>1, <4>2
    <3>2. CASE i # 0
      <4>1. i \in 1 .. n + 1 /\ i + 1 \in 1 .. n + 1 /\ (i + 1) - 1 = i
            /\ i - 1 \in 0 .. n - 1 /\ (i - 1) + 1 = i
        BY <3>2
      <4>2. d[i + 1] = c[i] /\ d[i] = c[i - 1]
        BY <2>6, <4>1
      <4>3. c[(i - 1) + 1] \in Includes(alone.files[c[i - 1]])
        BY <2>5, <4>1 DEF Path
      <4> QED BY <4>1, <4>2, <4>3
    <3> QED BY <3>1, <3>2
  <2>9. Path(d, n + 1)
    BY <2>7, <2>8 DEF Path
  <2> QED BY <2>6, <2>9
<1> HIDE DEF T
<1>3. \A n \in Nat : n \in T
  BY <1>1, <1>2, UpTo
<1> QED BY <1>3 DEF T

LEMMA PathReaches ==
  ASSUME NEW n \in Nat, NEW c, Path(c, n)
  PROVE  \A k \in Nat : \A i \in 0 .. n, m \in Nat :
           i + k + 1 <= n /\ k <= m => c[i + k + 1] \in Reached[m][c[i]]
<1> DEFINE T == {k \in Nat : \A i \in 0 .. n, m \in Nat :
                   i + k + 1 <= n /\ k <= m => c[i + k + 1] \in Reached[m][c[i]]}
<1>1. ASSUME NEW m \in Nat, NEW f \in DOMAIN files
      PROVE  /\ Includes(alone.files[f]) \subseteq Reached[m][f]
             /\ m # 0 => \A g \in Includes(alone.files[f]) : Reached[m - 1][g] \subseteq Reached[m][f]
  <2>1. CASE m = 0
    BY <2>1, ReachFacts
  <2>2. CASE m # 0
    <3>1. m - 1 \in Nat /\ (m - 1) + 1 = m
      BY <2>2
    <3>2. Reached[m][f] = Includes(alone.files[f])
                            \union UNION {Reached[m - 1][g] : g \in Includes(alone.files[f])}
      BY <3>1, ReachFacts
    <3> QED BY <3>2
  <2> QED BY <2>1, <2>2
<1>2. 0 \in T
  <2> SUFFICES ASSUME NEW i \in 0 .. n, NEW m \in Nat, i + 0 + 1 <= n
               PROVE  c[i + 0 + 1] \in Reached[m][c[i]]
    OBVIOUS
  <2>1. i \in 0 .. n - 1 /\ i + 0 + 1 = i + 1
    OBVIOUS
  <2>2. c[i] \in DOMAIN files /\ c[i + 1] \in Includes(alone.files[c[i]])
    BY <2>1 DEF Path
  <2> QED BY <1>1, <2>1, <2>2
<1>3. ASSUME NEW k \in Nat, k \in T PROVE k + 1 \in T
  <2> SUFFICES ASSUME NEW i \in 0 .. n, NEW m \in Nat, i + (k + 1) + 1 <= n, k + 1 <= m
               PROVE  c[i + (k + 1) + 1] \in Reached[m][c[i]]
    OBVIOUS
  <2>1. i \in 0 .. n - 1 /\ i + 1 \in 0 .. n /\ m - 1 \in Nat /\ k <= m - 1 /\ m # 0
        /\ (i + 1) + k + 1 <= n /\ (i + 1) + k + 1 = i + (k + 1) + 1
    OBVIOUS
  <2>2. c[i] \in DOMAIN files /\ c[i + 1] \in Includes(alone.files[c[i]])
    BY <2>1 DEF Path
  <2>3. c[(i + 1) + k + 1] \in Reached[m - 1][c[i + 1]]
    BY <1>3, <2>1
  <2>4. Reached[m - 1][c[i + 1]] \subseteq Reached[m][c[i]]
    BY <1>1, <2>1, <2>2
  <2> QED BY <2>1, <2>3, <2>4
<1> HIDE DEF T
<1>4. \A k \in Nat : k \in T
  BY <1>2, <1>3, UpTo
<1> QED BY <1>4 DEF T

(* So as many levels as there are files settle what each stands for.       *)
LEMMA LevelsSettle ==
  ASSUME IsFiniteSet(DOMAIN files), \A f \in DOMAIN files : IsText(alone.files[f]), Acyclic
  PROVE  \A f \in DOMAIN files :
           Expanded(alone.files[f], Expansions[Cardinality(DOMAIN files)])
             = Expansions[Cardinality(DOMAIN files)][f]
<1> DEFINE n == Cardinality(DOMAIN files)
<1>1. n \in Nat
  BY FS_CardinalityType
<1> SUFFICES ASSUME NEW f \in DOMAIN files, Expanded(alone.files[f], Expansions[n]) # Expansions[n][f]
             PROVE  FALSE
  OBVIOUS
<1>2. \A g \in DOMAIN files : g \notin Reached[n][g]
  BY DEF Acyclic
<1>3. Cardinality(DOMAIN files) = n
  OBVIOUS
<1> HIDE DEF n
<1>4. Expansions[n + 1][f] # Expansions[n][f]
  BY <1>1, LevelFacts
<1>5. PICK c : Path(c, n)
  BY <1>1, <1>4, DeepPath
<1> DEFINE I == 0 .. n
           e == [i \in I |-> c[i]]
<1>6. e \in [I -> DOMAIN files]
  BY <1>5 DEF Path
<1>7. IsFiniteSet(I) /\ Cardinality(I) = n + 1
  <2>1. 0 \in Int /\ n \in Int
    BY <1>1
  <2>2. IsFiniteSet(0 .. n) /\ Cardinality(0 .. n) = IF 0 > n THEN 0 ELSE n - 0 + 1
    BY <2>1, FS_Interval
  <2> QED BY <1>1, <2>2
<1>8. \E i, j \in I : i # j /\ e[i] = e[j]
  <2>1. Cardinality(DOMAIN files) < Cardinality(I)
    BY <1>1, <1>3, <1>7
  <2> HIDE DEF I, e
  <2> QED BY <1>6, <1>7, <2>1, FS_PigeonHole
<1>9. PICK i \in I, j \in I : i < j /\ c[i] = c[j]
  <2>1. PICK i \in I, j \in I : i # j /\ e[i] = e[j]
    BY <1>8
  <2>2. i < j \/ j < i
    BY <1>1, <2>1
  <2>3. c[i] = c[j]
    BY <2>1
  <2> QED BY <2>2, <2>3
<1> DEFINE k == j - i - 1
<1>10. k \in Nat /\ i + k + 1 = j /\ i + k + 1 <= n /\ k <= n
  BY <1>1, <1>9
<1> HIDE DEF k
<1>11. c[i + k + 1] \in Reached[n][c[i]]
  BY <1>1, <1>5, <1>10, PathReaches
<1>12. c[i] \in DOMAIN files
  BY <1>5 DEF Path
<1> QED BY <1>2, <1>9, <1>10, <1>11, <1>12

-----------------------------------------------------------------------------
LEMMA OneText ==
  ASSUME NEW e
  PROVE  IsText(<<e>>)
BY DEF IsText

(* A stretch a .. b - 1 of u that stands d places on in v too, and ends    *)
(* with no include, stands for the same there, if what follows does.       *)
AllTexts(of) == \A f \in DOMAIN files : IsText(of[f])
Stretch(u, v, a, b, d) ==
  /\ a \in 1 .. Len(u) + 1 /\ b \in a .. Len(u) + 1
  /\ d \in Int /\ a + d >= 1 /\ b + d <= Len(v) + 1
  /\ \A k \in a .. b - 1 : v[k + d] = u[k]
  /\ \A k \in a .. b - 1 : u[k].type = "INCLUDE" => k < b - 1

LEMMA SameStretch ==
  ASSUME NEW u, IsText(u), NEW v, IsText(v), NEW of, AllTexts(of),
         NEW a, NEW b, NEW d, Stretch(u, v, a, b, d),
         NEW w, IsText(w), From(v, of)[b + d] = From(u, of)[b] \o w
  PROVE  From(v, of)[a + d] = From(u, of)[a] \o w
<1> DEFINE n == Len(u)
           m == Len(v)
           x == From(u, of)
           y == From(v, of)
           T == {i \in a .. b : \A j \in i .. b : y[j + d] = x[j] \o w}
<1>1. /\ n \in Nat /\ m \in Nat /\ a \in 1 .. n + 1 /\ b \in a .. n + 1
      /\ d \in Int /\ a + d >= 1 /\ b + d <= m + 1
  BY DEF IsText, Stretch
<1>2. /\ \A k \in a .. b - 1 : v[k + d] = u[k]
      /\ \A k \in a .. b - 1 : u[k].type = "INCLUDE" => k < b - 1
      /\ \A f \in DOMAIN files : IsText(of[f])
  BY DEF Stretch, AllTexts
<1>3. n \in Nat /\ m \in Nat /\ a \in 1 .. n + 1 /\ b \in a .. n + 1 /\ a \in Nat /\ b \in Nat
      /\ d \in Int /\ a + d >= 1 /\ b + d <= m + 1
  BY <1>1
<1>4. \A i \in 1 .. n :
        x[i] = IF IncludesAt(u, i) THEN of[NameIn(u[i + 1].value)] \o x[i + 2]
               ELSE <<u[i]>> \o x[i + 1]
  BY FromFacts
<1>5. \A i \in 1 .. m :
        y[i] = IF IncludesAt(v, i) THEN of[NameIn(v[i + 1].value)] \o y[i + 2]
               ELSE <<v[i]>> \o y[i + 1]
  BY FromFacts
<1>6. \A i \in 1 .. n + 1 : IsText(x[i])
  BY <1>2, FromText
<1>7. y[b + d] = x[b] \o w
  OBVIOUS
<1>8. \A g, z : IsText(g) /\ IsText(z) => (g \o z) \o w = g \o (z \o w)
  BY ConcatAssoc
<1> HIDE DEF x, y
<1>9. b \in T
  <2>1. b \in a .. b /\ \A j \in b .. b : j = b
    BY <1>3
  <2> QED BY <1>7, <2>1
<1>10. ASSUME NEW p \in a + 1 .. b, p \in T PROVE p - 1 \in T
  <2>1. PICK k \in a .. b - 1 : k = p - 1 /\ k + 1 = p
    <3>1. p - 1 \in a .. b - 1 /\ (p - 1) + 1 = p
      BY <1>3
    <3> QED BY <3>1
  <2>2. /\ k \in 1 .. n /\ k + d \in 1 .. m /\ k \in a .. b /\ p \in p .. b
        /\ \A j \in k .. b : j = k \/ j \in p .. b
        /\ (k + d) + 1 = p + d /\ (k + 1) + d = p + d /\ (k + d) + 2 = (k + 2) + d
    BY <1>3, <2>1
  <2>3. v[k + d] = u[k]
    BY <1>2
  <2>4. y[k + d] = x[k] \o w
    <3>1. CASE u[k].type = "INCLUDE"
      <4>1. k + 1 \in a .. b - 1 /\ k < n /\ k + d < m /\ k + 2 \in p .. b /\ k + 2 \in 1 .. n + 1
        <5>1. k < b - 1
          BY <1>2, <3>1
        <5> QED BY <1>3, <2>1, <2>2, <5>1
      <4>2. v[(k + d) + 1] = u[k + 1]
        <5>1. v[(k + 1) + d] = u[k + 1]
          BY <1>2, <4>1
        <5> QED BY <2>2, <5>1
      <4>3. IncludesAt(v, k + d) <=> IncludesAt(u, k)
        BY <2>3, <4>1, <4>2 DEF IncludesAt
      <4>4. CASE IncludesAt(u, k)
        <5> DEFINE g == of[NameIn(u[k + 1].value)]
                   z == x[k + 2]
        <5>1. IsText(g) /\ IsText(z)
          BY <1>6, <1>2, <4>1, <4>4 DEF IncludesAt
        <5>2. y[(k + d) + 2] = x[k + 2] \o w
          BY <1>10, <2>2, <4>1
        <5>3. y[k + d] = g \o y[(k + d) + 2] /\ x[k] = g \o x[k + 2]
          BY <1>4, <1>5, <2>2, <4>2, <4>3, <4>4
        <5> HIDE DEF g, z
        <5>4. (g \o z) \o w = g \o (z \o w)
          BY <5>1, <1>8
        <5> QED BY <5>2, <5>3, <5>4 DEF z
      <4>5. CASE ~IncludesAt(u, k)
        <5> DEFINE g == <<u[k]>>
                   z == x[k + 1]
        <5>1. IsText(g) /\ IsText(z)
          <6>1. k + 1 \in 1 .. n + 1
            BY <1>3, <2>2
          <6> QED BY <1>6, <6>1, OneText
        <5>2. y[(k + d) + 1] = x[k + 1] \o w
          BY <1>10, <2>1, <2>2
        <5>3. y[k + d] = g \o y[(k + d) + 1] /\ x[k] = g \o z
          BY <1>4, <1>5, <2>2, <2>3, <4>3, <4>5
        <5> HIDE DEF g, z
        <5>4. (g \o z) \o w = g \o (z \o w)
          BY <5>1, <1>8
        <5> QED BY <5>2, <5>3, <5>4 DEF z
      <4> QED BY <4>4, <4>5
    <3>2. CASE u[k].type # "INCLUDE"
      <4>1. ~IncludesAt(u, k) /\ ~IncludesAt(v, k + d)
        BY <2>3, <3>2 DEF IncludesAt
      <4>2. k + 1 \in 1 .. n + 1
        BY <1>3, <2>2
      <4> DEFINE g == <<u[k]>>
                 z == x[k + 1]
      <4>3. IsText(g) /\ IsText(z)
        BY <1>6, <4>2, OneText
      <4>4. y[(k + d) + 1] = x[k + 1] \o w
        BY <1>10, <2>1, <2>2
      <4>5. y[k + d] = g \o y[(k + d) + 1] /\ x[k] = g \o z
        BY <1>4, <1>5, <2>2, <2>3, <4>1
      <4> HIDE DEF g, z
      <4>6. (g \o z) \o w = g \o (z \o w)
        BY <4>3, <1>8
      <4> QED BY <4>4, <4>5, <4>6 DEF z
    <3> QED BY <3>1, <3>2
  <2>5. \A j \in k .. b : y[j + d] = x[j] \o w
    BY <1>10, <2>2, <2>4
  <2>6. k \in T
    BY <2>2, <2>5
  <2> QED BY <2>1, <2>6
<1> HIDE DEF T
<1>11. \A k \in a .. b : k \in T
  BY <1>3, <1>9, <1>10, DownTo
<1>12. a \in T /\ a \in a .. b
  BY <1>3, <1>11
<1>13. y[a + d] = x[a] \o w
  BY <1>12 DEF T
<1> QED BY <1>13 DEF x, y

(* The text t of a file in place of the include at i that names it.        *)
Splices(v, s, i, t) ==
  /\ IsText(v) /\ Len(v) = Len(s) + Len(t) - 2
  /\ \A k \in 1 .. i - 1 : v[k] = s[k]
  /\ \A k \in 1 .. Len(t) : v[k + (i - 1)] = t[k]
  /\ \A k \in i + 2 .. Len(s) : v[k + (Len(t) - 2)] = s[k]

LEMMA SpliceStandsForTheSame ==
  ASSUME NEW s, IsText(s), NEW t, IsText(t), Closed(s, FALSE), Closed(t, FALSE),
         NEW of, AllTexts(of),
         NEW i \in 1 .. Len(s), IncludesAt(s, i),
         of[NameIn(s[i + 1].value)] = Expanded(t, of),
         NEW v, Splices(v, s, i, t)
  PROVE  Expanded(v, of) = Expanded(s, of)
<1> DEFINE n == Len(s)
           m == Len(t)
           x == From(s, of)
           y == From(v, of)
           z == From(t, of)
           w == x[i + 2]
<1>1. /\ n \in Nat /\ m \in Nat /\ i \in 1 .. n - 1 /\ i + 2 \in 1 .. n + 1
      /\ IsText(v) /\ Len(v) = n + m - 2
  BY DEF IsText, IncludesAt, Splices
<1>2. /\ \A k \in 1 .. i - 1 : v[k] = s[k]
      /\ \A k \in 1 .. m : v[k + (i - 1)] = t[k]
      /\ \A k \in i + 2 .. n : v[k + (m - 2)] = s[k]
  BY DEF Splices
<1>3. /\ \A k \in 1 .. n : s[k].type = "INCLUDE" => k < n /\ s[k + 1].type = "CONSTANT_STRING"
      /\ \A k \in 1 .. m : t[k].type = "INCLUDE" => k < m
  BY DEF Closed, ClosedOn, Follows
<1>4. x[n + 1] = <<>> /\ y[Len(v) + 1] = <<>> /\ z[m + 1] = <<>>
  BY <1>1, FromFacts
<1>5. IsText(<<>>) /\ IsText(w) /\ IsText(x[1])
  <2>1. \A k \in 1 .. n + 1 : IsText(x[k])
    BY FromText DEF AllTexts
  <2>2. 1 \in 1 .. n + 1
    BY <1>1
  <2>3. IsText(<<>>)
    BY DEF IsText
  <2> HIDE DEF x
  <2> QED BY <1>1, <2>1, <2>2, <2>3
<1>6. s[i].type = "INCLUDE"
  BY DEF IncludesAt
<1>7. x[i] = z[1] \o w
  <2>1. x[i] = of[NameIn(s[i + 1].value)] \o w
    BY FromFacts
  <2> QED BY <2>1, ExpandedIsFrom
<1> HIDE DEF x, y, z, n, m
<1>8. y[(i + 2) + (m - 2)] = w
  <2> DEFINE a == i + 2
             b == n + 1
             d == m - 2
  <2>1. a \in 1 .. n + 1 /\ b \in a .. n + 1 /\ d \in Int /\ a + d >= 1 /\ b + d = Len(v) + 1
        /\ b - 1 = n
    BY <1>1
  <2>2. \A k \in a .. n : v[k + d] = s[k]
    BY <1>2
  <2>3. \A k \in a .. n : s[k].type = "INCLUDE" => k < n
    BY <1>1, <1>3
  <2>4. x[b] = <<>> /\ y[b + d] = <<>> /\ <<>> \o <<>> = <<>>
    BY <1>4, <2>1
  <2>5. Stretch(s, v, a, b, d)
    BY <2>1, <2>2, <2>3 DEF Stretch, n
  <2>6. y[b + d] = x[b] \o <<>>
    BY <2>4
  <2> HIDE DEF a, b, d
  <2>7. From(v, of)[a + d] = From(s, of)[a] \o <<>>
    <3> DEFINE e == <<>>
    <3>1. IsText(e) /\ IsText(v)
      BY <1>1, <1>5
    <3>2. From(v, of)[b + d] = From(s, of)[b] \o e
      BY <2>6 DEF x, y
    <3> HIDE DEF e
    <3>3. From(v, of)[a + d] = From(s, of)[a] \o e
      BY <2>5, <3>1, <3>2, SameStretch
    <3> QED BY <3>3 DEF e
  <2> QED BY <1>5, <2>7, ConcatText DEF a, d, w, x, y
<1> HIDE DEF w
<1>9. y[i] = z[1] \o w
  <2> DEFINE a == 1
             b == m + 1
             d == i - 1
  <2>1. a \in 1 .. m + 1 /\ b \in a .. m + 1 /\ d \in Int /\ a + d >= 1 /\ b + d <= Len(v) + 1
        /\ b - 1 = m /\ a + d = i /\ b + d = (i + 2) + (m - 2)
    BY <1>1
  <2>2. \A k \in a .. m : v[k + d] = t[k]
    BY <1>2
  <2>3. \A k \in a .. m : t[k].type = "INCLUDE" => k < m
    BY <1>3
  <2>4. z[b] = <<>> /\ <<>> \o w = w
    BY <1>4, <1>5, ConcatText
  <2>5. y[b + d] = z[b] \o w
    BY <1>8, <2>1, <2>4
  <2>6. Stretch(t, v, a, b, d)
    BY <2>1, <2>2, <2>3 DEF Stretch, m
  <2> HIDE DEF a, b, d
  <2>7. From(v, of)[b + d] = From(t, of)[b] \o w
    BY <2>5 DEF y, z
  <2>8. From(v, of)[a + d] = From(t, of)[a] \o w
    <3>1. IsText(w) /\ IsText(v)
      BY <1>1, <1>5
    <3> QED BY <2>6, <2>7, <3>1, SameStretch
  <2> QED BY <2>1, <2>8 DEF a, y, z
<1>10. y[1] = x[1]
  <2> DEFINE a == 1
             b == i
             d == 0
  <2>1. a \in 1 .. n + 1 /\ b \in a .. n + 1 /\ d \in Int /\ a + d >= 1 /\ b + d <= Len(v) + 1
        /\ a + d = 1 /\ b + d = i
    BY <1>1
  <2>2. \A k \in a .. b - 1 : v[k + d] = s[k]
    <3>1. \A k \in 1 .. i - 1 : k + 0 = k
      OBVIOUS
    <3> QED BY <1>2, <3>1
  <2>3. \A k \in a .. b - 1 : s[k].type = "INCLUDE" => k < b - 1
    <3> SUFFICES ASSUME NEW k \in 1 .. i - 1, s[k].type = "INCLUDE" PROVE k < i - 1
      OBVIOUS
    <3>1. k \in 1 .. n /\ s[k + 1].type = "CONSTANT_STRING"
      BY <1>1, <1>3
    <3>2. k + 1 # i
      BY <1>3, <1>6, <3>1
    <3> QED BY <1>1, <3>2
  <2>4. y[b + d] = x[b] \o <<>>
    <3>1. IsText(x[i])
      <4>1. \A k \in 1 .. n + 1 : IsText(x[k])
        BY FromText DEF AllTexts, x, n
      <4>2. i \in 1 .. n + 1
        BY <1>1
      <4> QED BY <4>1, <4>2
    <3> QED BY <1>7, <1>9, <2>1, <3>1, ConcatText
  <2>5. Stretch(s, v, a, b, d)
    BY <2>1, <2>2, <2>3 DEF Stretch, n
  <2> HIDE DEF a, b, d
  <2>6. From(v, of)[a + d] = From(s, of)[a] \o <<>>
    <3> DEFINE e == <<>>
    <3>1. IsText(e) /\ IsText(v)
      BY <1>1, <1>5
    <3>2. From(v, of)[b + d] = From(s, of)[b] \o e
      BY <2>4 DEF x, y
    <3> HIDE DEF e
    <3>3. From(v, of)[a + d] = From(s, of)[a] \o e
      BY <2>5, <3>1, <3>2, SameStretch
    <3> QED BY <3>3 DEF e
  <2> QED BY <1>5, <2>1, <2>6, ConcatText DEF a, x, y
<1> QED BY <1>10, ExpandedIsFrom DEF x, y

-----------------------------------------------------------------------------
(* What a step leaves alone: the same of a directory d and of the tokens a *)
(* of its files, so that it can be read before a step and after it.        *)
IncludeIn(d, toks, i) ==
  /\ i < Len(toks)
  /\ toks[i].type = "INCLUDE" /\ toks[i + 1].type = "CONSTANT_STRING"
  /\ NameIn(toks[i + 1].value) \in d
IncludedIn(d, toks) == {NameIn(toks[i + 1].value) : i \in {i \in 1 .. Len(toks) : IncludeIn(d, toks, i)}}
ExpandedIn(d, toks, of) ==
  LET at[i \in 1 .. Len(toks) + 1] ==
        IF i > Len(toks) THEN <<>>
        ELSE IF IncludeIn(d, toks, i) THEN of[NameIn(toks[i + 1].value)] \o at[i + 2]
        ELSE <<toks[i]>> \o at[i + 1]
  IN  at[1]
LevelsIn(d, a) ==
  CHOOSE g : g = [n \in Nat |->
    [f \in d |-> IF n = 0 THEN <<>> ELSE ExpandedIn(d, a.files[f], g[n - 1])]]
ReachedIn(d, a) ==
  CHOOSE g : g = [n \in Nat |->
    [f \in d |-> IncludedIn(d, a.files[f]) \union
                   IF n = 0 THEN {} ELSE UNION {g[n - 1][h] : h \in IncludedIn(d, a.files[f])}]]

ExpansionIn(d, a, toks) == ExpandedIn(d, toks, LevelsIn(d, a)[Cardinality(d)])
AcyclicIn(d, a) == \A f \in d : f \notin ReachedIn(d, a)[Cardinality(d)][f]

LEMMA MeaningByParameters ==
  /\ \A toks : Expansion(toks) = ExpansionIn(DOMAIN files, alone, toks)
  /\ (\A toks : Expansion(toks) = ExpansionIn(DOMAIN files, alone, toks))'
  /\ Acyclic <=> AcyclicIn(DOMAIN files, alone)
  /\ Acyclic' <=> AcyclicIn(DOMAIN files', alone')
<1>1. Expansions = LevelsIn(DOMAIN files, alone)
  BY DEF Expansions, Expanded, IncludesAt, LevelsIn, ExpandedIn, IncludeIn
<1>2. Expansions' = LevelsIn(DOMAIN files', alone')
  BY DEF Expansions, Expanded, IncludesAt, LevelsIn, ExpandedIn, IncludeIn
<1>3. Reached = ReachedIn(DOMAIN files, alone)
  BY DEF Reached, ReachedIn, Includes, IncludedIn, IncludesAt, IncludeIn
<1>4. Reached' = ReachedIn(DOMAIN files', alone')
  BY DEF Reached, ReachedIn, Includes, IncludedIn, IncludesAt, IncludeIn
<1>5. \A toks : Expansion(toks) = ExpansionIn(DOMAIN files, alone, toks)
  BY <1>1 DEF Expansion, ExpansionIn, Expanded, ExpandedIn, IncludeIn, IncludesAt
<1>6. (\A toks : Expansion(toks) = ExpansionIn(DOMAIN files, alone, toks))'
  BY <1>2 DEF Expansion, ExpansionIn, Expanded, ExpandedIn, IncludeIn, IncludesAt
<1>7. Acyclic <=> AcyclicIn(DOMAIN files, alone)
  BY <1>3 DEF Acyclic, AcyclicIn
<1>8. Acyclic' <=> AcyclicIn(DOMAIN files', alone')
  BY <1>4 DEF Acyclic, AcyclicIn
<1> QED BY <1>5, <1>6, <1>7, <1>8

-----------------------------------------------------------------------------
(* The list as it will be when the tokens that are still to come are in,   *)
(* and the invariant: that stands for the program while they come in, and  *)
(* the list does otherwise.                                                *)
FilledTo(q, t, i, p, m, r, l) ==
  [k \in 1 .. l |->
     IF k <= p THEN q[k] ELSE IF k <= i - 1 + m THEN t[k - (i - 1)] ELSE q[k - r]]
Filled(q, t, i, j) ==
  FilledTo(q, t, i, i - 1 + j, Len(t), Len(t) - j, Len(q) + (Len(t) - j))
Awaited == Filled(tokens.items, newtoks.items, index, inserted)
SameSoFar ==
  /\ stage \in {"scan", "include", "done"} => Expansion(tokens.items) = Expansion(alone.main)
  /\ stage = "insert" => Expansion(Awaited) = Expansion(alone.main)
ProgInv ==
  /\ IsFiniteSet(DOMAIN files)
  /\ Sound /\ Acyclic /\ EveryPathGiven => SameSoFar

LEMMA MeaningStays ==
  ASSUME UNCHANGED <<files, alone>>
  PROVE  /\ Acyclic' <=> Acyclic
         /\ EveryPathGiven' <=> EveryPathGiven
         /\ Expansion(alone.main)' = Expansion(alone.main)
         /\ Expansion(tokens.items)' = Expansion(tokens'.items)
         /\ Expansion(Awaited)' = Expansion(Awaited')
<1>1. Acyclic' <=> Acyclic
  BY MeaningByParameters
<1>2. EveryPathGiven' <=> EveryPathGiven
  BY DEF EveryPathGiven, PathsGiven
<1>3. Expansion(alone.main)' = Expansion(alone.main)
  BY MeaningByParameters
<1>4. Expansion(tokens.items)' = Expansion(tokens'.items)
  BY MeaningByParameters
<1>5. Expansion(Awaited)' = Expansion(Awaited')
  BY MeaningByParameters
<1> QED BY <1>1, <1>2, <1>3, <1>4, <1>5

LEMMA GivenIsClosed ==
  ASSUME EveryPathGiven
  PROVE  AllClosed(FALSE)
BY DEF EveryPathGiven, PathsGiven, AllClosed, Closed, ClosedOn, Follows

LEMMA FilledFacts ==
  ASSUME NEW q, NEW t, NEW i, NEW p, NEW m, NEW r, NEW l \in Nat
  PROVE  /\ IsText(FilledTo(q, t, i, p, m, r, l)) /\ Len(FilledTo(q, t, i, p, m, r, l)) = l
         /\ \A k \in 1 .. l :
              FilledTo(q, t, i, p, m, r, l)[k] =
                IF k <= p THEN q[k] ELSE IF k <= i - 1 + m THEN t[k - (i - 1)] ELSE q[k - r]
<1> DEFINE Row(k) == IF k <= p THEN q[k] ELSE IF k <= i - 1 + m THEN t[k - (i - 1)] ELSE q[k - r]
           S == {Row(k) : k \in 1 .. l}
           v == [k \in 1 .. l |-> Row(k)]
<1>1. FilledTo(q, t, i, p, m, r, l) = v
  BY DEF FilledTo
<1> HIDE DEF Row
<1>2. v \in [1 .. l -> S] /\ \A k \in 1 .. l : v[k] = Row(k)
  OBVIOUS
<1> HIDE DEF S, v
<1>3. v \in Seq(S) /\ Len(v) = l
  BY <1>2
<1>4. IsText(v)
  BY <1>3, SeqText
<1> QED BY <1>1, <1>2, <1>3, <1>4 DEF Row

(* Two texts of one length that agree everywhere are one.                  *)
LEMMA SameText ==
  ASSUME NEW s, IsText(s), NEW t, IsText(t), Len(s) = Len(t),
         \A k \in 1 .. Len(s) : s[k] = t[k]
  PROVE  s = t
BY DEF IsText

(* What is taken out is an include, and its file's tokens are to come.     *)
LEMMA TakeOutSplices ==
  ASSUME LexInv, ScanInv, Sound, NoneErased', TakeOut
  PROVE  /\ IncludesAt(tokens.items, index) /\ index \in 1 .. Len(tokens.items)
         /\ IsText(newtoks.items)
         /\ newtoks.items = alone.files[NameIn(tokens.items[index + 1].value)]
         /\ Splices(Awaited', tokens.items, index, newtoks.items)
<1> DEFINE f == NameIn(tokens.items[index + 1].value)
           s == tokens.items
           q == tokens'.items
           t == newtoks.items
           n == Len(s)
           m == Len(t)
<1>1. /\ stage = "include" /\ Lexed /\ inserted' = 0 /\ UNCHANGED <<newtoks, index>>
  BY DEF TakeOut, lexing
<1>2. /\ InLexer /\ f \in DOMAIN files /\ text = files[f] /\ AloneKnown /\ TextsGiven
      /\ IncludesAt(s, index)
  BY <1>1 DEF InLexer, LexInv, ScanInv, ScanShape, AtInclude, Opens, Named, IncludesAt, IsInclude, Token
<1>3. t = alone.files[f] /\ IsText(t)
  <2>1. t = TokensIn(text) /\ IsText(t)
    BY <1>1, <1>2, AllCut
  <2> HIDE DEF f
  <2> QED BY <1>2, <2>1, AloneFacts
<1>4. /\ n \in Nat /\ index \in 1 .. n - 1 /\ Len(q) = n - 2
      /\ \A k \in 1 .. n - 2 : q[k] = IF k < index THEN s[k] ELSE s[k + 2]
  BY TakeOutFacts
<1>5. m \in Nat
  BY <1>3 DEF IsText
<1> DEFINE v == Awaited'
<1>6. v = Filled(q, t, index, 0)
  BY <1>1 DEF Awaited
<1> HIDE DEF q, s, t, v, n
<1>7. /\ IsText(v) /\ Len(v) = n - 2 + m
      /\ \A k \in 1 .. n - 2 + m :
           v[k] = IF k <= index - 1 THEN q[k]
                  ELSE IF k <= index - 1 + m THEN t[k - (index - 1)] ELSE q[k - m]
  <2> DEFINE l == n - 2 + m
             p == index - 1
  <2>1. l \in Nat /\ p = index - 1 + 0 /\ m = m - 0 /\ l = Len(q) + (m - 0)
    BY <1>4, <1>5
  <2>2. v = FilledTo(q, t, index, p, m, m, l)
    BY <1>6, <2>1, Zenon DEF Filled
  <2> HIDE DEF l, p, m
  <2>3. /\ IsText(v) /\ Len(v) = l
        /\ \A k \in 1 .. l :
             v[k] = IF k <= p THEN q[k] ELSE IF k <= index - 1 + m THEN t[k - (index - 1)] ELSE q[k - m]
    BY <2>1, <2>2, FilledFacts
  <2> QED BY <2>3 DEF l, p
<1>8. ASSUME NEW k \in 1 .. index - 1 PROVE v[k] = s[k]
  <2>1. k \in 1 .. n - 2 + m /\ k <= index - 1 /\ k \in 1 .. n - 2 /\ k < index
    BY <1>4, <1>5
  <2> QED BY <1>4, <1>7, <2>1
<1>9. ASSUME NEW k \in 1 .. m PROVE v[k + (index - 1)] = t[k]
  <2>1. k + (index - 1) \in 1 .. n - 2 + m /\ ~(k + (index - 1) <= index - 1)
        /\ k + (index - 1) <= index - 1 + m /\ (k + (index - 1)) - (index - 1) = k
    BY <1>4, <1>5
  <2> QED BY <1>7, <2>1
<1>10. ASSUME NEW k \in index + 2 .. n PROVE v[k + (m - 2)] = s[k]
  <2>1. /\ k + (m - 2) \in 1 .. n - 2 + m /\ ~(k + (m - 2) <= index - 1)
        /\ ~(k + (m - 2) <= index - 1 + m) /\ (k + (m - 2)) - m = k - 2
        /\ k - 2 \in 1 .. n - 2 /\ ~(k - 2 < index) /\ (k - 2) + 2 = k
    BY <1>4, <1>5
  <2>2. v[k + (m - 2)] = q[k - 2]
    BY <1>7, <2>1
  <2> QED BY <1>4, <2>1, <2>2
<1>11. Splices(v, s, index, t)
  <2>1. Len(v) = Len(s) + Len(t) - 2
    BY <1>4, <1>5, <1>7 DEF n
  <2> QED BY <1>7, <1>8, <1>9, <1>10, <2>1 DEF Splices, n
<1>12. index \in 1 .. n
  BY <1>4
<1> QED BY <1>2, <1>3, <1>11, <1>12 DEF s, t, v, n

(* A token that comes in was awaited, ...                                  *)
LEMMA InsertKeepsAwaited ==
  ASSUME ScanInv, Sound, NoneErased', Insert
  PROVE  Awaited' = Awaited
<1> DEFINE s == tokens.items
           q == tokens'.items
           t == newtoks.items
           n == Len(s)
           m == Len(t)
           i == index
           j == inserted
           a == Awaited
           b == Awaited'
<1>1. /\ UNCHANGED <<newtoks, index>> /\ inserted' = j + 1
  BY DEF Insert, lexing
<1>2. /\ n \in Nat /\ Place \in 0 .. n - 1 /\ i \in Nat \ {0} /\ j \in Nat /\ j < m
      /\ Len(q) = n + 1
      /\ \A k \in 1 .. Place : q[k] = s[k]
      /\ q[Place + 1] = t[j + 1]
      /\ \A k \in Place + 1 .. n : q[k + 1] = s[k]
  BY InsertFacts
<1>3. m \in Nat /\ j \in 0 .. m
  BY DEF ScanInv, ScanShape, AtInsert, Insert, More
<1>4. a = Filled(s, t, i, j) /\ b = Filled(q, t, i, j + 1)
  BY <1>1 DEF Awaited
<1>5. Place = i - 1 + j
  BY DEF Place
<1> HIDE DEF s, q, t, n, m, i, j, a, b
<1> DEFINE l == n + (m - j)
           p == i - 1 + j
<1>6. /\ IsText(a) /\ Len(a) = l
      /\ \A k \in 1 .. l : a[k] = IF k <= p THEN s[k]
                                  ELSE IF k <= i - 1 + m THEN t[k - (i - 1)] ELSE s[k - (m - j)]
  <2> DEFINE r == m - j
  <2>1. l \in Nat
    BY <1>2, <1>3
  <2>2. a = FilledTo(s, t, i, p, m, r, l)
    BY <1>4 DEF Filled, n, m
  <2> HIDE DEF l, p, r
  <2>3. /\ IsText(a) /\ Len(a) = l
        /\ \A k \in 1 .. l : a[k] = IF k <= p THEN s[k]
                                    ELSE IF k <= i - 1 + m THEN t[k - (i - 1)] ELSE s[k - r]
    BY <2>1, <2>2, FilledFacts
  <2> QED BY <2>3 DEF r
<1>7. /\ IsText(b) /\ Len(b) = l
      /\ \A k \in 1 .. l : b[k] = IF k <= p + 1 THEN q[k]
                                  ELSE IF k <= i - 1 + m THEN t[k - (i - 1)] ELSE q[k - (m - j - 1)]
  <2> DEFINE r == m - j - 1
             c == p + 1
  <2>1. l \in Nat /\ c = i - 1 + (j + 1) /\ l = Len(q) + (m - (j + 1)) /\ r = m - (j + 1)
    BY <1>2, <1>3
  <2> HIDE DEF l, r, c
  <2>2. b = FilledTo(q, t, i, c, m, r, l)
    BY <1>4, <2>1, Zenon DEF Filled, m
  <2>3. /\ IsText(b) /\ Len(b) = l
        /\ \A k \in 1 .. l : b[k] = IF k <= c THEN q[k]
                                    ELSE IF k <= i - 1 + m THEN t[k - (i - 1)] ELSE q[k - r]
    BY <2>1, <2>2, FilledFacts
  <2> QED BY <2>3 DEF r, c
<1>8. ASSUME NEW k \in 1 .. l PROVE a[k] = b[k]
  <2>1. CASE k <= p
    <3>1. k \in 1 .. p /\ k <= p + 1
      BY <1>2, <1>3, <1>5, <2>1
    <3> QED BY <1>2, <1>5, <1>6, <1>7, <2>1, <3>1
  <2>2. CASE k = p + 1
    <3>1. ~(k <= p) /\ k <= i - 1 + m /\ k - (i - 1) = j + 1
      BY <1>2, <1>3, <1>5, <2>2
    <3>2. a[k] = t[j + 1]
      BY <1>6, <3>1
    <3>3. b[k] = q[p + 1]
      BY <1>7, <2>2
    <3> QED BY <1>2, <1>5, <3>2, <3>3
  <2>3. CASE k > p + 1 /\ k <= i - 1 + m
    <3>1. ~(k <= p) /\ ~(k <= p + 1)
      BY <1>2, <1>3, <1>5, <2>3
    <3> QED BY <1>6, <1>7, <2>3, <3>1
  <2>4. CASE k > p + 1 /\ ~(k <= i - 1 + m)
    <3>1. ~(k <= p) /\ ~(k <= p + 1) /\ k - (m - j) \in p + 1 .. n
          /\ (k - (m - j)) + 1 = k - (m - j - 1)
      BY <1>2, <1>3, <1>5, <2>4
    <3>2. a[k] = s[k - (m - j)] /\ b[k] = q[k - (m - j - 1)]
      BY <1>6, <1>7, <2>4, <3>1
    <3> QED BY <1>2, <1>5, <3>1, <3>2
  <2>5. k <= p \/ k = p + 1 \/ k > p + 1
    BY <1>2, <1>3, <1>5
  <2> QED BY <2>1, <2>2, <2>3, <2>4, <2>5
<1> HIDE DEF l
<1>9. a = b
  BY <1>6, <1>7, <1>8, SameText
<1> QED BY <1>9 DEF a, b

(* ... and when all are in, nothing is.                                    *)
LEMMA IncludedAwaitsNothing ==
  ASSUME LexInv, ScanInv, Sound, Included
  PROVE  Awaited = tokens.items
<1> DEFINE s == tokens.items
           t == newtoks.items
           n == Len(s)
           m == Len(t)
           i == index
           j == inserted
           p == i - 1 + j
           a == Awaited
<1>1. /\ IsText(s) /\ n \in Nat /\ i \in Nat \ {0} /\ j \in 0 .. m /\ ~(j < m)
  BY DEF ScanInv, ScanShape, AtInsert, Included, More, IsText
<1>2. a = Filled(s, t, i, j)
  BY DEF Awaited
<1>3. m \in Nat
  <2>1. PICK f \in DOMAIN files : t = alone.files[f]
    BY DEF ScanInv, ScanShape, AtInsert, Included
  <2>2. IsText(alone.files[f])
    BY AloneFacts DEF LexInv, ScanInv
  <2> QED BY <2>1, <2>2 DEF IsText
<1> HIDE DEF s, t, i, j, a
<1>4. j = m
  BY <1>1, <1>3
<1> HIDE DEF p
<1>5. /\ IsText(a) /\ Len(a) = n
      /\ \A k \in 1 .. n : a[k] = IF k <= p THEN s[k]
                                  ELSE IF k <= i - 1 + m THEN t[k - (i - 1)] ELSE s[k - 0]
  <2> DEFINE r == 0
  <2>1. p = i - 1 + j /\ r = m - j /\ n = Len(s) + (m - j)
    BY <1>1, <1>3, <1>4 DEF p
  <2> HIDE DEF r, n
  <2>2. a = FilledTo(s, t, i, p, m, r, n)
    BY <1>2, <2>1, Zenon DEF Filled
  <2> HIDE DEF m
  <2>3. /\ IsText(a) /\ Len(a) = n
        /\ \A k \in 1 .. n : a[k] = IF k <= p THEN s[k]
                                    ELSE IF k <= i - 1 + m THEN t[k - (i - 1)] ELSE s[k - r]
    BY <1>1, <2>2, FilledFacts
  <2> QED BY <2>3 DEF r
<1>6. \A k \in 1 .. n : a[k] = s[k]
  <2>1. p = i - 1 + m
    BY <1>4 DEF p
  <2>2. \A k \in 1 .. n : k - 0 = k
    BY <1>1
  <2> QED BY <1>5, <2>1, <2>2
<1>7. a = s
  BY <1>1, <1>5, <1>6, SameText
<1> QED BY <1>7 DEF a, s

(* Taking an include out for what its file stands for changes nothing.     *)
LEMMA TakeOutKeepsProgram ==
  ASSUME LexInv, ScanInv, Sound, NoneErased', TakeOut, ListFits(FALSE),
         IsFiniteSet(DOMAIN files), Acyclic, EveryPathGiven
  PROVE  Expansion(Awaited') = Expansion(tokens.items)
<1> DEFINE f == NameIn(tokens.items[index + 1].value)
           of == Expansions[Cardinality(DOMAIN files)]
           v == Awaited'
           s == tokens.items
           t == newtoks.items
<1>1. /\ IncludesAt(s, index) /\ index \in 1 .. Len(s) /\ IsText(t)
      /\ t = alone.files[f] /\ f \in DOMAIN files
      /\ Splices(v, s, index, t)
  BY TakeOutSplices DEF IncludesAt
<1>2. IsText(s) /\ \A g \in DOMAIN files : IsText(alone.files[g])
  BY AloneFacts DEF LexInv, ScanInv, ScanShape
<1>3. AllClosed(FALSE)
  BY GivenIsClosed
<1>4. Closed(s, FALSE) /\ Closed(t, FALSE)
  <2>1. stage = "include"
    BY DEF TakeOut
  <2>2. Fits(s, FALSE)
    BY <1>3, <2>1 DEF ListFits
  <2> QED BY <1>1, <1>3, <2>2 DEF Fits, AllClosed
<1>5. AllTexts(of)
  <2>1. Cardinality(DOMAIN files) \in Nat
    BY FS_CardinalityType
  <2> QED BY <1>2, <2>1, LevelText DEF AllTexts
<1>6. of[f] = Expanded(t, of)
  BY <1>1, <1>2, LevelsSettle
<1>7. of[NameIn(s[index + 1].value)] = Expanded(t, of)
  BY <1>6
<1> HIDE DEF f, of, v, s, t
<1>8. Expanded(v, of) = Expanded(s, of)
  <2>1. IsText(s) /\ IsText(t) /\ IncludesAt(s, index) /\ index \in 1 .. Len(s) /\ Splices(v, s, index, t)
    BY <1>1, <1>2
  <2> QED BY <1>4, <1>5, <1>7, <2>1, SpliceStandsForTheSame
<1> QED BY <1>8 DEF Expansion, of, v, s

LEMMA ProgInvInit == Init => ProgInv
<1> SUFFICES ASSUME Init PROVE ProgInv
  OBVIOUS
<1>1. IsFiniteSet(DOMAIN files)
  BY InputsAssumption DEF Init
<1>2. stage = "lex"
  BY DEF Init
<1> QED BY <1>1, <1>2 DEF ProgInv, SameSoFar

LEMMA ProgInvNext ==
  LexInv /\ WholeInv /\ ScanInv /\ ListFits(FALSE) /\ ProgInv /\ [Next]_vars => ProgInv'
<1> SUFFICES ASSUME LexInv, WholeInv, ScanInv, ListFits(FALSE), ProgInv, [Next]_vars PROVE ProgInv'
  OBVIOUS
<1>1. UNCHANGED <<alone, files>>
  BY DEF Next, vars, Lex, Panic, Begin, Pass, Overrun, Fail, Open, TakeOut, Insert, Abort, Included, Finish
<1>2. IsFiniteSet(DOMAIN files) /\ IsFiniteSet(DOMAIN files)'
  BY <1>1 DEF ProgInv
<1> SUFFICES ASSUME Sound', Acyclic', EveryPathGiven' PROVE SameSoFar'
  BY <1>2 DEF ProgInv
<1>3. Sound /\ NoneErased'
  BY SoundBefore DEF Sound
<1>4. /\ Acyclic /\ EveryPathGiven
      /\ Expansion(alone.main)' = Expansion(alone.main)
      /\ Expansion(tokens.items)' = Expansion(tokens'.items)
      /\ Expansion(Awaited)' = Expansion(Awaited')
  BY <1>1, MeaningStays
<1>5. /\ stage \in {"scan", "include", "done"} => Expansion(tokens.items) = Expansion(alone.main)
      /\ stage = "insert" => Expansion(Awaited) = Expansion(alone.main)
  BY <1>3, <1>4 DEF ProgInv, SameSoFar
<1> SUFFICES /\ stage' \in {"scan", "include", "done"} => Expansion(tokens'.items) = Expansion(alone.main)
             /\ stage' = "insert" => Expansion(Awaited') = Expansion(alone.main)
  BY <1>4 DEF SameSoFar
<1>6. CASE Lex
  <2>1. stage \in {"lex", "include"} /\ UNCHANGED <<stage, tokens>>
    BY <1>6 DEF Lex, InLexer
  <2> QED BY <1>5, <2>1
<1>7. CASE Begin
  <2>1. stage' = "scan" /\ tokens'.items = alone.main
    BY <1>3, <1>7, BeginShape DEF Begin
  <2> QED BY <2>1
<1>8. CASE Pass \/ Open \/ Finish
  <2>1. stage = "scan" /\ stage' \in {"scan", "include", "done"} /\ UNCHANGED tokens
    BY <1>8 DEF Pass, Open, Finish
  <2> QED BY <1>5, <2>1
<1>9. CASE TakeOut
  <2>1. stage = "include" /\ stage' = "insert"
    BY <1>9 DEF TakeOut
  <2>2. Expansion(Awaited') = Expansion(tokens.items)
    BY <1>2, <1>3, <1>4, <1>9, TakeOutKeepsProgram
  <2> QED BY <1>5, <2>1, <2>2
<1>10. CASE Insert
  <2>1. stage = "insert" /\ stage' = "insert"
    BY <1>10 DEF Insert, More
  <2>2. Awaited' = Awaited
    BY <1>3, <1>10, InsertKeepsAwaited
  <2> QED BY <1>5, <2>1, <2>2
<1>11. CASE Included
  <2>1. stage = "insert" /\ stage' = "scan" /\ UNCHANGED tokens
    BY <1>11 DEF Included
  <2>2. Awaited = tokens.items
    BY <1>3, <1>11, IncludedAwaitsNothing
  <2> QED BY <1>5, <2>1, <2>2
<1>12. CASE Panic \/ Overrun \/ Fail \/ Abort
  <2>1. stage' \in {"panicked", "crashed", "failed", "aborted"}
    BY <1>12 DEF Panic, Overrun, Fail, Abort
  <2> QED BY <2>1
<1>13. CASE UNCHANGED vars
  <2>1. UNCHANGED <<stage, tokens, newtoks, index, inserted>>
    BY <1>13 DEF vars, lexing
  <2>2. Awaited' = Awaited
    BY <2>1 DEF Awaited
  <2> QED BY <1>5, <2>1, <2>2
<1> QED BY <1>6, <1>7, <1>8, <1>9, <1>10, <1>11, <1>12, <1>13 DEF Next

(* However the list and the index shift, the list stands for the same      *)
(* program as the tokens of the main file: no token is lost, doubled or    *)
(* moved by an include (preprocess.c:48-58), whatever files include each   *)
(* other, if none includes itself and every include is given its path in   *)
(* its own file: for both lists, until a resize has erased a token.        *)
THEOREM SameProgramAlways == Spec => []SameProgram
<1> DEFINE Inv == LexInv /\ WholeInv /\ ScanInv /\ ListFits(FALSE) /\ ProgInv
<1>1. Init => Inv
  BY LexInvInit, WholeInvInit, ScanInvInit, ListFitsInit, ProgInvInit
<1>2. Inv /\ [Next]_vars => Inv'
  BY LexInvNext, WholeInvNext, ScanInvNext, ListFitsNext, ProgInvNext
<1>3. Inv => SameProgram
  BY DEF ProgInv, SameSoFar, SameProgram
<1> QED BY <1>1, <1>2, <1>3, PTL DEF Spec

=============================================================================
