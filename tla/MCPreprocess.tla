---------------------------- MODULE MCPreprocess ----------------------------
(* i is the keyword include; every short text with no files beside it, and  *)
(* main files of up to three snippets beside the files h and k.             *)
EXTENDS Preprocess

TwoLetters == {"i", "h", "k"}
OneKeyword == [w \in {<<"i">>} |-> "INCLUDE"]

NoToken == [type |-> "TOKEN_NONE", value |-> <<>>]

Characters == {"i", "h", "0", "\"", "'", "/", "=", ";", Newline}
ShortTexts == UNION {[1 .. n -> Characters] : n \in 0 .. 4}

Word == <<"k", " ">>
Text == <<"\"", "0", "\"">>
Comment == <<"/", "/", Newline>>
Path(name) == <<"\"", name, "\"", Newline>>
Including(name) == <<"i", "\"", name, "\"", Newline>>
Snippets(snippets, n) == UNION {{FlattenSeq(s) : s \in [1 .. m -> snippets]} : m \in 0 .. n}

NoFiles == [n \in {} |-> <<>>]
LongTexts == Snippets({Word, Text, Path("k"), Including("h"), Including("k")}, 3)
Directories ==
  {[n \in {<<"h">>, <<"k">>} |-> IF n = <<"h">> THEN h ELSE k] :
     h \in Snippets({Word, Text, Including("k")}, 2) \union {Word \o Word \o Including("k"), Word \o Including("k") \o Text,
       Word \o Word \o <<"i">>},
     k \in Snippets({Word, Comment}, 2)}
  \union {[n \in {<<"h">>} |-> t] : t \in {Including("h"), Including("h") \o Word}}
MainFiles == [main : ShortTexts, files : {NoFiles}] \union [main : LongTexts, files : Directories]
=============================================================================
