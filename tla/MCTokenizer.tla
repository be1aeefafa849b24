---------------------------- MODULE MCTokenizer ----------------------------
(***************************************************************************)
(* Sources for model checking Tokenizer: every string of at most MaxLength *)
(* characters over each of some alphabets, longer ones over narrower ones, *)
(* and words that are or look like keywords.                               *)
(***************************************************************************)
EXTENDS TokenDiagnostics

CONSTANT MaxLength

AllFlags == DOMAIN maskFlags
Over(alphabet)   == UNION {[1 .. n -> alphabet] : n \in 0 .. MaxLength}
Longer(alphabet) == UNION {[1 .. n -> alphabet] : n \in MaxLength + 1 .. MaxLength + 6 - Cardinality(alphabet)}

Numbers   == {"0", "1", "x", "e", "F", ".", "+", "_"}
Quotes    == {"'", "DQ", "[", "]", "a", "X", "1", "LF"}
Comments  == {"-", "/", "*", ">", "LF", "a", " "}
Operators == {"<", ">", "=", "!", "|", "&", "VT"}
Variables == {"$", ":", "?", "(", ")", "a", "1", " "}
Strange   == {"NUL", "EF", "BB", "BF", "^", "'", "LF", ";"}

Input(source, emitTrivia, digitSep, flags) ==
  [source |-> source, emitTrivia |-> emitTrivia, digitSep |-> digitSep, flags |-> flags]

Letter(word, i) == SubSeq(word, i, i)
Spelled(word) ==
  LET upper == [i \in 1 .. Len(word) |-> Letter(word, i)]
  IN  {upper, SwapCase(upper),
       [i \in DOMAIN upper |-> IF i % 2 = 0 THEN upper[i] ELSE SwapCase(upper)[i]]}
Words == {keywords[i].name : i \in DOMAIN keywords}
           \cup {"SELECTS", "SELECT1", "I", "FIL", "OVER_", "ORDE", "X", "XOR", "YEAR", "A$"}

Wide   == {Quotes, Comments, Operators, Variables, Strange}
Narrow == {{"/", "*", "LF"}, {"-", ">", "LF"}, {"'", "1", "x"}, {"DQ", "a"}, {"[", "]", "a"},
           {"$", ":", "a"}, {"@", "a", "(", ")", " "}, {"EF", "BB", "BF"}, {"NUL", ";", "'"}}
NarrowNumbers == {{"1", "_", "e", "."}, {"0", "x", "F", "_"}, {"1", "e", "+", "."}}

MCInputs ==
  {Input(source, FALSE, "", AllFlags) :
     source \in UNION ({Over(a) : a \in Wide} \cup {Longer(a) : a \in Narrow})}
    \cup {Input(source, TRUE, "", AllFlags) : source \in Over(Comments)}
    \cup {Input(source, FALSE, digitSep, AllFlags) :
            source \in Over(Numbers) \cup UNION {Longer(a) : a \in NarrowNumbers},
            digitSep \in {"", "_"}}
    \cup {Input(source, FALSE, "", flags) :
            source \in UNION {Spelled(word) : word \in Words},
            flags \in {AllFlags, AllFlags \ {"WINDOWFUNC", "CTE", "ALWAYS"}}}
=============================================================================
