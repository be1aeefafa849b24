----------------------------- MODULE Tokenizer -----------------------------
(***************************************************************************)
(* src/tokenize.ts: the scanner nextToken, the token stream that calls it, *)
(* and the helpers of src/util.ts that read quoted text and numbers.       *)
(*                                                                         *)
(* A source is a sequence of characters, written as strings: itself, or    *)
(* its name: DQ and BT are the double quote and the backtick.  Characters  *)
(* outside the classes below are illegal, as aiClass has them.             *)
(***************************************************************************)
EXTENDS Integers, Sequences, FiniteSets, SequencesExt, Keywords

CONSTANT
  Inputs (* what tokenize is called with: [source, emitTrivia, digitSep, flags] *)

(* EOI is not a character. *)
ASSUME InputsAssumption ==
  Inputs \subseteq [source : Seq(STRING \ {"EOI"}), emitTrivia : BOOLEAN,
                    digitSep : STRING \ {"EOI"}, flags : SUBSET DOMAIN maskFlags]

VARIABLES
  input,
  cursor,  (* offset, line and col of the TokenStreamImpl                   *)
  emitted, (* the tokens next has returned                                  *)
  done     (* whether it has returned DONE                                  *)

streamVars == <<input, cursor, emitted, done>>
-----------------------------------------------------------------------------
(* Characters.  EOI stands for undefined, past the end. *)

Upper == {"A", "B", "C", "D", "E", "F", "G", "H", "I", "J", "K", "L", "M",
          "N", "O", "P", "Q", "R", "S", "T", "U", "V", "W", "X", "Y", "Z"}
LowerOf == [
  A |-> "a", B |-> "b", C |-> "c", D |-> "d", E |-> "e", F |-> "f", G |-> "g", H |-> "h",
  I |-> "i", J |-> "j", K |-> "k", L |-> "l", M |-> "m", N |-> "n", O |-> "o", P |-> "p",
  Q |-> "q", R |-> "r", S |-> "s", T |-> "t", U |-> "u", V |-> "v", W |-> "w", X |-> "x",
  Y |-> "y", Z |-> "z"]
Lower == {LowerOf[c] : c \in Upper}
Letters == Upper \cup Lower
Digits  == {"0", "1", "2", "3", "4", "5", "6", "7", "8", "9"}
XDigits == Digits \cup {"A", "B", "C", "D", "E", "F", "a", "b", "c", "d", "e", "f"}
HighChars == {"HI", "EF", "BB", "BF"}  (* from 0x80 on; 0xef 0xbb 0xbf is a BOM *)
IdChars == Letters \cup Digits \cup HighChars \cup {"_", "$"}

(* isSpace knows the vertical tab, aiClass does not. *)
SpaceClass == {" ", "TAB", "LF", "FF", "CR"}
Space == SpaceClass \cup {"VT"}

OperatorChars == {"(", ")", ";", "+", "*", "%", ",", "&", "~", "=", "<", ">", "!", "|"}
Singles == [c \in OperatorChars |->
  CASE c = "(" -> "LP"     [] c = ")" -> "RP"     [] c = ";" -> "SEMI" [] c = "+" -> "PLUS"
    [] c = "*" -> "STAR"   [] c = "%" -> "REM"    [] c = "," -> "COMMA" [] c = "&" -> "BITAND"
    [] c = "~" -> "BITNOT" [] c = "=" -> "EQ"     [] c = "<" -> "LT"   [] c = ">" -> "GT"
    [] c = "!" -> "ILLEGAL" [] c = "|" -> "BITOR"]
Pairs == {<<"=", "=", "EQ">>, <<"<", "=", "LE">>, <<"<", ">", "NE">>, <<"<", "<", "LSHIFT">>,
          <<">", "=", "GE">>, <<">", ">", "RSHIFT">>, <<"!", "=", "NE">>, <<"|", "|", "CONCAT">>}

KeywordChars == Letters \cup {"_"}  (* those of class X, KYWD0 or KYWD *)
KywdChars == {"y", "Y", "z", "Z", "_"}

aiClass(c) ==
  CASE c \in {"x", "X"}                                -> "X"
    [] c \in KywdChars                                 -> "KYWD"
    [] c \in Letters \ (KywdChars \cup {"x", "X"})     -> "KYWD0"
    [] c \in Digits                                    -> "DIGIT"
    [] c \in SpaceClass                                -> "SPACE"
    [] c \in {"'", "DQ", "BT"}                         -> "QUOTE"
    [] c = "["                                         -> "QUOTE2"
    [] c \in {"@", "#", ":"}                           -> "VARALPHA"
    [] c \in OperatorChars                             -> "OPERATOR"
    [] c = "$"                                         -> "DOLLAR"
    [] c = "?"                                         -> "VARNUM"
    [] c = "-"                                         -> "MINUS"
    [] c = "/"                                         -> "SLASH"
    [] c = "."                                         -> "DOT"
    [] c = "EF"                                        -> "BOM"
    [] c \in HighChars \ {"EF"}                        -> "ID"
    [] c \in {"NUL", "EOI"}                            -> "NUL"
    [] OTHER                                           -> "ILLEGAL"

Ch(z, i) == IF i < Len(z) THEN z[i + 1] ELSE "EOI"
classAt(z, i) == aiClass(Ch(z, i))

(* The loops of the scanner: the first character from i on that is none of *)
(* chars, or one of them.                                                  *)
Past(z, i, chars) ==
  CHOOSE j \in i .. i + Len(z) : Ch(z, j) \notin chars /\ \A k \in i .. j - 1 : Ch(z, k) \in chars
Find(z, i, chars) ==
  CHOOSE j \in i .. i + Len(z) : /\ Ch(z, j) \in chars \cup {"EOI"}
                                 /\ \A k \in i .. j - 1 : Ch(z, k) \notin chars \cup {"EOI"}
-----------------------------------------------------------------------------
(* nextToken: the type of the token at p, and where it ends *)

T(type, end) == [type |-> type, end |-> end]

Slash(z, p) ==
  LET star(i) == Ch(z, i - 1) = "*" /\ Ch(z, i) = "/"
      closes  == {i \in p + 3 .. Len(z) - 1 : star(i)}
  IN  IF Ch(z, p + 1) # "*" \/ Ch(z, p + 2) = "EOI" THEN T("SLASH", p + 1)
      ELSE IF closes = {} THEN T("COMMENT", Len(z))
      ELSE T("COMMENT", 1 + CHOOSE i \in closes : \A j \in closes : i <= j)

Minus(z, p) ==
  CASE Ch(z, p + 1) = "-" -> T("COMMENT", Find(z, p + 2, {"LF"}))
    [] Ch(z, p + 1) = ">" -> T("PTR", IF Ch(z, p + 2) = ">" THEN p + 3 ELSE p + 2)
    [] OTHER              -> T("MINUS", p + 1)

OperatorAt(z, p) ==
  LET pairs == {pair \in Pairs : pair[1] = Ch(z, p) /\ pair[2] = Ch(z, p + 1)}
  IN  IF pairs = {} THEN T(Singles[Ch(z, p)], p + 1)
      ELSE T((CHOOSE pair \in pairs : TRUE)[3], p + 2)

Quoted(z, p) ==
  LET close[i \in Nat] ==
        LET next == Find(z, i, {Ch(z, p)})
        IN  IF Ch(z, next) # "EOI" /\ Ch(z, next + 1) = Ch(z, p) THEN close[next + 2] ELSE next
      end == close[p + 1]
  IN  CASE Ch(z, end) = "EOI" -> T("ILLEGAL", end)
        [] Ch(z, end) = "'"   -> T("STRING", end + 1)
        [] OTHER              -> T("ID", end + 1)

Bracketed(z, p) ==
  LET close == Find(z, p + 1, {"]"})
  IN  IF Ch(z, close) = "EOI" THEN T("ILLEGAL", close) ELSE T("ID", close + 1)

(* $name, @name, #name or :name, with :: in it and $name(...) at its end *)
Variable(z, p) ==
  LET nameEnd[i \in Nat] ==
        IF Ch(z, i) \in IdChars THEN nameEnd[i + 1]
        ELSE IF Ch(z, i) = ":" /\ Ch(z, i + 1) = ":" THEN nameEnd[i + 2]
        ELSE i
      end   == nameEnd[p + 1]
      stop  == Find(z, end + 1, Space \cup {")"})
      named == \E i \in p + 1 .. end - 1 : Ch(z, i) \in IdChars
  IN  CASE ~named                                              -> T("ILLEGAL", end)
        [] named /\ Ch(z, end) # "("                           -> T("VARIABLE", end)
        [] named /\ Ch(z, end) = "(" /\ Ch(z, stop) # ")" -> T("ILLEGAL", stop)
        [] named /\ Ch(z, end) = "(" /\ Ch(z, stop) = ")" -> T("VARIABLE", stop + 1)

Identifier(z, p) == T("ID", Past(z, p + 1, IdChars))

Blob_ParityOfEnd(z, p) ==
  LET digits == Past(z, p + 2, XDigits)
      quote  == Find(z, digits, {"'"})
      end    == IF Ch(z, quote) = "EOI" THEN quote ELSE quote + 1
  IN  T(IF quote = digits /\ Ch(z, quote) = "'" /\ digits % 2 = 0 THEN "BLOB" ELSE "ILLEGAL", end)
Blob(z, p) ==
  LET digits == Past(z, p + 2, XDigits)
      quote  == Find(z, digits, {"'"})
      end    == IF Ch(z, quote) = "EOI" THEN quote ELSE quote + 1
  IN  T(IF quote = digits /\ Ch(z, quote) = "'" /\ (digits - p - 2) % 2 = 0
        THEN "BLOB" ELSE "ILLEGAL", end)

(* The parts of a number, and where each of them ends. *)
SepSet(sep)    == IF sep = "" THEN {} ELSE {sep}
IsHex(z, p)    == Ch(z, p) = "0" /\ Ch(z, p + 1) \in {"x", "X"} /\ Ch(z, p + 2) \in XDigits
DigitsOf(z, p) == IF IsHex(z, p) THEN XDigits ELSE Digits
StartOf(z, p)  == IF IsHex(z, p) THEN p + 3 ELSE p
WholeTo(z, p, sep) ==
  IF Ch(z, p) = "." THEN p ELSE Past(z, StartOf(z, p), DigitsOf(z, p) \cup SepSet(sep))
FractionFrom(z, p, sep, whole) ==
  IF ~IsHex(z, p) /\ Ch(z, whole) = "." THEN Past(z, whole + 1, Digits \cup SepSet(sep)) ELSE whole
PowerAt(z, p, i) ==
  /\ ~IsHex(z, p) /\ Ch(z, i) \in {"e", "E"}
  /\ \/ Ch(z, i + 1) \in Digits
     \/ Ch(z, i + 1) \in {"+", "-"} /\ Ch(z, i + 2) \in Digits
PowerFrom(z, p, sep, fraction) ==
  IF PowerAt(z, p, fraction) THEN Past(z, fraction + 2, Digits \cup SepSet(sep)) ELSE fraction
QuotedIn(z, p, sep, from, to) == \E i \in from .. to - 1 : Ch(z, i) \in SepSet(sep) \ DigitsOf(z, p)

scanNumber(z, p, sep) ==
  LET whole    == WholeTo(z, p, sep)
      fraction == FractionFrom(z, p, sep, whole)
      number   == PowerFrom(z, p, sep, fraction)
      end      == Past(z, number, IdChars)
  IN  T(IF end > number THEN "ILLEGAL"
        ELSE IF \/ QuotedIn(z, p, sep, StartOf(z, p), whole)
                \/ QuotedIn(z, p, sep, whole + 1, fraction)
                \/ QuotedIn(z, p, sep, fraction + 2, number)
        THEN "QNUMBER"
        ELSE IF number > whole THEN "FLOAT" ELSE "INTEGER", end)

(* Keywords are found by name in any case, those without an enabled flag   *)
(* are none; ALWAYS is enabled always.                                     *)
Enabled(keyword, flags) ==
  \E flag \in flags \cup {"ALWAYS"} : (keyword.mask \div maskFlags[flag]) % 2 = 1
UpperOf(c) == IF c \in Lower THEN CHOOSE u \in Upper : LowerOf[u] = c ELSE c
Word(chars) == FoldLeft(LAMBDA word, c : word \o c, "", chars)
InUpper(chars) == [i \in DOMAIN chars |-> UpperOf(chars[i])]

(* The token of the first keyword that has the name. *)
KeywordNamed_AnyFlags(word, flags) ==
  LET found == {i \in DOMAIN keywords : keywords[i].name = word}
  IN  IF found = {} THEN "ID" ELSE keywords[CHOOSE i \in found : \A j \in found : i <= j].token
KeywordNamed(word, flags) ==
  LET found == {i \in DOMAIN keywords : keywords[i].name = word /\ Enabled(keywords[i], flags)}
  IN  IF found = {} THEN "ID" ELSE keywords[CHOOSE i \in found : \A j \in found : i <= j].token
finishKeyword(z, p, end, flags) ==
  T(IF end - p >= 2 THEN KeywordNamed(Word(InUpper(SubSeq(z, p + 1, end))), flags) ELSE "ID", end)

KeywordOrId(z, p, flags) ==
  LET end == Past(z, p + 1, KeywordChars)
  IN  IF Ch(z, end) \in IdChars THEN T("ID", Past(z, end, IdChars))
      ELSE finishKeyword(z, p, end, flags)

Illegal(p) == T("ILLEGAL", p + 1)

nextToken(z, p, sep, flags) ==
  LET class == classAt(z, p)
  IN  CASE class = "SPACE"    -> T("SPACE", Past(z, p + 1, Space))
        [] class = "MINUS"    -> Minus(z, p)
        [] class = "SLASH"    -> Slash(z, p)
        [] class = "OPERATOR" -> OperatorAt(z, p)
        [] class = "QUOTE"    -> Quoted(z, p)
        [] class = "QUOTE2"   -> Bracketed(z, p)
        [] class = "DOT" /\ Ch(z, p + 1) \notin Digits -> T("DOT", p + 1)
        [] class = "DIGIT" \/ (class = "DOT" /\ Ch(z, p + 1) \in Digits) -> scanNumber(z, p, sep)
        [] class = "VARNUM"   -> T("VARIABLE", Past(z, p + 1, Digits))
        [] class \in {"DOLLAR", "VARALPHA"} -> Variable(z, p)
        [] class = "KYWD0"    -> KeywordOrId(z, p, flags)
        [] class = "X" /\ Ch(z, p + 1) = "'" -> Blob(z, p)
        [] class = "BOM" /\ Ch(z, p + 1) = "BB" /\ Ch(z, p + 2) = "BF" -> T("SPACE", p + 3)
        [] class \in {"KYWD", "ID"} \/ (class = "X" /\ Ch(z, p + 1) # "'")
             \/ (class = "BOM" /\ (Ch(z, p + 1) # "BB" \/ Ch(z, p + 2) # "BF")) -> Identifier(z, p)
        [] class = "NUL"      -> T("ILLEGAL", p)
        [] class = "ILLEGAL"  -> Illegal(p)
-----------------------------------------------------------------------------
(* TokenStreamImpl *)

Start == [offset |-> 0, line |-> 1, col |-> 0]
Cursor == [offset : Nat, line : Nat, col : Nat]
Scan(sql, p) == nextToken(sql.source, p, sql.digitSep, sql.flags)

(* The cursor after the characters up to end. *)
Advance_OncePerToken(z, from, end) ==
  LET breaks == {i \in from.offset .. end - 1 : Ch(z, i) = "LF"}
  IN  IF breaks = {} THEN [from EXCEPT !.offset = end, !.col = @ + end - from.offset]
      ELSE [offset |-> end, line |-> from.line + 1,
            col |-> end - 1 - CHOOSE i \in breaks : \A j \in breaks : j <= i]
Advance(z, from, end) ==
  LET breaks == {i \in from.offset .. end - 1 : Ch(z, i) = "LF"}
  IN  IF breaks = {} THEN [from EXCEPT !.offset = end, !.col = @ + end - from.offset]
      ELSE [offset |-> end, line |-> from.line + Cardinality(breaks),
            col |-> end - 1 - CHOOSE i \in breaks : \A j \in breaks : j <= i]

Trivia == {"SPACE", "COMMENT"}

(* From where the next token is returned, or where the loop ends. *)
SkipTrivia_IllegalToo(sql, from) ==
  LET skip[at \in Cursor] ==
        IF /\ at.offset < Len(sql.source) /\ ~sql.emitTrivia
           /\ Scan(sql, at.offset).type \in Trivia \cup {"ILLEGAL"}
           /\ Scan(sql, at.offset).end # at.offset
        THEN skip[Advance(sql.source, at, Scan(sql, at.offset).end)]
        ELSE at
  IN  skip[from]
SkipTrivia(sql, from) ==
  LET skip[at \in Cursor] ==
        IF /\ at.offset < Len(sql.source) /\ ~sql.emitTrivia
           /\ Scan(sql, at.offset).type \in Trivia
        THEN skip[Advance(sql.source, at, Scan(sql, at.offset).end)]
        ELSE at
  IN  skip[from]

StreamInit ==
  /\ input \in Inputs
  /\ cursor = Start
  /\ emitted = <<>>
  /\ done = FALSE

NextToken ==
  LET at    == SkipTrivia(input, cursor)
      token == Scan(input, at.offset)
  IN  /\ ~done
      /\ at.offset < Len(input.source)
      /\ token.end # at.offset
      /\ cursor' = Advance(input.source, at, token.end)
      /\ emitted' = Append(emitted,
           [type |-> token.type, text |-> SubSeq(input.source, at.offset + 1, token.end),
            span |-> [offset |-> at.offset, length |-> token.end - at.offset,
                      line |-> at.line, col |-> at.col]])
      /\ UNCHANGED <<input, done>>

(* The end of the source, or a NUL in it *)
NextDone ==
  LET at == SkipTrivia(input, cursor)
  IN  /\ ~done
      /\ at.offset >= Len(input.source) \/ Scan(input, at.offset).end = at.offset
      /\ cursor' = at
      /\ done' = TRUE
      /\ UNCHANGED <<input, emitted>>

StreamNext == NextToken \/ NextDone

StreamSpec == StreamInit /\ [][StreamNext]_streamVars
-----------------------------------------------------------------------------
(* src/util.ts *)

sqlite3Dequote_KeepsPairs(z) ==
  LET close == IF z[1] = "[" THEN "]" ELSE z[1]
      body[i \in Nat] ==
        CASE i > Len(z) \/ (z[i] = close /\ Ch(z, i) # close) -> <<>>
          [] i <= Len(z) /\ z[i] = close /\ Ch(z, i) = close -> <<close, close>> \o body[i + 2]
          [] OTHER -> <<z[i]>> \o body[i + 1]
  IN  IF Ch(z, 0) \notin {"'", "DQ", "BT", "["} THEN z ELSE body[2]
sqlite3Dequote(z) ==
  LET close == IF z[1] = "[" THEN "]" ELSE z[1]
      body[i \in Nat] ==
        CASE i > Len(z) \/ (z[i] = close /\ Ch(z, i) # close) -> <<>>
          [] i <= Len(z) /\ z[i] = close /\ Ch(z, i) = close -> <<close>> \o body[i + 2]
          [] OTHER -> <<z[i]>> \o body[i + 1]
  IN  IF Ch(z, 0) \notin {"'", "DQ", "BT", "["} THEN z ELSE body[2]

sqlite3DequoteNumber_PowerIsInteger(z, sep) ==
  LET isHex  == z[1] = "0" /\ Ch(z, 1) \in {"x", "X"}
      digits == IF isHex THEN XDigits ELSE Digits
  IN  [op    |-> IF ~isHex /\ "." \in ToSet(z) THEN "FLOAT" ELSE "INTEGER",
       text  |-> SelectSeq(z, LAMBDA c : c # sep),
       error |-> \E i \in DOMAIN z : z[i] = sep /\ (i = 1 \/ {z[i - 1], Ch(z, i)} \ digits # {})]
sqlite3DequoteNumber(z, sep) ==
  LET isHex  == z[1] = "0" /\ Ch(z, 1) \in {"x", "X"}
      digits == IF isHex THEN XDigits ELSE Digits
  IN  [op    |-> IF ~isHex /\ ToSet(z) \cap {"e", "E", "."} # {} THEN "FLOAT" ELSE "INTEGER",
       text  |-> SelectSeq(z, LAMBDA c : c # sep),
       error |-> \E i \in DOMAIN z : z[i] = sep /\ (i = 1 \/ {z[i - 1], Ch(z, i)} \ digits # {})]

sqlite3HexToInt(digit) ==
  LET hex == <<"0", "1", "2", "3", "4", "5", "6", "7", "8", "9", "A", "B", "C", "D", "E", "F">>
  IN  CHOOSE n \in 0 .. 15 : hex[n + 1] = UpperOf(digit)
sqlite3HexToBlob(z) ==
  LET hex == SubSeq(z, 3, Len(z) - 1)
      nibble(i) == sqlite3HexToInt(hex[i])
  IN  IF z[1] \notin {"x", "X"} \/ Ch(z, 1) # "'" \/ z[Len(z)] # "'" \/ Len(hex) % 2 # 0
      THEN [error |-> TRUE]
      ELSE [error |-> FALSE,
            bytes |-> [i \in 1 .. Len(hex) \div 2 |-> 16 * nibble(2 * i - 1) + nibble(2 * i)]]
-----------------------------------------------------------------------------
(* Properties *)

OnlyTrivia(sql, from, to) ==
  LET only[p \in 0 .. to] ==
        IF p # to /\ Scan(sql, p).type \in Trivia /\ Scan(sql, p).end \in p + 1 .. to
        THEN only[Scan(sql, p).end]
        ELSE p = to
  IN  from \in 0 .. to /\ only[from]

OnlyNulStops ==
  done /\ cursor.offset < Len(input.source) => Ch(input.source, cursor.offset) = "NUL"

(* The tokens tile the source up to the cursor: each starts where the one  *)
(* before it ends, but for whole trivia tokens that were not asked for, so *)
(* that nothing else of the source can get lost between two tokens; and    *)
(* the stream ends before the end of the source only at a NUL that no      *)
(* token before it has swallowed.                                          *)
TokensTile ==
  LET end(i) == IF i = 0 THEN 0 ELSE emitted[i].span.offset + emitted[i].span.length
      next(i) == IF i = Len(emitted) THEN cursor.offset ELSE emitted[i + 1].span.offset
  IN  /\ \A i \in 0 .. Len(emitted) :
           IF input.emitTrivia THEN end(i) = next(i) ELSE OnlyTrivia(input, end(i), next(i))
      /\ OnlyNulStops

LineColAt(z, offset) ==
  LET breaks == {i \in 0 .. offset - 1 : Ch(z, i) = "LF"}
  IN  [offset |-> offset, line |-> 1 + Cardinality(breaks),
       col |-> IF breaks = {} THEN offset
               ELSE offset - 1 - CHOOSE i \in breaks : \A j \in breaks : j <= i]

(* The line and column kept along the way are those of the offset: lines   *)
(* are counted through skipped comments and multi-line tokens as well.     *)
CursorLocated ==
  /\ cursor = LineColAt(input.source, cursor.offset)
  /\ \A i \in DOMAIN emitted :
       LET span == emitted[i].span
       IN  [offset |-> span.offset, line |-> span.line, col |-> span.col] =
             LineColAt(input.source, span.offset)

(* A token does not depend on what is around it: its text alone scans to   *)
(* it, so text cut out of a source by spans stays what it was, and to look *)
(* ahead of a token never reaches into the next one.                       *)
TokenStandsAlone ==
  \A i \in DOMAIN emitted :
    nextToken(emitted[i].text, 0, input.digitSep, input.flags) =
      T(emitted[i].type, emitted[i].span.length)

QuotesPaired ==
  \A i \in DOMAIN emitted :
    LET text   == emitted[i].text
        quotes == Cardinality({j \in DOMAIN text : text[j] = text[1]})
    IN  text[1] \in {"'", "DQ", "BT"} =>
          /\ (quotes % 2 = 0) <=> (emitted[i].type # "ILLEGAL")
          /\ Ch(input.source, emitted[i].span.offset + Len(text)) # text[1]

SwapCase(z) ==
  [i \in DOMAIN z |-> IF z[i] \in Upper THEN LowerOf[z[i]] ELSE UpperOf(z[i])]

(* Letters of either case scan alike: keywords, hexadecimals, exponents    *)
(* and blobs have the same type and length in any spelling.                *)
CaseInsensitive ==
  \A i \in DOMAIN emitted :
    nextToken(SwapCase(input.source), emitted[i].span.offset, input.digitSep, input.flags) =
      Scan(input, emitted[i].span.offset)

KeywordTypes == {keywords[k].token : k \in DOMAIN keywords}

(* A word, to its end, has the type of the keyword that the table has for  *)
(* it, in any case, if a flag of that is enabled, and otherwise is a name: *)
(* no class of a first or a later character keeps a keyword from the       *)
(* lookup. Nothing else has the type of a keyword.                         *)
KeywordsAsListed ==
  \A i \in DOMAIN emitted :
    LET type   == emitted[i].type
        next   == Ch(input.source, emitted[i].span.offset + emitted[i].span.length)
        word   == Word(InUpper(emitted[i].text))
        listed == {k \in DOMAIN keywords : keywords[k].name = word}
        tokens == {keywords[k].token : k \in {k \in listed : Enabled(keywords[k], input.flags)}}
    IN  listed # {} \/ type \in KeywordTypes =>
          (type \in IF tokens = {} THEN {"ID"} ELSE tokens) /\ next \notin IdChars

(* How a word is spelled and what flags are set decide its type.           *)
WordsRead == CaseInsensitive /\ KeywordsAsListed

Requoted(body, quote) ==
  <<quote>> \o FlattenSeq([i \in DOMAIN body |->
                 IF body[i] = quote THEN <<quote, quote>> ELSE <<body[i]>>]) \o <<quote>>

(* Quoted text ends at the first quote that is not one of a pair, and is   *)
(* illegal without one.  src/util.ts undoes what the scanner lets through: *)
(* from what it returns for a string or a quoted name, doubling the quote  *)
(* and wrapping restores the text of the token; and the conversion of a    *)
(* blob never throws, and has a byte for every two digits of the token.    *)
DequoteInverts ==
  /\ QuotesPaired
  /\ \A i \in DOMAIN emitted :
       LET text == emitted[i].text
           blob == sqlite3HexToBlob(text)
       IN  /\ emitted[i].type \in {"STRING", "ID"} /\ text[1] \in {"'", "DQ", "BT"} =>
                Requoted(sqlite3Dequote(text), text[1]) = text
           /\ emitted[i].type = "BLOB" =>
                /\ ~blob.error
                /\ 2 * Len(blob.bytes) + 3 = Len(text)
                /\ ToSet(blob.bytes) \subseteq 0 .. 255

(* A number with separators in the right places is the number without      *)
(* them, and of the kind the scanner gives to that.                        *)
SeparatorsVanish ==
  \A i \in DOMAIN emitted :
    emitted[i].type = "QNUMBER" =>
      LET number == sqlite3DequoteNumber(emitted[i].text, input.digitSep)
      IN  number.error
            \/ nextToken(number.text, 0, "", input.flags) = T(number.op, Len(number.text))
=============================================================================
