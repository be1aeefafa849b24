------------------------- MODULE TokenDiagnostics -------------------------
(***************************************************************************)
(* What src/diagnostics.ts makes of one token of a source: the hint for an *)
(* illegal one, and the code block that cites it, without its gutter.      *)
(***************************************************************************)
EXTENDS Tokenizer

(* buildIllegalTokenDiagnostic judges an illegal token by its first        *)
(* character.                                                              *)
illegalTokenHint_QuoteAnywhere(text) ==
  CASE "'" \in ToSet(text)                -> "unterminated string literal"
    [] text[1] \in {"DQ", "BT", "["}      -> "unterminated quoted identifier"
    [] text[1] \in Digits \cup {"."}      -> "malformed numeric literal"
    [] OTHER                              -> "could not classify"
illegalTokenHint(text) ==
  CASE text[1] = "'"                      -> "unterminated string literal"
    [] text[1] \in {"DQ", "BT", "["}      -> "unterminated quoted identifier"
    [] text[1] \in Digits \cup {"."}      -> "malformed numeric literal"
    [] OTHER                              -> "could not classify"
-----------------------------------------------------------------------------
(* renderCodeBlock *)

Least(a, b) == IF a < b THEN a ELSE b
Greatest(a, b) == IF a < b THEN b ELSE a

Breaks(z) == {i \in DOMAIN z : z[i] = "LF"}

(* The line and column of an offset, counted on from those of a span that  *)
(* starts before it.                                                       *)
lineColAt_FromStart(z, offset, startAt) ==
  LET breaks == {i \in Breaks(z) : startAt.offset < i /\ i <= offset}
  IN  [line |-> startAt.line + Cardinality(breaks),
       col  |-> offset - startAt.offset]
lineColAt(z, offset, startAt) ==
  LET breaks == {i \in Breaks(z) : startAt.offset < i /\ i <= offset}
  IN  [line |-> startAt.line + Cardinality(breaks),
       col  |-> IF breaks = {} THEN startAt.col + Greatest(offset - startAt.offset, 0)
                ELSE offset - CHOOSE i \in breaks : \A j \in breaks : j <= i]

(* How many characters source.split("\n")[ln - 1] has. *)
LengthOfLine(z, ln) ==
  LET ends == Breaks(z) \cup {0, Len(z) + 1}
      nth(n) == CHOOSE i \in ends : Cardinality({j \in ends : j < i}) = n
  IN  nth(ln) - nth(ln - 1) - 1

(* The lines of the block, each with the columns that have a caret.        *)
renderCodeBlock(z, span, contextBefore, contextAfter) ==
  LET start    == Greatest(0, Least(span.offset, Len(z)))
      end      == Greatest(start, Least(span.offset + span.length, Len(z)))
      startLoc == IF span.offset = start THEN [line |-> span.line, col |-> span.col]
                  ELSE lineColAt(z, start, Start)
      endLoc   == lineColAt(z, end, span)
      carets(ln) ==
        LET startCol == IF ln = startLoc.line THEN startLoc.col ELSE 0
            endCol   == IF ln = endLoc.line THEN endLoc.col ELSE LengthOfLine(z, ln)
        IN  startCol .. startCol + Greatest(1, endCol - startCol) - 1
  IN  [ln \in Greatest(1, startLoc.line - contextBefore)
                .. Least(Cardinality(Breaks(z)) + 1, endLoc.line + contextAfter) |->
         IF ln \in startLoc.line .. endLoc.line THEN carets(ln) ELSE {}]
-----------------------------------------------------------------------------
(* Properties *)

(* What the hint for an illegal token says is so: with the missing quote   *)
(* put after it, it is a string or a name, and what is malformed starts    *)
(* with a number.                                                          *)
IllegalHintHolds ==
  \A i \in DOMAIN emitted :
    LET text == emitted[i].text
        is(z, types) == LET token == nextToken(z, 0, input.digitSep, input.flags)
                        IN  token.type \in types /\ token.end = Len(z)
        closed == Append(text, IF text[1] = "[" THEN "]" ELSE text[1])
    IN  emitted[i].type = "ILLEGAL" =>
          CASE illegalTokenHint(text) = "unterminated string literal" -> is(closed, {"STRING"})
            [] illegalTokenHint(text) = "unterminated quoted identifier" -> is(closed, {"ID"})
            [] illegalTokenHint(text) = "malformed numeric literal" ->
                 \E n \in 1 .. Len(text) - 1 :
                   is(SubSeq(text, 1, n), {"INTEGER", "FLOAT", "QNUMBER"})
            [] OTHER -> TRUE

(* The carets of the block that cites a token are under its characters and *)
(* nowhere else, but for one on each line it reaches with none of them;    *)
(* and the block is made of these lines and the context asked for.         *)
CaretsUnderToken ==
  \A i \in DOMAIN emitted, context \in {0, 1} :
    LET span  == emitted[i].span
        end   == span.offset + span.length
        block == renderCodeBlock(input.source, span, context, context)
        at(offset) == LineColAt(input.source, offset)
        under(ln) == {at(o).col : o \in {o \in span.offset .. end - 1 :
                                          at(o).line = ln /\ Ch(input.source, o) # "LF"}}
        last == Cardinality(Breaks(input.source)) + 1
    IN  /\ DOMAIN block = (span.line - context .. at(end).line + context) \cap 1 .. last
        /\ \A ln \in DOMAIN block :
             IF ln \notin span.line .. at(end).line THEN block[ln] = {}
             ELSE IF under(ln) # {} THEN block[ln] = under(ln)
             ELSE Cardinality(block[ln]) = 1
=============================================================================
