---------------------------- MODULE Diagnostics ----------------------------
(***************************************************************************)
(* src/diagnostics.ts: the hint that goes with a syntax error.             *)
(*                                                                         *)
(* runCore builds the diagnostic when it returns, from the failed session  *)
(* and from what it has noted of the tokens before the error.  None of it  *)
(* changes afterwards, so a hint is read off the state runCore returned    *)
(* in.  A hint is what its message says, wording and layout apart; a token *)
(* is listed by its type.                                                  *)
(***************************************************************************)
EXTENDS RunCore, ShippedTables, Keywords

tok == T_tokens

(* TOKEN_SPECS: what a token type can be to the hints *)
Values == {tok.TK_ID, tok.TK_STRING, tok.TK_INTEGER, tok.TK_FLOAT, tok.TK_QNUMBER, tok.TK_BLOB,
           tok.TK_VARIABLE, tok.TK_NULL, tok.TK_CURRENT, tok.TK_CTIME_KW}
Prefixes == {tok.TK_LP, tok.TK_STAR, tok.TK_PLUS, tok.TK_MINUS, tok.TK_BITNOT, tok.TK_CASE,
             tok.TK_CAST, tok.TK_EXISTS, tok.TK_NOT}
ExprStart == Values \cup Prefixes
ItemStart == ExprStart \cup {tok.TK_SELECT, tok.TK_VALUES}
ItemEnd   == Values \cup {tok.TK_RP, tok.TK_TRUEFALSE, tok.TK_END}
ClauseBoundary ==
  {tok.TK_VALUES, tok.TK_FROM, tok.TK_WHERE, tok.TK_GROUP, tok.TK_HAVING, tok.TK_WINDOW,
   tok.TK_ORDER, tok.TK_LIMIT, tok.TK_FILTER, tok.TK_OVER, tok.TK_JOIN, tok.TK_ON, tok.TK_USING,
   tok.TK_UNION, tok.TK_INTERSECT, tok.TK_EXCEPT, tok.TK_THEN, tok.TK_ELSE, tok.TK_WHEN,
   tok.TK_DO, tok.TK_SET, tok.TK_RETURNING}
TableNameContext == {tok.TK_FROM, tok.TK_JOIN, tok.TK_INTO, tok.TK_UPDATE}
Hidden == {tok.TK_SPACE, tok.TK_COMMENT, tok.TK_ILLEGAL}

(* and what the tables say of it *)
FallbackToId == {t \in 0 .. T_YYNTOKEN - 1 : t # tok.TK_ID /\ At(T_yyFallback, t) = tok.TK_ID}
KeywordLike ==
  LET names == {keywords[i].token : i \in DOMAIN keywords}
  IN  {t \in 0 .. T_YYNTOKEN - 1 : At(T_symbols, t) \in names}
        \ {tok.TK_ID, tok.TK_STRING, tok.TK_ILLEGAL}

isEndOfInput(token) == token.type = EOF \/ (token.type = SEMI /\ token.synthetic)
isClauseBoundary(token) == isEndOfInput(token) \/ token.type \in ClauseBoundary

(* A message falls short of naming its token when that has no text. *)
IsIncomplete(token) == token.span.length = 0

Noted(token, types) == token # None /\ token.type \in types
-----------------------------------------------------------------------------
(* collectExpected and what the list of expected tokens shows of them, of  *)
(* which a message has the first five *)

collectExpected_NextState(stateno) == At(T_yy_expected, stateno + 1) \ Hidden
collectExpected(stateno) == At(T_yy_expected, stateno) \ Hidden

Labels(expected) == {IF t \in FallbackToId THEN tok.TK_ID ELSE t : t \in expected}

expectedAcceptsIdentifier(expected) == expected \cap (FallbackToId \cup {tok.TK_ID}) # {}
-----------------------------------------------------------------------------
(* The hints, each None where it does not apply *)

missingTableName(token, previous) ==
  IF /\ Noted(previous, TableNameContext)
     /\ isEndOfInput(token) \/ token.type \notin {tok.TK_ID, tok.TK_STRING}
  THEN [hint |-> "table name", after |-> previous.type]
  ELSE None

unclosedGroup(opened) ==
  IF opened = <<>> THEN None ELSE [hint |-> "unclosed", opener |-> TopOf(opened)]

incompleteInput(token, opened) ==
  IF ~IsIncomplete(token) THEN None
  ELSE IF opened # <<>> THEN unclosedGroup(opened)
  ELSE [hint |-> "incomplete"]

unmatchedClosing(token, opened) ==
  IF token.type = RP /\ \A i \in DOMAIN opened : opened[i].type # LP
  THEN [hint |-> "unmatched"] ELSE None

filterOrdering(token, sawOver) ==
  IF token.type = FILTER /\ sawOver THEN [hint |-> "filter before over"] ELSE None

clauseBoundary(token, opened) ==
  IF isClauseBoundary(token) THEN unclosedGroup(opened) ELSE None

commaHint(token, expected, previous) ==
  IF token.type = tok.TK_COMMA /\ RP \in expected THEN [hint |-> "remove this comma"]
  ELSE IF Noted(previous, {tok.TK_COMMA}) /\ isClauseBoundary(token)
       THEN [hint |-> "remove the trailing comma"]
  ELSE IF ~Noted(previous, ItemEnd) \/ token.type \notin ItemStart THEN None
  ELSE IF tok.TK_COMMA \in expected THEN [hint |-> "missing comma"]
  ELSE IF expected \cap ({RP, SEMI} \cup ClauseBoundary) # {}
       THEN [hint |-> "possible missing comma"]
  ELSE None

resultBeforeFrom(token, expected) ==
  IF token.type = tok.TK_FROM /\ expected \cap ExprStart # {}
  THEN [hint |-> "result before from"] ELSE None

quotedIdentifier(token, expected) ==
  IF expectedAcceptsIdentifier(expected) /\ token.type \in KeywordLike
  THEN [hint |-> "quote it"] ELSE None

expectedList(expected) ==
  IF expected # {} THEN [hint |-> "expected", tokens |-> Labels(expected)] ELSE None

(* The first hint in this order that applies. *)
buildHint(token, expected, previous, opened, sawOver) ==
  LET hints == <<missingTableName(token, previous),
                 incompleteInput(token, opened),
                 unmatchedClosing(token, opened),
                 filterOrdering(token, sawOver),
                 clauseBoundary(token, opened),
                 commaHint(token, expected, previous),
                 resultBeforeFrom(token, expected),
                 quotedIdentifier(token, expected),
                 expectedList(expected), None>>
  IN  hints[CHOOSE i \in DOMAIN hints :
              /\ hints[i] # None \/ i = Len(hints)
              /\ \A j \in 1 .. i - 1 : hints[j] = None]

(* The hint of the syntax error that runCore returned. *)
Refused == Returned /\ ~outcome.ok /\ phase = "errored"
Hint ==
  buildHint(LastToken, collectExpected(TopOf(errors).stateno), previousToken, openers,
            sawOverSinceLastFilterOrSemi)
-----------------------------------------------------------------------------
(* Properties *)

(* What the engine makes of its states with one more token: it reduces     *)
(* for a while, and then shifts the token, accepts, or has no use for it.  *)
AfterToken(stack, type) ==
  LET runs[states \in Seq(Nat)] ==
        LET act  == yy_find_shift_action(type, TopOf(states))
            rule == act - YY_MIN_REDUCE
            keep == Len(states) - At(yyRuleInfoNRhs, rule)
        IN  CASE act <= YY_MAX_SHIFTREDUCE -> Append(states, Shifted(act))
              [] act = YY_ACCEPT_ACTION    -> states
              [] act \in {YY_ERROR_ACTION, YY_NO_ACTION} -> <<>>
              [] act >= YY_MIN_REDUCE ->
                   runs[Append(SubSeq(states, 1, keep),
                               yy_find_reduce_action(states[keep], At(yyRuleInfoLhs, rule)))]
  IN  runs[stack]
States == [i \in DOMAIN yystack |-> yystack[i].stateno]
Takes(type) == AfterToken(States, type) # <<>>

(* "A list of terminals that would have been accepted": the parser would   *)
(* have taken every listed token in the place of the one it failed on, and *)
(* so it would have the one a hint about a list or a name asks for.  Where *)
(* the list has "identifier", it may mean a keyword that can be one.  (An  *)
(* UPDATE is not followed by a table name in every clause.)                *)
TakesWord == \E t \in FallbackToId \cup {tok.TK_ID} : Takes(t)
HintsAreTaken ==
  Refused /\ Hint # None =>
    CASE Hint.hint = "expected" ->
           \A t \in Hint.tokens : IF t = tok.TK_ID THEN TakesWord ELSE Takes(t)
      [] Hint.hint = "missing comma"      -> Takes(tok.TK_COMMA)
      [] Hint.hint = "remove this comma"  -> Takes(RP)
      [] Hint.hint = "result before from" -> \E t \in ExprStart : Takes(t)
      [] Hint.hint = "quote it"           -> TakesWord
      [] Hint.hint = "table name"         -> Hint.after # tok.TK_UPDATE => Takes(tok.TK_ID)
      [] OTHER                            -> TRUE

(* "Unclosed groups with a pointer at the opener": the token pointed at is *)
(* one the parser has still open, of the parentheses the innermost one;    *)
(* and a ")" is called unmatched only where the parser has none open.  For *)
(* that, the openers kept beside the parser are its unmatched parentheses. *)
OpenedHereIsOpen ==
  OpenersAreOnStack /\ (Refused /\ Hint # None =>
    LET parens == Unmatched(LP, RP)
        cases  == Unmatched(CASE_, END)
    IN  CASE Hint.hint = "unclosed" ->
               IF Hint.opener.type = LP
               THEN parens # <<>> /\ Hint.opener = TopOf(parens)
               ELSE \E i \in DOMAIN cases : cases[i] = Hint.opener
          [] Hint.hint = "unmatched" -> parens = <<>>
          [] OTHER                   -> TRUE)
-----------------------------------------------------------------------------
(* README.md:8 promises "a list of terminals that would have been          *)
(* accepted".  A keyword that can be an identifier is listed as one, also  *)
(* where only the keyword would do.  A list of up to five is all shown.    *)
ListedAreAccepted ==
  Refused /\ Hint # None /\ Hint.hint = "expected" /\ Cardinality(Hint.tokens) <= 5
    => \A t \in Hint.tokens : Takes(t)
=============================================================================
