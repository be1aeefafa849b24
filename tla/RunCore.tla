------------------------------ MODULE RunCore ------------------------------
(***************************************************************************)
(* runCore of src/parser.ts: one parse, from the source text to the        *)
(* outcome parse and parseStmt turn into their results.                    *)
(*                                                                         *)
(* The session is the engine of Lempar, and the turns of its loop happen   *)
(* between the call of next and the code after it.  The source is chosen   *)
(* token by token while the tokenizer is read: a source is a sequence of   *)
(* token types, each token one character long on one line, with a space    *)
(* after it.                                                               *)
(***************************************************************************)
EXTENDS Lempar, FiniteSets

CONSTANTS
  SourceTypes, (* for each place of a source, the types a token there may   *)
               (* have; sources have as many tokens, or fewer               *)
  SEMI, EXPLAIN, QUERY, PLAN, LP, RP, CASE_, END, OVER, FILTER,
  ILLEGAL, SPACE, COMMENT, (* token types, as the grammar numbers them *)
  Modes       (* the CoreModes runCore is called with                       *)

EOF == 0

VARIABLES
  mode,          (* [firstStatement, rejectTrailing]                          *)
  scanned,       (* how many tokens, trivia included, the tokenizer yielded   *)
  tokens,        (* the non-trivia tokens, and the synthetic ones, in order   *)
  openers,       (* open delimiters                                           *)
  previousToken,
  sawOverSinceLastFilterOrSemi,
  lastMajor,
  pc,            (* where runCore is: scanning, or past a call of next        *)
  outcome        (* None until runCore returns                                *)

noteVars   == <<openers, previousToken, sawOverSinceLastFilterOrSemi, lastMajor>>
driverVars == <<mode, scanned, tokens, noteVars, pc, outcome>>
vars == <<engineVars, driverVars>>
-----------------------------------------------------------------------------
(* Tokens and outcomes *)

TokenAt(n, type) ==
  [type |-> type, synthetic |-> FALSE,
   span |-> [offset |-> 2 * n, length |-> 1, line |-> 1, col |-> 2 * n]]

sqlLength == 2 * scanned

SyntheticAt(n, type) ==
  [type |-> type, synthetic |-> TRUE,
   span |-> [offset |-> 2 * n, length |-> 0, line |-> 1, col |-> 2 * n]]
SyntheticToken_AtStart(type) ==
  [type |-> type, synthetic |-> TRUE,
   span |-> [offset |-> 0, length |-> 0, line |-> 1, col |-> 0]]
SyntheticToken(type) == SyntheticAt(scanned, type)

(* The tokens that a source may have in its n-th place, and those that a   *)
(* parse may call next with once it has read n of them.                    *)
TypesAt(n) == IF n < Len(SourceTypes) THEN SourceTypes[n + 1] ELSE {}
FedAt(n)   == {TokenAt(n, type) : type \in TypesAt(n) \ {SPACE, COMMENT, ILLEGAL}}
                \cup {SyntheticAt(n, type) : type \in {SEMI, EOF}}
FeedOf(token) == [major |-> token.type, minor |-> token, span |-> token.span]

ASSUME SourceAssumption ==
  /\ SourceTypes \in Seq(SUBSET Nat)
  /\ \A n \in 0 .. Len(SourceTypes) :
       /\ \A type \in TypesAt(n) : TokenAt(n, type) \in V
       /\ \A token \in FedAt(n) : FeedOf(token) \in Feeds

Diagnostic(kind, token) == [kind |-> kind, offset |-> token.span.offset]

(* A failed outcome lists the driver's own diagnostic before the reducer's. *)
Failure(diagnostic) == [ok |-> FALSE, diagnostics |-> <<diagnostic>> \o state.errors]
Success(tail) == [ok |-> TRUE, tail |-> tail]

LastToken == TopOf(tokens)

CoreInit ==
  /\ Init
  /\ mode \in Modes
  /\ scanned = 0
  /\ tokens = <<>>
  /\ openers = <<>>
  /\ previousToken = None
  /\ sawOverSinceLastFilterOrSemi = FALSE
  /\ lastMajor = None
  /\ pc = "scan"
  /\ outcome = None
-----------------------------------------------------------------------------
(* session.next, up to its return *)

CallNext(token, after) ==
  /\ tokens' = Append(tokens, token)
  /\ Call(FeedOf(token))
  /\ pc' = after

EngineStep == Step /\ UNCHANGED driverVars

Return_FallsThrough(result) ==
  /\ outcome' = result
  /\ UNCHANGED <<pc, engineVars>>
Return(result) ==
  /\ outcome' = result
  /\ pc' = "returned"
  /\ UNCHANGED engineVars
-----------------------------------------------------------------------------
(* The parse loop *)

SkipTrivia ==
  /\ pc = "scan"
  /\ TypesAt(scanned) \cap {SPACE, COMMENT} # {}
  /\ scanned' = scanned + 1
  /\ UNCHANGED <<engineVars, mode, tokens, noteVars, pc, outcome>>

IllegalToken ==
  /\ pc = "scan"
  /\ ILLEGAL \in TypesAt(scanned)
  /\ LET token == TokenAt(scanned, ILLEGAL)
     IN  /\ tokens' = Append(tokens, token)
         /\ Return(Failure(Diagnostic("illegal", token)))
  /\ scanned' = scanned + 1
  /\ UNCHANGED <<mode, noteVars>>

FeedToken ==
  /\ pc = "scan"
  /\ \E type \in TypesAt(scanned) \ {SPACE, COMMENT, ILLEGAL} :
       CallNext(TokenAt(scanned, type), "next")
  /\ scanned' = scanned + 1
  /\ UNCHANGED <<mode, noteVars, outcome>>

isTrailing_OffByOne == Len(state.cmds) > 1 /\ LastToken.type # SEMI
isTrailing == Len(state.cmds) >= 1 /\ LastToken.type # SEMI

AfterNext == pc = "next" /\ la = None

RejectTrailing ==
  /\ AfterNext
  /\ isTrailing /\ mode.rejectTrailing
  /\ Return(Failure(Diagnostic("trailing", LastToken)))
  /\ UNCHANGED <<mode, scanned, tokens, noteVars>>

StopAtTrailing_AtSourceEnd ==
  /\ AfterNext
  /\ isTrailing /\ ~mode.rejectTrailing /\ mode.firstStatement
  /\ Return(Success(sqlLength))
  /\ UNCHANGED <<mode, scanned, tokens, noteVars>>

StopAtTrailing ==
  /\ AfterNext
  /\ isTrailing /\ ~mode.rejectTrailing /\ mode.firstStatement
  /\ Return(Success(LastToken.span.offset))
  /\ UNCHANGED <<mode, scanned, tokens, noteVars>>

GoesOn == ~(isTrailing /\ (mode.rejectTrailing \/ mode.firstStatement))

syntaxErrorResult ==
  /\ Return(Failure(Diagnostic("syntax", LastToken)))
  /\ UNCHANGED <<mode, scanned, tokens, noteVars>>

SyntaxError ==
  /\ AfterNext
  /\ GoesOn
  /\ phase = "errored"
  /\ syntaxErrorResult

Closes_AnyOpener(opener, type) == type \in {RP, END}
Closes(opener, type) ==
  (opener = LP /\ type = RP) \/ (opener = CASE_ /\ type = END)

noteSuccessfulToken(token) ==
  /\ openers' =
       IF token.type \in {LP, CASE_} THEN Append(openers, token)
       ELSE IF openers # <<>> /\ Closes(TopOf(openers).type, token.type)
            THEN SubSeq(openers, 1, Len(openers) - 1)
            ELSE openers
  /\ sawOverSinceLastFilterOrSemi' =
       \/ token.type = OVER
       \/ sawOverSinceLastFilterOrSemi /\ token.type \notin {FILTER, SEMI}
  /\ previousToken' = token
  /\ lastMajor' = token.type

NoteToken ==
  /\ AfterNext
  /\ GoesOn
  /\ phase # "errored"
  /\ noteSuccessfulToken(LastToken)
  /\ pc' = IF phase = "running" THEN "scan" ELSE "tail"
  /\ UNCHANGED <<engineVars, mode, scanned, tokens, outcome>>
-----------------------------------------------------------------------------
(* The EOF tail *)

EndOfSource ==
  /\ pc = "scan"
  /\ pc' = "tail"
  /\ UNCHANGED <<engineVars, mode, scanned, tokens, noteVars, outcome>>

FeedSemi ==
  /\ pc = "tail" /\ phase = "running" /\ lastMajor # SEMI
  /\ CallNext(SyntheticToken(SEMI), "semi")
  /\ UNCHANGED <<mode, scanned, noteVars, outcome>>

FeedEof ==
  /\ \/ pc = "tail" /\ lastMajor = SEMI
     \/ pc = "semi" /\ la = None
  /\ phase = "running"
  /\ CallNext(SyntheticToken(EOF), "eof")
  /\ UNCHANGED <<mode, scanned, noteVars, outcome>>

SyntaxErrorInTail_AfterEofOnly ==
  /\ pc = "eof" /\ la = None /\ errors # <<>>
  /\ syntaxErrorResult

SyntaxErrorInTail ==
  /\ pc \in {"semi", "eof"} /\ la = None /\ errors # <<>>
  /\ syntaxErrorResult

Finish_IgnoresReducer ==
  /\ pc \in {"tail", "semi", "eof"} /\ la = None /\ errors = <<>>
  /\ pc = "eof" \/ phase # "running"
  /\ Return(IF phase = "accepted" THEN Success(sqlLength)
            ELSE [ok |-> FALSE, diagnostics |-> <<[kind |-> "unaccepted", offset |-> 0]>>])
  /\ UNCHANGED <<mode, scanned, tokens, noteVars>>

Finish ==
  /\ pc \in {"tail", "semi", "eof"} /\ la = None /\ errors = <<>>
  /\ pc = "eof" \/ phase # "running"
  /\ Return(IF state.errors # <<>> THEN [ok |-> FALSE, diagnostics |-> state.errors]
            ELSE IF phase = "accepted" THEN Success(sqlLength)
            ELSE [ok |-> FALSE, diagnostics |-> <<[kind |-> "unaccepted", offset |-> 0]>>])
  /\ UNCHANGED <<mode, scanned, tokens, noteVars>>
-----------------------------------------------------------------------------
(* What parseStmt makes of a successful outcome *)

(* What parseStmt returns, an outcome with no statement being an error. *)
parseStmt ==
  IF outcome.ok /\ state.cmds = <<>>
  THEN [ok |-> FALSE, diagnostics |-> <<[kind |-> "no statement", offset |-> 0]>>]
  ELSE outcome
-----------------------------------------------------------------------------
ParseLoop == SkipTrivia \/ IllegalToken \/ FeedToken
               \/ RejectTrailing \/ StopAtTrailing \/ SyntaxError \/ NoteToken
EofTail   == EndOfSource \/ FeedSemi \/ FeedEof \/ SyntaxErrorInTail \/ Finish

CoreNext == EngineStep \/ ParseLoop \/ EofTail

(* runCore is synchronous: it runs until it returns, and a source is finite. *)
CoreSpec == CoreInit /\ [][CoreNext]_vars /\ WF_vars(CoreNext)
-----------------------------------------------------------------------------
(* Properties *)

Returned == pc = "returned"

CoreTypeOK ==
  /\ TypeOK
  /\ mode \in Modes
  /\ scanned \in Nat
  /\ tokens \in Seq(V)
  /\ openers \in Seq(V)
  /\ \A i \in 1 .. Len(openers) : openers[i].type \in {LP, CASE_}
  /\ previousToken \in V \cup {None}
  /\ sawOverSinceLastFilterOrSemi \in BOOLEAN
  /\ lastMajor \in Terminal \cup {None}
  /\ pc \in {"scan", "next", "tail", "semi", "eof", "returned"}
  /\ IF Returned THEN outcome.ok \in BOOLEAN ELSE outcome = None

(* runCore uses its session as Lempar describes it: it enters next only    *)
(* between calls, feeds the tokens in source order, and touches nothing of *)
(* the session otherwise.                                                  *)
EngineContract == Init /\ [][Next]_engineVars

-----------------------------------------------------------------------------
(* The statements of the source, read off its tokens (for sources without  *)
(* a trigger body): the stretches between separators.                      *)

IsPart(i) == i \in 1 .. Len(tokens) /\ tokens[i].type \notin {SEMI, EOF}
Starts == {i \in 1 .. Len(tokens) : IsPart(i) /\ ~IsPart(i - 1)}
Ordinal(start) == Cardinality({i \in Starts : i <= start})
LastOf(start) ==
  CHOOSE i \in start .. Len(tokens) : ~IsPart(i + 1) /\ \A j \in start .. i : IsPart(j)
Terminated(start) == LastOf(start) < Len(tokens)

ExplainOf(start) ==
  IF tokens[start].type # EXPLAIN THEN None
  ELSE IF start + 1 <= Len(tokens) /\ tokens[start + 1].type = QUERY THEN "QueryPlan"
  ELSE "Explain"
BodyOf(start) ==
  CASE ExplainOf(start) = None      -> start
    [] ExplainOf(start) = "Explain" -> start + 1
    [] OTHER                        -> start + 3

Covers(span, token) == span.offset <= token.span.offset /\ token.span.offset < End(span)

(* state.cmds lists the statements of the source in order: the n-th one    *)
(* covers the tokens of the n-th statement, all of them and no others, and *)
(* has its own EXPLAIN prefix and nobody else's, whatever was staged in    *)
(* stmt and explain by the statements before it.                           *)
StatementsInOrder ==
  /\ Len(state.cmds) <= Cardinality(Starts)
  /\ \A start \in Starts :
       Ordinal(start) <= Len(state.cmds) =>
         LET cmd == state.cmds[Ordinal(start)]
         IN  /\ cmd.explain = ExplainOf(start)
             /\ \A i \in 1 .. Len(tokens) :
                  tokens[i].type # EOF =>
                    (Covers(cmd.span, tokens[i]) <=> i \in BodyOf(start) .. LastOf(start))

(* Between tokens, a statement is committed as soon as a token after its   *)
(* terminating SEMI has been fed, valid there or not, and not before: the  *)
(* comment on the trailing-content tripwire.                               *)
CommitLag ==
  la = None =>
    \A start \in Starts :
      Ordinal(start) <= Len(state.cmds)
        <=> Terminated(start) /\ LastOf(start) + 1 < Len(tokens)
            /\ tokens[LastOf(start) + 2].type # ILLEGAL

(* With allowTrailing, parseStmt returns at trailing content whatever the  *)
(* session makes of it.                                                    *)
StopsEarly == mode.firstStatement /\ ~mode.rejectTrailing
AcceptedClean ==
  Returned /\ outcome.ok /\ ~StopsEarly =>
    phase = "accepted" /\ errors = <<>> /\ state.errors = <<>>

(* parse accepts a source with nothing wrong in it only: with an accepting *)
(* session, no diagnostic of the reducer, and every statement committed.   *)
OkMeansClean ==
  /\ AcceptedClean
  /\ Returned /\ outcome.ok =>
       /\ Len(state.cmds) = Cardinality(Starts)
       /\ state.stmt = None /\ state.explain = None

(* A parse that accepts one statement only fails on the first token of a   *)
(* second one, however the parser would have judged it.                    *)
TrailingRejected ==
  Returned /\ mode.rejectTrailing =>
    /\ outcome.ok => Cardinality(Starts) <= 1
    /\ ~outcome.ok /\ Cardinality(Starts) > 1 /\ LastToken.type # ILLEGAL =>
         /\ Cardinality(Starts) = 2
         /\ LastToken = tokens[CHOOSE i \in Starts : Ordinal(i) = 2]
         /\ outcome.diagnostics[1] = Diagnostic("trailing", LastToken)

(* parseStmt's tail splits the source in two: the returned statement, with *)
(* its separators, lies before it, and it is the end of the source or the  *)
(* first token of the next statement, which was read and no token after it. *)
TailSplitsSource ==
  Returned /\ outcome.ok /\ mode.firstStatement =>
    /\ \A i \in 1 .. Len(tokens) :
         tokens[i].type \notin {SEMI, EOF} =>
           (tokens[i].span.offset < outcome.tail
              <=> Ordinal(CHOOSE s \in Starts : s <= i /\ LastOf(s) >= i) = 1)
    /\ outcome.tail = sqlLength \/ outcome.tail = LastToken.span.offset
    /\ Len(state.cmds) = IF Starts = {} THEN 0 ELSE 1

(* The one syntax error names the last token that was read, and the        *)
(* position the engine counted for it is its index among all tokens.       *)
ErrorNamesLastToken ==
  phase = "errored" /\ la = None =>
    /\ errors[1].tokenIndex = Len(tokens) - 1
    /\ errors[1].major = LastToken.type

(* What the diagnostics call the unmatched opener is one: openers lists    *)
(* the parentheses that the parser stack holds with no match for them.     *)
OpenersOf(type) == SelectSeq(openers, LAMBDA token : token.type = type)
Unmatched(opens, closes) ==
  LET after[i \in 0 .. Len(yystack)] ==
        IF i = 0 THEN <<>>
        ELSE IF yystack[i].major = opens THEN Append(after[i - 1], yystack[i].minor)
        ELSE IF yystack[i].major = closes THEN SubSeq(after[i - 1], 1, Len(after[i - 1]) - 1)
        ELSE after[i - 1]
  IN  after[Len(yystack)]
OpenersAreOnStack == pc = "scan" => OpenersOf(LP) = Unmatched(LP, RP)

(* runCore returns. *)
Returns == <>Returned
-----------------------------------------------------------------------------
(* What the documentation says, and the code does not do *)

(* src/parser.ts:4 says the driver merges low-level diagnostics into the   *)
(* result: what the reducer reported makes the parse fail.                 *)
ReducerErrorsReported ==
  Returned /\ state.errors # <<>> => ~outcome.ok

(* src/ast/parseState.ts:44 has constraintName as the "current CREATE      *)
(* TABLE constraint name": a constraint is never given a name that was     *)
(* read in an earlier statement.                                           *)
NamesOfCurrentTable ==
  \A i \in 1 .. Len(yystack) :
    LET minor == yystack[i].minor
    IN  minor # None /\ "ast" \in DOMAIN minor /\ minor.ast = "constraint" /\ minor.name # None
        => \A s \in Starts : minor.name >= tokens[s].span.offset
=============================================================================
