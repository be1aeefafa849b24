--------------------------- MODULE RunCoreProofs ---------------------------
(***************************************************************************)
(* runCore and its session, for every source, every mode, and whatever     *)
(* tables, reducer and values satisfy the assumptions on the constants.    *)
(*                                                                         *)
(* The argument: the engine's invariants were proved for a caller that     *)
(* feeds tokens in source order between two calls.  CoreInv says of the    *)
(* driver that it is one: what it has fed lies in the part of the source   *)
(* it has scanned (FedIsScanned), and where it is in its loop agrees with  *)
(* what the session is doing (InStep).  So every step of runCore is a step *)
(* of the engine (CoreStepsEngine), which gives the engine's invariants    *)
(* back, and with them the ones of the driver.                             *)
(***************************************************************************)
EXTENDS RunCore, LemparProofs

(* The session has been called with the last of the tokens. *)
Called == pc \in {"next", "semi", "eof"}

(* What the session has of the source, runCore has scanned. *)
FedIsScanned ==
  /\ scanned <= Len(SourceTypes)
  /\ la = None => End(Top.span) <= sqlLength
  /\ la # None => End(la.span) <= sqlLength

(* The driver and its session are at the same token. *)
InStep ==
  /\ Called => tokens # <<>> /\ LastToken.type \in Terminal
  /\ la # None => /\ Called /\ phase = "running"
                  /\ la.major = LastToken.type /\ inputIndex = Len(tokens) - 1
  /\ la = None /\ phase = "running" /\ ~Returned => inputIndex = Len(tokens)
  /\ pc = "scan" => phase = "running"
  /\ phase = "errored" => /\ errors[1].tokenIndex = Len(tokens) - 1
                          /\ errors[1].major = LastToken.type

EngineOK == EngineInv /\ VerdictConsistent /\ ErrorHasState
CoreInv  == EngineOK /\ CoreTypeOK /\ FedIsScanned /\ InStep
-----------------------------------------------------------------------------
LEMMA EngineOKStep == EngineOK /\ [Next]_engineVars => EngineOK'
  BY NextInv, VerdictStep, ErrorStateStep DEF EngineOK

LEMMA TopIsEntry == EngineOK => Top \in Entry /\ End(Top.span) \in Nat
  <1> SUFFICES ASSUME EngineOK PROVE Top \in Entry /\ End(Top.span) \in Nat
    OBVIOUS
  <1>1. Top \in Entry
    BY DEF EngineOK, EngineInv, WellFormed, Grounded, Top, TopOf
  <1> QED
    BY <1>1, SpanTypes

LEMMA CoreInitInv == CoreInit => CoreInv
  <1> SUFFICES ASSUME CoreInit PROVE CoreInv
    OBVIOUS
  <1>1. Init
    BY DEF CoreInit
  <1>2. EngineOK
    BY <1>1, InitInv DEF EngineOK, Init, VerdictConsistent, ErrorHasState
  <1>3. /\ yystack = <<Sentinel>> /\ phase = "running" /\ errors = <<>> /\ inputIndex = 0 /\ la = None
        /\ mode \in Modes /\ scanned = 0 /\ tokens = <<>> /\ openers = <<>> /\ previousToken = None
        /\ sawOverSinceLastFilterOrSemi = FALSE /\ lastMajor = None /\ pc = "scan" /\ outcome = None
    BY DEF CoreInit, Init
  <1>4. CoreTypeOK
    <2>1. TypeOK
      BY <1>2 DEF EngineOK, EngineInv
    <2>2. tokens \in Seq(V) /\ openers \in Seq(V) /\ Len(openers) = 0
      BY <1>3
    <2>3. sawOverSinceLastFilterOrSemi \in BOOLEAN
      BY <1>3
    <2>4. ~Returned /\ outcome = None
      BY <1>3 DEF Returned
    <2> QED
      BY <1>3, <2>1, <2>2, <2>3, <2>4 DEF CoreTypeOK
  <1>5. FedIsScanned
    <2>1. Top = Sentinel /\ End(Sentinel.span) = 0 /\ sqlLength = 0
      BY <1>3 DEF Top, TopOf, Sentinel, End, sqlLength
    <2> QED
      BY <1>3, <2>1, SourceAssumption DEF FedIsScanned
  <1>6. InStep
    BY <1>3 DEF InStep, Called
  <1> QED
    BY <1>2, <1>4, <1>5, <1>6 DEF CoreInv
-----------------------------------------------------------------------------
(* A token that is fed starts where what has been fed before is over. *)
LEMMA FedIsLookahead ==
  ASSUME CoreInv, NEW token \in FedAt(scanned)
  PROVE  /\ FeedOf(token) \in Feeds /\ FeedOf(token) \in Lookahead /\ FeedOf(token) # None
         /\ token \in V /\ token.type \in Terminal
         /\ token.span.offset = sqlLength
         /\ End(token.span) = sqlLength \/ End(token.span) = sqlLength + 1
  <1>1. scanned \in 0 .. Len(SourceTypes)
    BY SourceAssumption DEF CoreInv, CoreTypeOK, FedIsScanned
  <1>2. FeedOf(token) \in Feeds
    BY <1>1, SourceAssumption
  <1>3. FeedOf(token) \in Lookahead /\ FeedOf(token) # None
    BY <1>2, CallerAssumption
  <1>4. token \in V /\ token.type \in Terminal
    BY <1>3 DEF FeedOf, Lookahead
  <1>5. \/ \E type \in TypesAt(scanned) : token = TokenAt(scanned, type)
        \/ \E type \in {SEMI, EOF} : token = SyntheticAt(scanned, type)
    BY DEF FedAt
  <1>6. /\ token.span.offset = 2 * scanned
        /\ token.span.length = 0 \/ token.span.length = 1
    BY <1>5 DEF TokenAt, SyntheticAt
  <1> QED
    BY <1>1, <1>2, <1>3, <1>4, <1>6 DEF sqlLength, End

(* Where runCore calls next, the engine is fed as it takes for granted. *)
LEMMA CallNextFeeds ==
  ASSUME CoreInv, phase = "running", la = None, ~Returned,
         NEW token \in FedAt(scanned), NEW after \in {"next", "semi", "eof"},
         CallNext(token, after)
  PROVE  /\ Feed
         /\ la' = FeedOf(token) /\ la' # None /\ pc' = after
         /\ tokens' = Append(tokens, token) /\ tokens' \in Seq(V)
         /\ LastToken' = token /\ Len(tokens') = Len(tokens) + 1
         /\ UNCHANGED <<yystack, phase, root, errors, inputIndex, state>>
  <1>1. /\ FeedOf(token) \in Feeds /\ FeedOf(token) # None
        /\ token \in V /\ token.span.offset = sqlLength
    BY FedIsLookahead
  <1>2. Call(FeedOf(token)) /\ tokens' = Append(tokens, token) /\ pc' = after
    BY DEF CallNext
  <1>3. la' = FeedOf(token) /\ UNCHANGED <<yystack, phase, root, errors, inputIndex, state>>
    BY <1>2 DEF Call
  <1>4. FeedOf(token).span.offset >= End(Top.span)
    <2>1. End(Top.span) <= sqlLength /\ End(Top.span) \in Nat /\ sqlLength \in Nat
      BY TopIsEntry DEF CoreInv, FedIsScanned, CoreTypeOK, sqlLength
    <2> QED
      BY <1>1, <2>1 DEF FeedOf
  <1>5. Feed
    BY <1>1, <1>2, <1>4 DEF Feed
  <1>6. tokens \in Seq(V)
    BY DEF CoreInv, CoreTypeOK
  <1>7. /\ tokens' \in Seq(V) /\ Len(tokens') = Len(tokens) + 1
        /\ tokens'[Len(tokens')] = token
    BY <1>1, <1>2, <1>6
  <1> QED
    BY <1>1, <1>2, <1>3, <1>5, <1>7 DEF LastToken, TopOf

(* A step of runCore is a step of the engine or leaves it alone. *)
LEMMA CoreStepsEngine == CoreInv /\ [CoreNext]_vars => [Next]_engineVars
  <1> SUFFICES ASSUME CoreInv, [CoreNext]_vars PROVE [Next]_engineVars
    OBVIOUS
  <1>1. CASE EngineStep
    BY <1>1 DEF EngineStep, Next
  <1>2. CASE FeedToken
    <2>1. PICK type \in TypesAt(scanned) \ {SPACE, COMMENT, ILLEGAL} :
            CallNext(TokenAt(scanned, type), "next")
      BY <1>2 DEF FeedToken
    <2>2. TokenAt(scanned, type) \in FedAt(scanned)
      BY DEF FedAt
    <2>3. pc = "scan"
      BY <1>2 DEF FeedToken
    <2>4. phase = "running" /\ la = None /\ ~Returned
      BY <2>3 DEF CoreInv, InStep, Called, Returned
    <2> QED
      BY <2>1, <2>2, <2>4, CallNextFeeds DEF Next
  <1>3. CASE FeedSemi
    <2>1. SyntheticToken(SEMI) \in FedAt(scanned)
      BY DEF FedAt, SyntheticToken
    <2>2. phase = "running" /\ la = None /\ ~Returned /\ CallNext(SyntheticToken(SEMI), "semi")
      BY <1>3 DEF FeedSemi, CoreInv, InStep, Called, Returned
    <2> QED
      BY <2>1, <2>2, CallNextFeeds DEF Next
  <1>4. CASE FeedEof
    <2>1. SyntheticToken(EOF) \in FedAt(scanned)
      BY DEF FedAt, SyntheticToken
    <2>2. phase = "running" /\ la = None /\ ~Returned /\ CallNext(SyntheticToken(EOF), "eof")
      BY <1>4 DEF FeedEof, CoreInv, InStep, Called, Returned
    <2> QED
      BY <2>1, <2>2, CallNextFeeds DEF Next
  <1>5. CASE UNCHANGED engineVars
    BY <1>5
  <1>6. ASSUME SkipTrivia \/ IllegalToken \/ RejectTrailing \/ StopAtTrailing \/ SyntaxError
               \/ NoteToken \/ EndOfSource \/ SyntaxErrorInTail \/ Finish
        PROVE  UNCHANGED engineVars
    BY <1>6 DEF SkipTrivia, IllegalToken, RejectTrailing, StopAtTrailing, SyntaxError, NoteToken,
                EndOfSource, SyntaxErrorInTail, Finish, Return, syntaxErrorResult
  <1>7. CASE UNCHANGED vars
    BY <1>7 DEF vars
  <1> QED
    BY <1>1, <1>2, <1>3, <1>4, <1>5, <1>6, <1>7 DEF CoreNext, ParseLoop, EofTail

LEMMA EngineOKKept == CoreInv /\ [CoreNext]_vars => EngineOK'
  BY CoreStepsEngine, EngineOKStep DEF CoreInv

(* The turns of the engine's loop. *)
LEMMA EngineStepInv == CoreInv /\ EngineStep => CoreInv'
  <1> SUFFICES ASSUME CoreInv, EngineStep PROVE CoreInv'
    OBVIOUS
  <1>1. /\ UNCHANGED <<mode, scanned, tokens, openers, previousToken,
                       sawOverSinceLastFilterOrSemi, lastMajor, pc, outcome>>
        /\ Step
    BY DEF EngineStep, driverVars, noteVars
  <1>2. /\ la # None /\ Called /\ phase = "running" /\ la.major = LastToken.type
        /\ inputIndex = Len(tokens) - 1 /\ Len(tokens) \in Nat
    <2>1. la # None /\ tokens \in Seq(V)
      BY <1>1 DEF Step, ReduceStep, ShiftStep, AcceptStep, ErrorStep, CoreInv, CoreTypeOK
    <2> QED
      BY <2>1 DEF CoreInv, InStep
  <1>3. EngineOK'
    BY EngineOKKept DEF CoreNext
  <1>4. CoreTypeOK'
    <2>1. TypeOK'
      BY <1>3 DEF EngineOK, EngineInv
    <2> QED
      BY <1>1, <2>1 DEF CoreInv, CoreTypeOK, Returned
  <1>5. FedIsScanned' /\ InStep'
    <2>1. sqlLength' = sqlLength /\ Called' /\ LastToken' = LastToken /\ Returned' = Returned
      BY <1>1, <1>2 DEF sqlLength, Called, LastToken, Returned
    <2>2. /\ scanned <= Len(SourceTypes) /\ End(la.span) <= sqlLength /\ sqlLength \in Nat
          /\ tokens # <<>> /\ LastToken.type \in Terminal /\ pc # "scan" /\ ~Returned
      BY <1>2 DEF CoreInv, FedIsScanned, InStep, CoreTypeOK, sqlLength, Called, Returned
    <2>3. CASE ReduceStep
      <3>1. UNCHANGED <<phase, inputIndex, la>>
        BY <2>3 DEF ReduceStep
      <3> QED
        BY <1>1, <1>2, <2>1, <2>2, <3>1 DEF FedIsScanned, InStep, Called
    <2>4. CASE ShiftStep
      <3>1. /\ la' = None /\ inputIndex' = inputIndex + 1 /\ phase' = phase
            /\ yystack' = Append(yystack, [stateno |-> Shifted(Act), major |-> la.major,
                                           minor |-> la.minor, span |-> la.span])
        BY <2>4 DEF ShiftStep
      <3>2. Top'.span = la.span
        <4>1. yystack \in Seq(Entry)
          BY DEF CoreInv, EngineOK, EngineInv, TypeOK
        <4> QED
          BY <3>1, <4>1 DEF Top, TopOf
      <3> QED
        BY <1>1, <1>2, <2>1, <2>2, <3>1, <3>2 DEF FedIsScanned, InStep, Called
    <2>5. ASSUME AcceptStep \/ ErrorStep
          PROVE  FedIsScanned'
      <3>1. la' = None /\ Top' = Top
        BY <2>5 DEF AcceptStep, ErrorStep, Top
      <3>2. End(Top.span) <= la.span.offset /\ End(Top.span) \in Nat
        BY <1>2, TopIsEntry DEF CoreInv, EngineOK, EngineInv, SpansOrdered
      <3>3. la.span.offset \in Nat /\ la.span.length \in Nat
        BY <1>2 DEF CoreInv, EngineOK, EngineInv, TypeOK, Lookahead, Span
      <3>4. End(Top.span) <= sqlLength
        BY <2>2, <3>2, <3>3 DEF End
      <3> QED
        BY <1>1, <2>1, <2>2, <3>1, <3>4 DEF FedIsScanned
    <2>6. CASE AcceptStep
      <3>1. la' = None /\ phase' = "accepted"
        BY <2>6 DEF AcceptStep
      <3>2. InStep'
        BY <1>1, <2>1, <2>2, <3>1 DEF InStep, Called
      <3> QED
        BY <2>5, <2>6, <3>2
    <2>7. CASE ErrorStep
      <3>1. /\ la' = None /\ phase' = "errored" /\ errors \in Seq(LalrError)
            /\ errors' = Append(errors, [stateno |-> Top.stateno, major |-> la.major,
                                         tokenIndex |-> inputIndex])
        BY <2>7 DEF ErrorStep, CoreInv, EngineOK, EngineInv, TypeOK
      <3>2. errors = <<>>
        BY <1>2, <3>1 DEF CoreInv, EngineOK, VerdictConsistent
      <3>3. errors'[1].major = la.major /\ errors'[1].tokenIndex = inputIndex
        BY <3>1, <3>2
      <3>4. InStep'
        BY <1>1, <1>2, <2>1, <2>2, <3>1, <3>3 DEF InStep, Called
      <3> QED
        BY <2>5, <2>7, <3>4
    <2> QED
      BY <1>1, <2>3, <2>4, <2>6, <2>7 DEF Step
  <1> QED
    BY <1>3, <1>4, <1>5 DEF CoreInv
-----------------------------------------------------------------------------
(* The driver's own steps *)

(* A token is only read where the source has one. *)
LEMMA SourceGoesOn ==
  ASSUME CoreInv, TypesAt(scanned) # {}
  PROVE  scanned \in Nat /\ scanned + 1 <= Len(SourceTypes) /\ Len(SourceTypes) \in Nat
  BY SourceAssumption DEF CoreInv, CoreTypeOK, FedIsScanned, TypesAt

LEMMA FeedingInv ==
  ASSUME CoreInv, phase = "running", la = None, ~Returned,
         NEW token \in FedAt(scanned), NEW after \in {"next", "semi", "eof"},
         CallNext(token, after), EngineOK',
         scanned' \in Nat, scanned' <= Len(SourceTypes), End(token.span) <= 2 * scanned',
         UNCHANGED <<mode, noteVars, outcome>>
  PROVE  CoreInv'
  <1>1. /\ la' = FeedOf(token) /\ la' # None /\ pc' = after /\ phase' = phase
        /\ inputIndex' = inputIndex
        /\ tokens' \in Seq(V) /\ LastToken' = token /\ Len(tokens') = Len(tokens) + 1
    BY CallNextFeeds
  <1>2. token.type \in Terminal
    BY FedIsLookahead
  <1>3. Called' /\ ~Returned' /\ pc' # "scan" /\ pc' \in {"next", "semi", "eof"}
    BY <1>1 DEF Called, Returned
  <1>4. CoreTypeOK'
    <2>1. TypeOK'
      BY DEF EngineOK, EngineInv
    <2> QED
      BY <1>1, <1>3, <2>1 DEF CoreInv, CoreTypeOK, noteVars, Returned
  <1>5. FedIsScanned'
    BY <1>1 DEF FedIsScanned, FeedOf, sqlLength
  <1>6. InStep'
    <2>1. inputIndex = Len(tokens) /\ Len(tokens) \in Nat
      BY DEF CoreInv, InStep, CoreTypeOK
    <2>2. tokens' # <<>> /\ inputIndex' = Len(tokens') - 1 /\ la'.major = token.type
      BY <1>1, <2>1 DEF FeedOf
    <2> QED
      BY <1>1, <1>2, <1>3, <2>2 DEF InStep
  <1> QED
    BY <1>4, <1>5, <1>6 DEF CoreInv

LEMMA ReturnInv ==
  ASSUME CoreInv, la = None, EngineOK',
         NEW result, result.ok \in BOOLEAN, Return(result),
         UNCHANGED <<mode, scanned, tokens, noteVars>>
  PROVE  CoreInv'
  <1>1. outcome' = result /\ pc' = "returned" /\ UNCHANGED engineVars
    BY DEF Return
  <1>2. Returned' /\ ~Called' /\ LastToken' = LastToken
    BY <1>1 DEF Returned, Called, LastToken
  <1>3. CoreTypeOK'
    <2>1. TypeOK'
      BY DEF EngineOK, EngineInv
    <2> QED
      BY <1>1, <1>2, <2>1 DEF CoreInv, CoreTypeOK, noteVars
  <1>4. FedIsScanned'
    BY <1>1 DEF CoreInv, FedIsScanned, engineVars, Top, sqlLength
  <1>5. InStep'
    BY <1>1, <1>2 DEF CoreInv, InStep, engineVars
  <1> QED
    BY <1>3, <1>4, <1>5 DEF CoreInv

LEMMA OutcomeHasVerdict ==
  /\ \A diagnostic : Failure(diagnostic).ok = FALSE
  /\ \A tail : Success(tail).ok = TRUE
  BY DEF Failure, Success

LEMMA IllegalTokenInv == CoreInv /\ IllegalToken => CoreInv'
  <1> SUFFICES ASSUME CoreInv, IllegalToken PROVE CoreInv'
    OBVIOUS
  <1> DEFINE token == TokenAt(scanned, ILLEGAL)
  <1>1. /\ pc = "scan" /\ ILLEGAL \in TypesAt(scanned) /\ tokens' = Append(tokens, token)
        /\ Return(Failure(Diagnostic("illegal", token))) /\ scanned' = scanned + 1
        /\ UNCHANGED <<mode, noteVars>>
    BY DEF IllegalToken
  <1>2. /\ outcome' = Failure(Diagnostic("illegal", token)) /\ pc' = "returned"
        /\ UNCHANGED engineVars
    BY <1>1 DEF Return
  <1>3. /\ scanned \in Nat /\ scanned' <= Len(SourceTypes) /\ scanned \in 0 .. Len(SourceTypes)
        /\ scanned' \in Nat
    BY <1>1, SourceGoesOn
  <1>4. token \in V
    BY <1>1, <1>3, SourceAssumption
  <1>5. la = None /\ phase = "running"
    BY <1>1 DEF CoreInv, InStep, Called
  <1>6. EngineOK'
    BY EngineOKKept DEF CoreNext, ParseLoop
  <1>7. Returned' /\ ~Called'
    BY <1>2 DEF Returned, Called
  <1>8. CoreTypeOK'
    <2>1. TypeOK' /\ tokens' \in Seq(V)
      BY <1>1, <1>4, <1>6 DEF EngineOK, EngineInv, CoreInv, CoreTypeOK
    <2>2. outcome'.ok \in BOOLEAN
      BY <1>2, OutcomeHasVerdict
    <2> QED
      BY <1>1, <1>2, <1>3, <1>7, <2>1, <2>2 DEF CoreInv, CoreTypeOK, noteVars
  <1>9. FedIsScanned'
    <2>1. End(Top.span) <= sqlLength /\ End(Top.span) \in Nat /\ sqlLength <= sqlLength'
          /\ sqlLength \in Nat /\ sqlLength' \in Nat
      BY <1>1, <1>3, <1>5, TopIsEntry DEF CoreInv, FedIsScanned, sqlLength
    <2> QED
      BY <1>2, <1>3, <1>5, <2>1 DEF FedIsScanned, engineVars, Top
  <1>10. InStep'
    BY <1>2, <1>5, <1>7 DEF InStep, engineVars
  <1> QED
    BY <1>6, <1>8, <1>9, <1>10 DEF CoreInv

LEMMA NoteTokenInv == CoreInv /\ NoteToken => CoreInv'
  <1> SUFFICES ASSUME CoreInv, NoteToken PROVE CoreInv'
    OBVIOUS
  <1>1. /\ pc = "next" /\ la = None /\ phase # "errored" /\ noteSuccessfulToken(LastToken)
        /\ pc' = (IF phase = "running" THEN "scan" ELSE "tail")
        /\ UNCHANGED <<engineVars, mode, scanned, tokens, outcome>>
    BY DEF NoteToken, AfterNext
  <1>2. LastToken \in V /\ LastToken.type \in Terminal
    <2>1. tokens \in Seq(V) /\ tokens # <<>>
      BY <1>1 DEF CoreInv, CoreTypeOK, InStep, Called
    <2> QED
      BY <1>1, <2>1 DEF LastToken, TopOf, CoreInv, InStep, Called
  <1>3. EngineOK'
    BY EngineOKKept DEF CoreNext, ParseLoop
  <1>4. /\ openers' \in Seq(V)
        /\ \A i \in 1 .. Len(openers') : openers'[i].type \in {LP, CASE_}
    <2>1. openers \in Seq(V) /\ \A i \in 1 .. Len(openers) : openers[i].type \in {LP, CASE_}
      BY DEF CoreInv, CoreTypeOK
    <2>2. CASE LastToken.type \in {LP, CASE_}
      <3>1. openers' = Append(openers, LastToken)
        BY <1>1, <2>2 DEF noteSuccessfulToken
      <3> QED
        BY <1>2, <2>1, <2>2, <3>1
    <2>3. CASE LastToken.type \notin {LP, CASE_}
      <3>1. openers' = openers \/ (openers # <<>> /\ openers' = SubSeq(openers, 1, Len(openers) - 1))
        BY <1>1, <2>3 DEF noteSuccessfulToken
      <3>2. CASE openers' = openers
        BY <2>1, <3>2
      <3>3. CASE openers # <<>> /\ openers' = SubSeq(openers, 1, Len(openers) - 1)
        BY <2>1, <3>3
      <3> QED
        BY <3>1, <3>2, <3>3
    <2> QED
      BY <2>2, <2>3
  <1>5. previousToken' = LastToken /\ lastMajor' = LastToken.type
        /\ sawOverSinceLastFilterOrSemi' \in BOOLEAN
    BY <1>1 DEF noteSuccessfulToken
  <1>6. pc' \in {"scan", "tail"} /\ ~Returned' /\ ~Called' /\ ~Returned
        /\ (pc' = "scan" => phase = "running")
    BY <1>1 DEF Returned, Called
  <1>7. CoreTypeOK'
    <2>1. TypeOK'
      BY <1>3 DEF EngineOK, EngineInv
    <2> QED
      BY <1>1, <1>2, <1>4, <1>5, <1>6, <2>1 DEF CoreInv, CoreTypeOK
  <1>8. FedIsScanned'
    BY <1>1 DEF CoreInv, FedIsScanned, engineVars, Top, sqlLength
  <1>9. InStep'
    BY <1>1, <1>6 DEF CoreInv, InStep, engineVars, LastToken
  <1> QED
    BY <1>3, <1>7, <1>8, <1>9 DEF CoreInv

LEMMA CoreNextInv == CoreInv /\ [CoreNext]_vars => CoreInv'
  <1> SUFFICES ASSUME CoreInv, [CoreNext]_vars PROVE CoreInv'
    OBVIOUS
  <1>1. EngineOK'
    BY EngineOKKept
  <1>2. CASE EngineStep
    BY <1>2, EngineStepInv
  <1>3. CASE SkipTrivia
    <2>1. /\ scanned' = scanned + 1 /\ scanned \in Nat /\ scanned' <= Len(SourceTypes)
          /\ UNCHANGED <<engineVars, mode, tokens, noteVars, pc, outcome>> /\ pc = "scan"
      BY <1>3, SourceGoesOn DEF SkipTrivia
    <2>2. CoreTypeOK' /\ InStep'
      BY <2>1 DEF CoreInv, CoreTypeOK, TypeOK, InStep, engineVars, noteVars, Returned, Called,
                  LastToken
    <2>3. FedIsScanned'
      <3>1. la = None /\ End(Top.span) <= sqlLength /\ End(Top.span) \in Nat
        BY <2>1, TopIsEntry DEF CoreInv, InStep, FedIsScanned, Called
      <3>2. sqlLength <= sqlLength' /\ sqlLength \in Nat /\ sqlLength' \in Nat
        BY <2>1 DEF sqlLength
      <3> QED
        BY <2>1, <3>1, <3>2 DEF FedIsScanned, engineVars, Top
    <2> QED
      BY <1>1, <2>2, <2>3 DEF CoreInv
  <1>4. CASE IllegalToken
    BY <1>4, IllegalTokenInv
  <1>5. CASE FeedToken
    <2>1. PICK type \in TypesAt(scanned) \ {SPACE, COMMENT, ILLEGAL} :
            CallNext(TokenAt(scanned, type), "next")
      BY <1>5 DEF FeedToken
    <2>2. /\ pc = "scan" /\ scanned' = scanned + 1 /\ UNCHANGED <<mode, noteVars, outcome>>
          /\ scanned \in Nat /\ scanned' <= Len(SourceTypes)
      BY <1>5, SourceGoesOn DEF FeedToken
    <2>3. phase = "running" /\ la = None /\ ~Returned
      BY <2>2 DEF CoreInv, InStep, Called, Returned
    <2>4. TokenAt(scanned, type) \in FedAt(scanned)
      BY DEF FedAt
    <2>5. End(TokenAt(scanned, type).span) <= 2 * scanned'
      BY <2>2 DEF TokenAt, End
    <2> QED
      BY <1>1, <2>1, <2>2, <2>3, <2>4, <2>5, FeedingInv
  <1>6. ASSUME NEW type \in {SEMI, EOF}, NEW after \in {"semi", "eof"},
               CallNext(SyntheticToken(type), after), phase = "running", la = None, ~Returned,
               UNCHANGED <<mode, scanned, noteVars, outcome>>
        PROVE  CoreInv'
    <2>1. SyntheticToken(type) \in FedAt(scanned)
      BY DEF FedAt, SyntheticToken
    <2>2. scanned \in Nat /\ scanned' = scanned /\ scanned <= Len(SourceTypes)
      BY <1>6 DEF CoreInv, CoreTypeOK, FedIsScanned
    <2>3. End(SyntheticToken(type).span) <= 2 * scanned'
      BY <2>2 DEF SyntheticToken, SyntheticAt, End
    <2> QED
      BY <1>1, <1>6, <2>1, <2>2, <2>3, FeedingInv
  <1>7. CASE FeedSemi
    <2>1. /\ pc = "tail" /\ phase = "running" /\ CallNext(SyntheticToken(SEMI), "semi")
          /\ UNCHANGED <<mode, scanned, noteVars, outcome>>
      BY <1>7 DEF FeedSemi
    <2>2. la = None /\ ~Returned
      BY <2>1 DEF CoreInv, InStep, Called, Returned
    <2> QED
      BY <1>6, <2>1, <2>2
  <1>8. CASE FeedEof
    <2>1. /\ pc = "tail" \/ (pc = "semi" /\ la = None)
          /\ phase = "running" /\ CallNext(SyntheticToken(EOF), "eof")
          /\ UNCHANGED <<mode, scanned, noteVars, outcome>>
      BY <1>8 DEF FeedEof
    <2>2. la = None /\ ~Returned
      BY <2>1 DEF CoreInv, InStep, Called, Returned
    <2> QED
      BY <1>6, <2>1, <2>2
  <1>9. CASE RejectTrailing
    <2>1. /\ la = None /\ Return(Failure(Diagnostic("trailing", LastToken)))
          /\ UNCHANGED <<mode, scanned, tokens, noteVars>>
      BY <1>9 DEF RejectTrailing, AfterNext
    <2>2. Failure(Diagnostic("trailing", LastToken)).ok \in BOOLEAN
      BY OutcomeHasVerdict
    <2> QED
      BY ONLY CoreInv, <1>1, <2>1, <2>2, ReturnInv
  <1>10. CASE StopAtTrailing
    <2>1. /\ la = None /\ Return(Success(LastToken.span.offset))
          /\ UNCHANGED <<mode, scanned, tokens, noteVars>>
      BY <1>10 DEF StopAtTrailing, AfterNext
    <2>2. Success(LastToken.span.offset).ok \in BOOLEAN
      BY OutcomeHasVerdict
    <2> QED
      BY ONLY CoreInv, <1>1, <2>1, <2>2, ReturnInv
  <1>11. CASE SyntaxError
    <2>1. /\ la = None /\ Return(Failure(Diagnostic("syntax", LastToken)))
          /\ UNCHANGED <<mode, scanned, tokens, noteVars>>
      BY <1>11 DEF SyntaxError, AfterNext, syntaxErrorResult
    <2>2. Failure(Diagnostic("syntax", LastToken)).ok \in BOOLEAN
      BY OutcomeHasVerdict
    <2> QED
      BY ONLY CoreInv, <1>1, <2>1, <2>2, ReturnInv
  <1>12. CASE NoteToken
    BY <1>12, NoteTokenInv
  <1>13. CASE EndOfSource
    <2>1. /\ pc = "scan" /\ pc' = "tail"
          /\ UNCHANGED <<engineVars, mode, scanned, tokens, noteVars, outcome>>
      BY <1>13 DEF EndOfSource
    <2>2. /\ UNCHANGED <<yystack, phase, root, errors, inputIndex, state, la>>
          /\ ~Returned /\ ~Returned' /\ ~Called /\ ~Called'
          /\ LastToken' = LastToken /\ Top' = Top /\ sqlLength' = sqlLength
      BY <2>1 DEF engineVars, Returned, Called, LastToken, Top, sqlLength
    <2>3. CoreTypeOK'
      BY <1>1, <2>1, <2>2 DEF CoreInv, CoreTypeOK, EngineOK, EngineInv, noteVars
    <2>4. FedIsScanned' /\ InStep'
      BY <2>1, <2>2 DEF CoreInv, FedIsScanned, InStep
    <2> QED
      BY <1>1, <2>3, <2>4 DEF CoreInv
  <1>14. CASE SyntaxErrorInTail
    <2>1. /\ la = None /\ Return(Failure(Diagnostic("syntax", LastToken)))
          /\ UNCHANGED <<mode, scanned, tokens, noteVars>>
      BY <1>14 DEF SyntaxErrorInTail, syntaxErrorResult
    <2>2. Failure(Diagnostic("syntax", LastToken)).ok \in BOOLEAN
      BY OutcomeHasVerdict
    <2> QED
      BY ONLY CoreInv, <1>1, <2>1, <2>2, ReturnInv
  <1>15. CASE Finish
    <2> DEFINE result == IF state.errors # <<>> THEN [ok |-> FALSE, diagnostics |-> state.errors]
                         ELSE IF phase = "accepted" THEN Success(sqlLength)
                         ELSE [ok |-> FALSE,
                               diagnostics |-> <<[kind |-> "unaccepted", offset |-> 0]>>]
    <2>1. la = None /\ Return(result) /\ UNCHANGED <<mode, scanned, tokens, noteVars>>
      BY <1>15 DEF Finish
    <2>2. result.ok \in BOOLEAN
      BY OutcomeHasVerdict
    <2> HIDE DEF result
    <2> QED
      BY ONLY CoreInv, <1>1, <2>1, <2>2, ReturnInv
  <1>16. CASE UNCHANGED vars
    BY <1>1, <1>16 DEF vars, driverVars, noteVars, engineVars, CoreInv, CoreTypeOK, EngineOK,
                       EngineInv, FedIsScanned, InStep, Returned, Called, LastToken, Top, sqlLength
  <1> QED
    BY <1>2, <1>3, <1>4, <1>5, <1>7, <1>8, <1>9, <1>10, <1>11, <1>12, <1>13, <1>14, <1>15, <1>16
    DEF CoreNext, ParseLoop, EofTail

(* The driver and its session agree in every state of a parse. *)
THEOREM CoreInvariant == CoreSpec => []CoreInv
  BY CoreInitInv, CoreNextInv, PTL DEF CoreSpec
-----------------------------------------------------------------------------
(* The properties *)

(* runCore calls next between calls only, with the tokens of the source in *)
(* order, and changes nothing of the session itself.                       *)
THEOREM CoreKeepsContract == CoreSpec => EngineContract
  <1>1. CoreInit => Init
    BY DEF CoreInit
  <1> QED
    BY <1>1, CoreStepsEngine, CoreInvariant, PTL DEF CoreSpec, EngineContract

(* The state of a parse is well typed: openers holds openers, runCore has  *)
(* a result exactly when it has returned, and the result has a verdict.    *)
THEOREM CoreTypeCorrect == CoreSpec => []CoreTypeOK
  BY CoreInvariant, PTL DEF CoreInv

(* The engine's invariants hold in every parse: the stack is one a reduce  *)
(* can work on, and the verdict read off the session is one.               *)
THEOREM ParseIsSound == CoreSpec => [](SoundStack /\ SpansOrdered /\ SoundVerdict)
  <1>1. CoreInv => SoundStack /\ SpansOrdered /\ SoundVerdict
    BY DEF CoreInv, EngineOK, EngineInv, WellFormed, Grounded, PendingFits, SoundStack, SentinelKept,
           PendingReduceFits, StackIsPath, Top, SoundVerdict
  <1> QED
    BY <1>1, CoreInvariant, PTL

(* The position that the engine counts for a syntax error is the index of  *)
(* the last token runCore read, and the token it could not use that one.   *)
THEOREM ErrorsNameLastToken == CoreSpec => []ErrorNamesLastToken
  <1>1. CoreInv => ErrorNamesLastToken
    BY DEF CoreInv, InStep, ErrorNamesLastToken
  <1> QED
    BY <1>1, CoreInvariant, PTL

(* runCore takes no step once it has returned. *)
LEMMA ReturnedIsFinal == CoreInv /\ Returned /\ [CoreNext]_vars => UNCHANGED vars
  <1> SUFFICES ASSUME CoreInv, pc = "returned", CoreNext PROVE FALSE
    BY DEF Returned
  <1>1. la = None
    BY DEF CoreInv, InStep, Called
  <1>2. ~EngineStep
    BY <1>1 DEF EngineStep, Step, ReduceStep, ShiftStep, AcceptStep, ErrorStep
  <1> QED
    BY <1>2 DEF CoreNext, ParseLoop, EofTail, SkipTrivia, IllegalToken, FeedToken, RejectTrailing,
                StopAtTrailing, SyntaxError, NoteToken, AfterNext, EndOfSource, FeedSemi, FeedEof,
                SyntaxErrorInTail, Finish

(* A parse that was not to stop early accepts with an accepting session    *)
(* and no diagnostic only, neither the engine's nor the reducer's.         *)
THEOREM AcceptanceIsClean == CoreSpec => []AcceptedClean
  <1>1. CoreInit => AcceptedClean
    BY DEF CoreInit, AcceptedClean, Returned
  <1>2. CoreInv /\ AcceptedClean /\ [CoreNext]_vars => AcceptedClean'
    <2> SUFFICES ASSUME CoreInv, AcceptedClean, [CoreNext]_vars,
                        Returned', outcome'.ok, ~StopsEarly'
                 PROVE  phase' = "accepted" /\ errors' = <<>> /\ state'.errors = <<>>
      BY DEF AcceptedClean
    <2>1. CASE UNCHANGED vars
      BY <2>1 DEF vars, engineVars, driverVars, AcceptedClean, Returned, StopsEarly
    <2>2. CASE Finish
      <3>1. /\ errors = <<>> /\ UNCHANGED <<phase, errors, state>>
            /\ outcome' = IF state.errors # <<>> THEN [ok |-> FALSE, diagnostics |-> state.errors]
                          ELSE IF phase = "accepted" THEN Success(sqlLength)
                          ELSE [ok |-> FALSE,
                                diagnostics |-> <<[kind |-> "unaccepted", offset |-> 0]>>]
        BY <2>2 DEF Finish, Return, engineVars
      <3>2. state.errors = <<>> /\ phase = "accepted"
        BY <3>1
      <3> QED
        BY <3>1, <3>2
    <2>3. CASE StopAtTrailing
      BY <2>3 DEF StopAtTrailing, StopsEarly
    <2>4. ASSUME IllegalToken \/ RejectTrailing \/ SyntaxError \/ SyntaxErrorInTail
          PROVE  FALSE
      <3>1. \E diagnostic : outcome' = Failure(diagnostic)
        BY <2>4 DEF IllegalToken, RejectTrailing, SyntaxError, SyntaxErrorInTail, syntaxErrorResult,
                    Return
      <3> QED
        BY <3>1, OutcomeHasVerdict
    <2>5. ASSUME EngineStep \/ SkipTrivia \/ FeedToken \/ NoteToken \/ EndOfSource
                 \/ FeedSemi \/ FeedEof
          PROVE  UNCHANGED vars
      <3>1. pc' # "returned" \/ pc' = pc
        BY <2>5 DEF EngineStep, driverVars, SkipTrivia, FeedToken, NoteToken, EndOfSource, FeedSemi,
                    FeedEof, CallNext
      <3>2. Returned
        BY <3>1 DEF Returned
      <3> QED
        BY <3>2, ReturnedIsFinal
    <2> QED
      BY <2>1, <2>2, <2>3, <2>4, <2>5 DEF CoreNext, ParseLoop, EofTail
  <1> QED
    BY <1>1, <1>2, CoreInvariant, PTL DEF CoreSpec
=============================================================================
