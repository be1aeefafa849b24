------------------------------- MODULE Lempar -------------------------------
(***************************************************************************)
(* The incremental LALR(1) engine of src/lempar.ts: one session, fed one   *)
(* token per call of next().                                               *)
(*                                                                         *)
(* The call is synchronous, but it is a loop that runs the caller's        *)
(* reducer in the middle, so it is modelled one turn of the loop at a      *)
(* time: "la" holds the arguments of the call in progress, and the actions *)
(* ReduceStep, ShiftStep, AcceptStep and ErrorStep are the four branches   *)
(* of the loop.  A caller sees the states where la = None.                 *)
(*                                                                         *)
(* A definition named X_Something is X with a bug planted in it.  Nothing  *)
(* uses these: each shows, put in the place of X, that the property it is  *)
(* listed with in PROJECT.json can fail.                                   *)
(***************************************************************************)
EXTENDS Integers, Sequences, Undefined

CONSTANTS
  Terminal,     (* the TokenIds a caller feeds, 0 being end of input        *)
  Feeds,        (* the (major, minor, span) arguments callers pass to next  *)
  Ctx, V,       (* the type parameters: reducer state and semantic value    *)
  InitialState, (* what createState() returns                               *)
  Reducer(_, _, _, _) (* the results onReduce may return                    *)

(* defs.constants and defs.tables *)
CONSTANTS
  YY_MAX_SHIFT, YY_MIN_SHIFTREDUCE, YY_MAX_SHIFTREDUCE, YY_ERROR_ACTION,
  YY_ACCEPT_ACTION, YY_NO_ACTION, YY_MIN_REDUCE, YY_MAX_REDUCE,
  YY_ACTTAB_COUNT, YY_REDUCE_COUNT, YYWILDCARD,
  yy_action, yy_lookahead, yy_shift_ofst, yy_reduce_ofst, yy_default,
  yyFallback, yyRuleInfoLhs, yyRuleInfoNRhs

VARIABLES
  yystack,    (* #yystack                                          *)
  phase,      (* #phase                                            *)
  root,       (* #root                                             *)
  errors,     (* #errors                                           *)
  inputIndex, (* #inputIndex                                       *)
  state,      (* #state, which the reducer updates                 *)
  la          (* the arguments of the next() call in progress      *)

engineVars == <<yystack, phase, root, errors, inputIndex, state, la>>
-----------------------------------------------------------------------------
(* Types *)

Span == [offset : Nat, length : Nat, line : Nat, col : Nat]
End(span) == span.offset + span.length

State         == 0 .. YY_MAX_SHIFT
Rule          == 0 .. YY_MAX_REDUCE - YY_MIN_REDUCE
ShiftReduce   == YY_MIN_SHIFTREDUCE .. YY_MAX_SHIFTREDUCE
PendingReduce == YY_MIN_REDUCE .. YY_MAX_REDUCE
Verdict       == {YY_ERROR_ACTION, YY_ACCEPT_ACTION, YY_NO_ACTION}

(* array[i], JavaScript's arrays counting from 0 *)
At(array, i) == array[i + 1]

(* What an entry's stateno holds: a state, or an action code that is due   *)
(* as soon as the entry is looked at again.                                *)
StackCode == State \cup PendingReduce \cup {YY_ACCEPT_ACTION}

Entry     == [stateno : StackCode, major : Nat, minor : V \cup {None}, span : Span]
Lookahead == [major : Terminal, minor : V, span : Span]
LalrError == [stateno : StackCode, major : Terminal, tokenIndex : Nat]

Sentinel == [stateno |-> 0, major |-> 0, minor |-> None,
             span |-> [offset |-> 0, length |-> 0, line |-> 1, col |-> 0]]

ASSUME EncodingAssumption ==
  /\ {YY_MAX_SHIFT, YY_MIN_SHIFTREDUCE, YY_MAX_SHIFTREDUCE, YY_ERROR_ACTION,
      YY_ACCEPT_ACTION, YY_NO_ACTION, YY_MIN_REDUCE, YY_MAX_REDUCE} \subseteq Nat
  /\ YY_MAX_SHIFT < YY_MIN_SHIFTREDUCE
  /\ YY_MIN_SHIFTREDUCE <= YY_MAX_SHIFTREDUCE
  /\ YY_MAX_SHIFTREDUCE < YY_ERROR_ACTION
  /\ YY_ERROR_ACTION < YY_ACCEPT_ACTION
  /\ YY_ACCEPT_ACTION < YY_NO_ACTION
  /\ YY_NO_ACTION < YY_MIN_REDUCE
  /\ YY_MAX_REDUCE - YY_MIN_REDUCE = YY_MAX_SHIFTREDUCE - YY_MIN_SHIFTREDUCE

ASSUME RuleAssumption ==
  \A rule \in Rule : At(yyRuleInfoLhs, rule) \in Nat /\ At(yyRuleInfoNRhs, rule) \in Nat

ASSUME CallerAssumption ==
  /\ Terminal \subseteq Nat
  /\ Feeds \subseteq Lookahead
  /\ InitialState \in Ctx
  /\ None \notin Lookahead
-----------------------------------------------------------------------------
(* Table lookups *)

HasEntry(stateno, symbol) ==
  LET i == At(yy_shift_ofst, stateno) + symbol
  IN  i \in 0 .. Len(yy_lookahead) - 1 /\ At(yy_lookahead, i) = symbol

(* The %fallback retry.  The loop in the code would follow a chain of      *)
(* fallbacks; no fallback of the shipped tables has one of its own.        *)
AfterFallback(stateno, lookahead) ==
  IF HasEntry(stateno, lookahead) \/ At(yyFallback, lookahead) = 0
  THEN lookahead
  ELSE At(yyFallback, lookahead)

ASSUME FallbackAssumption ==
  \A t \in Terminal : At(yyFallback, t) # 0 => At(yyFallback, At(yyFallback, t)) = 0

yy_find_shift_action(lookahead, stateno) ==
  IF stateno > YY_MAX_SHIFT
  THEN stateno
  ELSE LET symbol == AfterFallback(stateno, lookahead)
           base   == At(yy_shift_ofst, stateno)
       IN  IF HasEntry(stateno, symbol) THEN At(yy_action, base + symbol)
           ELSE IF HasEntry(stateno, YYWILDCARD) /\ symbol > 0
                THEN At(yy_action, base + YYWILDCARD)
                ELSE At(yy_default, stateno)

HasGoto(stateno, lhs) ==
  LET i == At(yy_reduce_ofst, stateno) + lhs
  IN  /\ stateno <= YY_REDUCE_COUNT
      /\ i \in 0 .. YY_ACTTAB_COUNT - 1
      /\ At(yy_lookahead, i) = lhs

yy_find_reduce_action(stateno, lhs) ==
  IF HasGoto(stateno, lhs)
  THEN At(yy_action, At(yy_reduce_ofst, stateno) + lhs)
  ELSE At(yy_default, stateno)

Shifted_Verbatim(act) == act
Shifted_OffByOne(act) ==
  IF act > YY_MAX_SHIFT THEN act + YY_MIN_REDUCE - YY_MIN_SHIFTREDUCE + 1 ELSE act
Shifted(act) == IF act > YY_MAX_SHIFT
                THEN act + YY_MIN_REDUCE - YY_MIN_SHIFTREDUCE
                ELSE act
-----------------------------------------------------------------------------
(* The session *)

TopOf(s) == s[Len(s)]
Top == TopOf(yystack)

Init ==
  /\ yystack = <<Sentinel>>
  /\ phase = "running"
  /\ root = None
  /\ errors = <<>>
  /\ inputIndex = 0
  /\ state = InitialState
  /\ la = None

(* Entering next(): after accepted or errored the call returns at once.    *)
Call(feed) ==
  /\ la = None
  /\ la' = IF phase = "running" THEN feed ELSE None
  /\ UNCHANGED <<yystack, phase, root, errors, inputIndex, state>>

Act == yy_find_shift_action(la.major, Top.stateno)

(* The entries above the first keep, in source order. *)
Popped_LastFirst(keep) ==
  [i \in 1 .. Len(yystack) - keep |-> yystack[Len(yystack) + 1 - i]]
Popped(keep) == SubSeq(yystack, keep + 1, Len(yystack))

RuleSpan_EmptyAtStart(popped, below) ==
  IF popped = <<>>
  THEN [below.span EXCEPT !.length = 0]
  ELSE [popped[1].span EXCEPT !.length = End(TopOf(popped).span) - popped[1].span.offset]
RuleSpan(popped, below) ==
  IF popped = <<>>
  THEN [offset |-> End(below.span), length |-> 0,
        line |-> below.span.line, col |-> below.span.col]
  ELSE LET first == popped[1].span
       IN  [offset |-> first.offset,
            length |-> End(TopOf(popped).span) - first.offset,
            line   |-> first.line,
            col    |-> first.col]

yy_reduce(rule) ==
  LET keep     == Len(yystack) - At(yyRuleInfoNRhs, rule)
      below    == SubSeq(yystack, 1, keep)
      popped   == Popped(keep)
      ruleSpan == RuleSpan(popped, TopOf(below))
      lhs      == At(yyRuleInfoLhs, rule)
  IN  \E result \in Reducer(state, rule, popped, ruleSpan) :
        /\ result \in [state : Ctx, minor : V \cup {None}]
        /\ state' = result.state
        /\ yystack' = Append(below,
                             [stateno |-> yy_find_reduce_action(TopOf(below).stateno, lhs),
                              major   |-> lhs,
                              minor   |-> result.minor,
                              span    |-> ruleSpan])

ReduceStep ==
  /\ la # None
  /\ Act >= YY_MIN_REDUCE
  /\ yy_reduce(Act - YY_MIN_REDUCE)
  /\ UNCHANGED <<phase, root, errors, inputIndex, la>>

ShiftStep_Uncounted ==
  /\ la # None
  /\ Act <= YY_MAX_SHIFTREDUCE
  /\ yystack' = Append(yystack, [stateno |-> Shifted(Act), major |-> la.major,
                                 minor |-> la.minor, span |-> la.span])
  /\ la' = None
  /\ UNCHANGED <<phase, root, errors, inputIndex, state>>

ShiftStep ==
  /\ la # None
  /\ Act <= YY_MAX_SHIFTREDUCE
  /\ yystack' = Append(yystack, [stateno |-> Shifted(Act), major |-> la.major,
                                 minor |-> la.minor, span |-> la.span])
  /\ inputIndex' = inputIndex + 1
  /\ la' = None
  /\ UNCHANGED <<phase, root, errors, state>>

AcceptStep_FallsThrough ==
  /\ la # None
  /\ Act = YY_ACCEPT_ACTION
  /\ root' = Top.minor
  /\ phase' = "accepted"
  /\ UNCHANGED <<yystack, errors, inputIndex, state, la>>

AcceptStep ==
  /\ la # None
  /\ Act = YY_ACCEPT_ACTION
  /\ root' = Top.minor
  /\ phase' = "accepted"
  /\ la' = None
  /\ UNCHANGED <<yystack, errors, inputIndex, state>>

ErrorStep_ReportsAction ==
  /\ la # None
  /\ Act \in {YY_ERROR_ACTION, YY_NO_ACTION}
  /\ errors' = Append(errors, [stateno |-> Act, major |-> la.major, tokenIndex |-> inputIndex])
  /\ phase' = "errored"
  /\ la' = None
  /\ UNCHANGED <<yystack, root, inputIndex, state>>

ErrorStep ==
  /\ la # None
  /\ Act \in {YY_ERROR_ACTION, YY_NO_ACTION}
  /\ errors' = Append(errors, [stateno |-> Top.stateno, major |-> la.major,
                               tokenIndex |-> inputIndex])
  /\ phase' = "errored"
  /\ la' = None
  /\ UNCHANGED <<yystack, root, inputIndex, state>>

Step == ReduceStep \/ ShiftStep \/ AcceptStep \/ ErrorStep

(* A caller feeds tokens in source order. *)
Feed == \E feed \in Feeds :
          /\ feed.span.offset >= End(Top.span)
          /\ Call(feed)

Next == Feed \/ Step

Spec == Init /\ [][Next]_engineVars /\ WF_engineVars(Step)
-----------------------------------------------------------------------------
(* Properties *)

TypeOK ==
  /\ yystack \in Seq(Entry)
  /\ phase \in {"running", "accepted", "errored"}
  /\ root \in V \cup {None}
  /\ errors \in Seq(LalrError)
  /\ inputIndex \in Nat
  /\ state \in Ctx
  /\ la \in Lookahead \cup {None}

(* The engine never pops the sentinel at the bottom of the stack, so no    *)
(* reducer sees its undefined minor, and only the top entry holds the code *)
(* of a reduce: every state below can be looked up in the tables.          *)
SentinelKept ==
  /\ Len(yystack) >= 1
  /\ yystack[1] = Sentinel
  /\ \A i \in 1 .. Len(yystack) - 1 : yystack[i].stateno \in State

(* When the top entry holds the code of a reduce, its whole right-hand     *)
(* side lies above the sentinel and the state uncovered by popping it has  *)
(* a GOTO entry: the table lookup always succeeds, and falling back to     *)
(* yy_default on out-of-range input is indeed only a defence.              *)
PendingReduceFits ==
  Top.stateno \in PendingReduce =>
    LET rule == Top.stateno - YY_MIN_REDUCE
        n    == At(yyRuleInfoNRhs, rule)
    IN  /\ n \in 1 .. Len(yystack) - 1
        /\ HasGoto(yystack[Len(yystack) - n].stateno, At(yyRuleInfoLhs, rule))

(* The spans on the stack tile the consumed input from left to right: no   *)
(* entry starts before one below it ends, however many reductions have     *)
(* merged or inserted spans, and the token in flight starts after them     *)
(* all.  AST nodes take their spans from these.                            *)
SpansOrdered ==
  /\ \A i \in 1 .. Len(yystack) : \A j \in 1 .. i - 1 :
       End(yystack[j].span) <= yystack[i].span.offset
  /\ la # None => End(Top.span) <= la.span.offset

(* The verdict is one verdict: the session has errored exactly when it     *)
(* holds the one error, which names the token after the shifted ones, and  *)
(* a root is there only on acceptance.                                     *)
VerdictConsistent ==
  /\ phase = "errored" <=> errors # <<>>
  /\ Len(errors) <= 1
  /\ \A e \in 1 .. Len(errors) : errors[e].tokenIndex = inputIndex
  /\ phase # "accepted" => root = None
  /\ phase # "running" => la = None

(* An error is reported from a parser state, never from a code that only   *)
(* stands for a pending reduce: diagnostics index yy_expected with it.     *)
ErrorHasState == \A e \in 1 .. Len(errors) : errors[e].stateno \in State

(* What runCore reads off a session when a call returns: one verdict, with *)
(* an error that can be diagnosed.                                         *)
SoundVerdict == VerdictConsistent /\ ErrorHasState

(* Every call of next() returns: no state of the tables chains default     *)
(* reductions for ever.                                                    *)
NextReturns == la # None ~> la = None
=============================================================================
