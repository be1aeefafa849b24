---------------------------- MODULE LemparProofs ----------------------------
(***************************************************************************)
(* The engine's invariants, for every table that satisfies the assumptions *)
(* of LemparTables, every reducer and every caller.                        *)
(*                                                                         *)
(* The argument: the stack is well formed (WellFormed: it stands on the    *)
(* sentinel, only its top can be a pending action, its states spell a path *)
(* of the automaton, and a pending reduce fits), and the two ways it       *)
(* changes keep it so, pushing an entry a table action allows (Push) and   *)
(* cutting it back to a lower entry (Cut).  The sentinel's state 0 does    *)
(* not lie below any entry a right-hand side covers, so a reduce never     *)
(* reaches it (FitsAbove).                                                 *)
(***************************************************************************)
EXTENDS LemparTables, SequenceTheorems, TLAPS

(* Every entry of the stack is in a state, the top one too. *)
Settled(stack) == \A i \in 1 .. Len(stack) : stack[i].stateno \in State

Grounded(stack) ==
  /\ stack \in Seq(Entry)
  /\ Len(stack) >= 1
  /\ stack[1] = Sentinel
  /\ \A i \in 1 .. Len(stack) - 1 : stack[i].stateno \in State

(* PendingReduceFits, of any stack. *)
PendingFits(stack) ==
  TopOf(stack).stateno \in PendingReduce =>
    LET rule == TopOf(stack).stateno - YY_MIN_REDUCE
        n    == At(yyRuleInfoNRhs, rule)
    IN  /\ n \in 1 .. Len(stack) - 1
        /\ HasGoto(stack[Len(stack) - n].stateno, At(yyRuleInfoLhs, rule))

WellFormed(stack) == Grounded(stack) /\ IsPath(stack) /\ PendingFits(stack)

(* What a table action on top of state s may push. *)
Pushable(code, s) ==
  \/ code \in State /\ LiesAbove(code, s)
  \/ code \in PendingReduce /\ Fits(code - YY_MIN_REDUCE, 1, s)
  \/ code = YY_ACCEPT_ACTION

-----------------------------------------------------------------------------
(* The codes of the encoding do not overlap. *)
LEMMA Encoding ==
  /\ YY_MIN_REDUCE \in Nat /\ YY_MIN_SHIFTREDUCE \in Nat /\ YY_MAX_SHIFTREDUCE \in Nat
  /\ 0 \in State
  /\ \A act \in State : act \in Nat /\ act <= YY_MAX_SHIFTREDUCE
                          /\ act \notin PendingReduce /\ act # YY_ACCEPT_ACTION
  /\ \A act \in ShiftReduce : act \in Nat /\ act > YY_MAX_SHIFT /\ act <= YY_MAX_SHIFTREDUCE
                                /\ act + YY_MIN_REDUCE - YY_MIN_SHIFTREDUCE \in PendingReduce
                                /\ act - YY_MIN_SHIFTREDUCE \in Rule
  /\ \A act \in PendingReduce : act \in Nat /\ act > YY_MAX_SHIFT /\ act > YY_MAX_SHIFTREDUCE
                                  /\ act >= YY_MIN_REDUCE /\ act \notin Verdict
                                  /\ act - YY_MIN_REDUCE \in Rule
  /\ \A act \in Verdict : act \in Nat /\ act > YY_MAX_SHIFT /\ act > YY_MAX_SHIFTREDUCE
                            /\ act < YY_MIN_REDUCE
  /\ YY_MAX_SHIFTREDUCE < YY_MIN_REDUCE
  /\ YY_ACCEPT_ACTION \notin {YY_ERROR_ACTION, YY_NO_ACTION}
  BY EncodingAssumption DEF State, ShiftReduce, PendingReduce, Verdict, Rule

(* With the last j symbols of a rule above the top of a settled stack, the *)
(* rest of its right-hand side lies above the sentinel, and the state      *)
(* below it has a GOTO for the rule.                                       *)
LEMMA FitsAbove ==
  ASSUME NEW stack, Grounded(stack), Settled(stack), IsPath(stack),
         NEW rule \in Rule, NEW j \in {0, 1},
         Fits(rule, j, TopOf(stack).stateno)
  PROVE  LET n == At(yyRuleInfoNRhs, rule)
         IN  /\ n \in j .. Len(stack) - 1 + j
             /\ HasGoto(stack[Len(stack) - (n - j)].stateno, At(yyRuleInfoLhs, rule))
  <1> DEFINE n == At(yyRuleInfoNRhs, rule)
             s == TopOf(stack).stateno
  <1>1. /\ n \in Nat /\ n >= j /\ n <= MaxRhs /\ MaxRhs \in Nat
        /\ \A k \in 0 .. n - j - 1 : 0 \notin Back[s][k]
        /\ \A b \in Back[s][n - j] : HasGoto(b, At(yyRuleInfoLhs, rule))
    BY RuleAssumption, BackAssumption DEF Fits
  <1>2. Len(stack) \in Nat /\ Len(stack) >= 1
    BY DEF Grounded
  <1>3. \A k \in 0 .. MaxRhs : k < Len(stack) => stack[Len(stack) - k].stateno \in Back[s][k]
    BY <1>2 DEF IsPath, Settled, TopOf
  <1>4. n - j < Len(stack)
    <2> SUFFICES ASSUME n - j >= Len(stack) PROVE FALSE
      BY <1>1, <1>2
    <2>1. Len(stack) - 1 \in 0 .. n - j - 1 /\ Len(stack) - 1 \in 0 .. MaxRhs
      BY <1>1, <1>2
    <2>2. stack[Len(stack) - (Len(stack) - 1)] = Sentinel
      BY <1>2 DEF Grounded
    <2>3. Sentinel.stateno \in Back[s][Len(stack) - 1]
      BY <1>2, <1>3, <2>1, <2>2
    <2> QED
      BY <1>1, <2>1, <2>3 DEF Sentinel
  <1>5. stack[Len(stack) - (n - j)].stateno \in Back[s][n - j]
    BY <1>1, <1>3, <1>4
  <1> QED
    BY <1>1, <1>2, <1>4, <1>5

(* Cutting a stack back to a lower entry keeps it well formed, and settles *)
(* it when that entry is in a state.                                       *)
LEMMA Cut ==
  ASSUME NEW stack, Grounded(stack), IsPath(stack),
         NEW keep \in 1 .. Len(stack), stack[keep].stateno \in State
  PROVE  LET below == SubSeq(stack, 1, keep)
         IN  /\ Grounded(below) /\ Settled(below) /\ IsPath(below)
             /\ Len(below) = keep
             /\ \A i \in 1 .. keep : below[i] = stack[i]
  <1> DEFINE below == SubSeq(stack, 1, keep)
  <1>1. /\ Len(stack) \in Nat /\ keep \in Nat /\ keep >= 1 /\ keep <= Len(stack)
        /\ stack \in Seq(Entry)
    BY DEF Grounded
  <1>2. /\ below \in Seq(Entry) /\ Len(below) = keep
        /\ \A i \in 1 .. keep : below[i] = stack[i]
    BY <1>1
  <1>3. Settled(below)
    BY <1>1, <1>2 DEF Grounded, Settled
  <1>4. Grounded(below)
    BY <1>1, <1>2, <1>3 DEF Grounded, Settled
  <1>5. IsPath(below)
    <2> SUFFICES ASSUME NEW i \in 1 .. keep, NEW k \in 0 .. MaxRhs
                 PROVE  /\ below[i].stateno \in Reached
                        /\ k < i => below[i - k].stateno \in Back[below[i].stateno][k]
      BY <1>2, <1>3, BackAssumption DEF IsPath
    <2>1. stack[i].stateno \in State /\ below[i] = stack[i]
      BY <1>2, <1>3 DEF Settled
    <2>2. k < i => below[i - k] = stack[i - k]
      BY <1>2, BackAssumption
    <2> QED
      BY <1>1, <2>1, <2>2 DEF IsPath
  <1> QED
    BY <1>2, <1>3, <1>4, <1>5

(* Pushing what a table action allows keeps a settled stack well formed.   *)
LEMMA Push ==
  ASSUME NEW stack, Grounded(stack), Settled(stack), IsPath(stack),
         NEW entry \in Entry, Pushable(entry.stateno, TopOf(stack).stateno)
  PROVE  WellFormed(Append(stack, entry))
  <1> DEFINE pushed == Append(stack, entry)
             n      == Len(stack)
             s      == TopOf(stack).stateno
             act    == entry.stateno
  <1>1. n \in Nat /\ n >= 1 /\ stack \in Seq(Entry) /\ s \in State /\ s = stack[n].stateno
    BY DEF Grounded, Settled, TopOf
  <1>2. /\ pushed \in Seq(Entry) /\ Len(pushed) = n + 1 /\ pushed[n + 1] = entry
        /\ \A i \in 1 .. n : pushed[i] = stack[i]
    BY <1>1
  <1>3. Grounded(pushed)
    BY <1>1, <1>2 DEF Grounded, Settled
  <1>4. IsPath(pushed)
    <2> SUFFICES ASSUME NEW i \in 1 .. n + 1, pushed[i].stateno \in State
                 PROVE  /\ pushed[i].stateno \in Reached
                        /\ \A k \in 0 .. MaxRhs :
                             k < i => pushed[i - k].stateno \in Back[pushed[i].stateno][k]
      BY <1>2 DEF IsPath
    <2>1. CASE i <= n
      <3>1. \A k \in 0 .. MaxRhs : k < i => pushed[i - k] = stack[i - k]
        BY <1>1, <1>2, <2>1, BackAssumption
      <3> QED
        BY <1>1, <1>2, <2>1, <3>1 DEF IsPath, Settled
    <2>2. CASE i = n + 1
      <3>1. act \in State /\ LiesAbove(act, s)
        BY <1>1, <1>2, <2>2, Encoding DEF Pushable
      <3>2. ASSUME NEW k \in 0 .. MaxRhs, k < i
            PROVE  pushed[i - k].stateno \in Back[act][k]
        <4>1. CASE k = 0
          BY <1>1, <1>2, <2>2, <3>1, <4>1, BackAssumption DEF LiesAbove
        <4>2. CASE k > 0
          <5>1. k - 1 \in 0 .. MaxRhs - 1 /\ k - 1 \in 0 .. MaxRhs /\ k - 1 < n
            BY <1>1, <2>2, <3>2, <4>2, BackAssumption
          <5>2. pushed[i - k] = stack[n - (k - 1)]
            BY <1>1, <1>2, <2>2, <3>2, <4>2, BackAssumption
          <5>3. stack[n - (k - 1)].stateno \in Back[s][k - 1]
            BY <1>1, <5>1 DEF IsPath, Settled
          <5>4. Back[s][k - 1] \subseteq Back[act][(k - 1) + 1]
            BY <3>1, <5>1 DEF LiesAbove
          <5> QED
            BY <4>2, <5>1, <5>2, <5>3, <5>4, BackAssumption
        <4>3. k = 0 \/ k > 0
          BY BackAssumption
        <4> QED
          BY <4>1, <4>2, <4>3
      <3> QED
        BY <1>1, <1>2, <2>2, <3>1, <3>2 DEF LiesAbove
    <2> QED
      BY <1>1, <2>1, <2>2
  <1>5. PendingFits(pushed)
    <2> SUFFICES ASSUME act \in PendingReduce
                 PROVE  LET rule == act - YY_MIN_REDUCE
                            m    == At(yyRuleInfoNRhs, rule)
                        IN  /\ m \in 1 .. n
                            /\ HasGoto(pushed[n + 1 - m].stateno, At(yyRuleInfoLhs, rule))
      BY <1>1, <1>2 DEF PendingFits, TopOf
    <2> DEFINE rule == act - YY_MIN_REDUCE
               m    == At(yyRuleInfoNRhs, rule)
    <2>1. rule \in Rule /\ Fits(rule, 1, s)
      BY Encoding DEF Pushable, State, Verdict
    <2>2. m \in 1 .. n /\ HasGoto(stack[n - (m - 1)].stateno, At(yyRuleInfoLhs, rule))
      BY <1>1, <2>1, FitsAbove
    <2>3. pushed[n + 1 - m] = stack[n - (m - 1)]
      BY <1>1, <1>2, <2>2
    <2> QED
      BY <2>2, <2>3
  <1> QED
    BY <1>3, <1>4, <1>5 DEF WellFormed
-----------------------------------------------------------------------------
(* Spans *)

(* SpansOrdered, of any stack. *)
Ordered(stack) ==
  \A i \in 1 .. Len(stack) : \A j \in 1 .. i - 1 :
    End(stack[j].span) <= stack[i].span.offset

LEMMA SpanTypes ==
  ASSUME NEW entry \in Entry
  PROVE  /\ entry.span \in Span /\ entry.span.offset \in Nat /\ entry.span.length \in Nat
         /\ entry.span.line \in Nat /\ entry.span.col \in Nat
         /\ End(entry.span) \in Nat /\ entry.span.offset <= End(entry.span)
  <1>1. entry.span \in Span
    BY DEF Entry
  <1> QED
    BY <1>1 DEF Span, End

(* In an ordered stack no entry starts after the end of a higher one.      *)
LEMMA OrderedEnds ==
  ASSUME NEW stack \in Seq(Entry), Ordered(stack),
         NEW i \in 1 .. Len(stack), NEW j \in 1 .. i
  PROVE  stack[j].span.offset <= End(stack[i].span) /\ End(stack[j].span) <= End(stack[i].span)
  <1>1. stack[i] \in Entry /\ stack[j] \in Entry
    OBVIOUS
  <1>2. CASE j = i
    BY <1>1, <1>2, SpanTypes
  <1>3. CASE j < i
    <2>1. End(stack[j].span) <= stack[i].span.offset
      BY <1>3 DEF Ordered
    <2>2. /\ stack[i].span.offset \in Nat /\ End(stack[i].span) \in Nat
          /\ stack[i].span.offset <= End(stack[i].span)
      BY <1>1, SpanTypes
    <2>3. /\ stack[j].span.offset \in Nat /\ End(stack[j].span) \in Nat
          /\ stack[j].span.offset <= End(stack[j].span)
      BY <1>1, SpanTypes
    <2> QED
      BY <2>1, <2>2, <2>3
  <1> QED
    BY <1>2, <1>3

(* The span of a rule lies after the entry it uncovers and ends where the  *)
(* stack does, so its length is not negative.                              *)
LEMMA RuleSpanFits ==
  ASSUME NEW stack \in Seq(Entry), Ordered(stack), NEW keep \in 1 .. Len(stack)
  PROVE  LET span == RuleSpan(SubSeq(stack, keep + 1, Len(stack)), stack[keep])
         IN  /\ span \in Span
             /\ End(stack[keep].span) <= span.offset
             /\ End(span) = End(TopOf(stack).span)
  <1> DEFINE n      == Len(stack)
             popped == SubSeq(stack, keep + 1, n)
             span   == RuleSpan(popped, stack[keep])
  <1>1. /\ n \in Nat /\ keep \in Nat /\ keep >= 1 /\ keep <= n
        /\ stack[keep] \in Entry /\ stack[n] \in Entry
    OBVIOUS
  <1>2. CASE keep = n
    <2>1. popped = <<>>
      BY <1>1, <1>2, SubSeqEmpty
    <2>2. /\ stack[keep].span.line \in Nat /\ stack[keep].span.col \in Nat
          /\ End(stack[keep].span) \in Nat
      BY <1>1, SpanTypes
    <2>3. span = [offset |-> End(stack[keep].span), length |-> 0,
                  line |-> stack[keep].span.line, col |-> stack[keep].span.col]
      BY <2>1 DEF RuleSpan
    <2> QED
      BY <1>2, <2>2, <2>3 DEF Span, End, TopOf
  <1>3. CASE keep < n
    <2>1. Len(popped) = n - keep /\ popped[1] = stack[keep + 1] /\ popped[n - keep] = stack[n]
      <3>1. PICK m \in Int : m = keep + 1
        BY <1>1
      <3>2. \A i \in m .. n : stack[i] \in Entry
        BY <1>1, <3>1
      <3>3. m <= n /\ n \in Int
        BY <1>1, <1>3, <3>1
      <3>4. /\ Len(SubSeq(stack, m, n)) = n - m + 1
            /\ \A i \in 1 .. n - m + 1 : SubSeq(stack, m, n)[i] = stack[m + i - 1]
        BY ONLY <3>1, <3>2, <3>3, SubSeqProperties
      <3>5. popped = SubSeq(stack, m, n)
        BY <3>1
      <3> HIDE DEF popped
      <3>6. Len(popped) = n - keep
        BY <1>1, <3>1, <3>4, <3>5
      <3>7. \A i \in 1 .. n - keep : popped[i] = stack[keep + i]
        <4> SUFFICES ASSUME NEW i \in 1 .. n - keep PROVE popped[i] = stack[keep + i]
          OBVIOUS
        <4>1. i \in 1 .. n - m + 1 /\ m + i - 1 = keep + i
          BY <1>1, <3>1
        <4> QED
          BY ONLY <3>4, <3>5, <4>1
      <3>8. 1 \in 1 .. n - keep /\ n - keep \in 1 .. n - keep /\ keep + (n - keep) = n
        BY <1>1, <1>3
      <3> QED
        BY ONLY <3>6, <3>7, <3>8
    <2>2. popped # <<>>
      <3> HIDE DEF popped
      <3> QED
        BY <1>1, <1>3, <2>1
    <2>3. span = [offset |-> stack[keep + 1].span.offset,
                  length |-> End(stack[n].span) - stack[keep + 1].span.offset,
                  line   |-> stack[keep + 1].span.line,
                  col    |-> stack[keep + 1].span.col]
      BY <2>1, <2>2 DEF RuleSpan, TopOf
    <2>4. End(stack[keep].span) <= stack[keep + 1].span.offset
      BY <1>1, <1>3 DEF Ordered
    <2>5. stack[keep + 1].span.offset <= End(stack[n].span)
      BY <1>1, <1>3, OrderedEnds
    <2>6. stack[keep + 1] \in Entry
      BY <1>1, <1>3
    <2>7. /\ stack[keep + 1].span.offset \in Nat /\ stack[keep + 1].span.line \in Nat
          /\ stack[keep + 1].span.col \in Nat
      BY <2>6, SpanTypes
    <2>8. End(stack[n].span) \in Nat
      BY <1>1, SpanTypes
    <2>9. span \in Span
      BY <2>3, <2>5, <2>7, <2>8 DEF Span
    <2>10. End(span) = End(stack[n].span)
      <3> HIDE DEF popped
      <3>1. /\ span.offset = stack[keep + 1].span.offset
            /\ span.length = End(stack[n].span) - stack[keep + 1].span.offset
        BY <2>3
      <3> QED
        BY <3>1, <2>7, <2>8 DEF End
    <2> QED
      BY <2>3, <2>4, <2>9, <2>10 DEF TopOf
  <1> QED
    BY <1>1, <1>2, <1>3

(* An entry that starts after the end of an ordered stack extends it.      *)
LEMMA PushOrdered ==
  ASSUME NEW stack \in Seq(Entry), Len(stack) >= 1, Ordered(stack),
         NEW entry \in Entry, End(TopOf(stack).span) <= entry.span.offset
  PROVE  Ordered(Append(stack, entry))
  <1> DEFINE n      == Len(stack)
             pushed == Append(stack, entry)
  <1>1. /\ n \in Nat /\ Len(pushed) = n + 1 /\ pushed[n + 1] = entry
        /\ \A i \in 1 .. n : pushed[i] = stack[i]
    OBVIOUS
  <1> SUFFICES ASSUME NEW i \in 1 .. n + 1, NEW j \in 1 .. i - 1
               PROVE  End(pushed[j].span) <= pushed[i].span.offset
    BY <1>1 DEF Ordered
  <1>2. CASE i <= n
    BY <1>1, <1>2 DEF Ordered
  <1>3. CASE i = n + 1
    <2>1. End(stack[n].span) <= entry.span.offset
      BY DEF TopOf
    <2>2. j \in 1 .. n /\ pushed[j] = stack[j] /\ n \in 1 .. n
      BY <1>1, <1>3
    <2>3. End(stack[j].span) <= End(stack[n].span)
      BY <2>2, OrderedEnds
    <2>4. stack[j] \in Entry /\ stack[n] \in Entry
      BY <2>2
    <2>5. /\ End(stack[j].span) \in Nat /\ End(stack[n].span) \in Nat
          /\ entry.span.offset \in Nat
      BY <2>4, SpanTypes
    <2> QED
      BY <1>1, <1>3, <2>1, <2>2, <2>3, <2>5
  <1> QED
    BY <1>1, <1>2, <1>3
-----------------------------------------------------------------------------
(* The inductive invariant *)

(* What the properties rest on.  WellFormed and SpansOrdered are part of   *)
(* it because TypeOK alone is not inductive: a reduce gives its entry a    *)
(* span of non-negative length only if the spans are in order, and a state *)
(* from the GOTO table only if it fits the stack.                          *)
EngineInv == TypeOK /\ WellFormed(yystack) /\ SpansOrdered

(* The dispatch loop looks at an action of the top state, or at the code   *)
(* the top entry holds.                                                    *)
LEMMA Dispatch ==
  ASSUME EngineInv, la # None
  PROVE  /\ la \in Lookahead
         /\ Top.stateno \notin State => Act = Top.stateno
         /\ Top.stateno \in State =>
              /\ Settled(yystack)
              /\ \/ Act \in State /\ LiesAbove(Act, Top.stateno)
                 \/ Act \in ShiftReduce /\ Fits(Act - YY_MIN_SHIFTREDUCE, 1, Top.stateno)
                 \/ Act \in PendingReduce /\ Fits(Act - YY_MIN_REDUCE, 0, Top.stateno)
                 \/ Act \in Verdict
         /\ Top.stateno \in State \/ Top.stateno \in PendingReduce
              \/ Top.stateno = YY_ACCEPT_ACTION
  <1>1. /\ la \in Lookahead /\ la.major \in Terminal
    BY DEF EngineInv, TypeOK, Lookahead
  <1>2. /\ Len(yystack) \in Nat /\ Len(yystack) >= 1 /\ Top = yystack[Len(yystack)]
        /\ Top \in Entry
    BY DEF EngineInv, WellFormed, Grounded, Top, TopOf
  <1>3. Top.stateno \in StackCode
    BY <1>2 DEF Entry
  <1>4. ASSUME Top.stateno \notin State
        PROVE  Act = Top.stateno
    <2>1. Top.stateno > YY_MAX_SHIFT
      BY <1>3, <1>4, Encoding DEF StackCode, Verdict
    <2> QED
      BY <1>4, <2>1 DEF Act, yy_find_shift_action
  <1>5. ASSUME Top.stateno \in State
        PROVE  Settled(yystack) /\ Top.stateno \in Reached
    <2>1. Settled(yystack)
      BY <1>2, <1>5 DEF EngineInv, WellFormed, Grounded, Settled
    <2>2. Top.stateno \in Reached
      BY <1>2, <1>5 DEF EngineInv, WellFormed, IsPath
    <2> QED
      BY <2>1, <2>2
  <1>6. Act \in ShiftActions(Top.stateno)
    BY <1>1 DEF Act, ShiftActions
  <1> QED
    BY <1>1, <1>3, <1>4, <1>5, <1>6, ShiftTableAssumption DEF StackCode

LEMMA InitInv == Init => EngineInv
  <1> SUFFICES ASSUME Init PROVE EngineInv
    OBVIOUS
  <1>1. Sentinel \in Entry
    BY Encoding DEF Sentinel, Entry, StackCode, Span
  <1>2. /\ yystack \in Seq(Entry) /\ Len(yystack) = 1 /\ yystack[1] = Sentinel
    BY <1>1 DEF Init
  <1>3. TypeOK
    BY <1>2, CallerAssumption DEF Init, TypeOK
  <1>4. Sentinel.stateno = 0
    BY DEF Sentinel
  <1>5. IsPath(yystack)
    BY <1>2, <1>4, BackAssumption DEF IsPath
  <1>6. WellFormed(yystack)
    BY <1>2, <1>4, <1>5, Encoding DEF WellFormed, Grounded, PendingFits, TopOf
  <1>7. SpansOrdered
    BY <1>2 DEF Init, SpansOrdered
  <1> QED
    BY <1>3, <1>6, <1>7 DEF EngineInv

LEMMA FeedInv == EngineInv /\ Feed => EngineInv'
  <1> SUFFICES ASSUME EngineInv, NEW feed \in Feeds,
                      feed.span.offset >= End(Top.span), Call(feed)
               PROVE  EngineInv'
    BY DEF Feed
  <1>1. UNCHANGED <<yystack, phase, root, errors, inputIndex, state>>
    BY DEF Call
  <1>2. la' \in Lookahead \cup {None} /\ (la' # None => la' = feed)
    BY CallerAssumption DEF Call
  <1>3. TypeOK'
    BY <1>1, <1>2 DEF EngineInv, TypeOK
  <1>4. WellFormed(yystack)'
    BY <1>1 DEF EngineInv
  <1>5. SpansOrdered'
    <2>1. Top \in Entry /\ feed \in Lookahead
      BY CallerAssumption DEF EngineInv, WellFormed, Grounded, Top, TopOf
    <2>2. End(Top.span) \in Nat /\ feed.span.offset \in Nat
      BY <2>1, SpanTypes DEF Lookahead, Span
    <2>3. End(Top.span) <= feed.span.offset
      BY <2>2
    <2> QED
      BY <1>1, <1>2, <2>3 DEF EngineInv, SpansOrdered, Top
  <1> QED
    BY <1>3, <1>4, <1>5 DEF EngineInv

(* ShiftStep pushes the token with the state, or the pending reduce, that  *)
(* the table gives.                                                        *)
LEMMA ShiftInv == EngineInv /\ ShiftStep => EngineInv'
  <1> SUFFICES ASSUME EngineInv, ShiftStep PROVE EngineInv'
    OBVIOUS
  <1> DEFINE entry == [stateno |-> Shifted(Act), major |-> la.major,
                       minor |-> la.minor, span |-> la.span]
  <1>1. /\ yystack' = Append(yystack, entry) /\ la' = None /\ inputIndex' = inputIndex + 1
        /\ UNCHANGED <<phase, root, errors, state>>
    BY DEF ShiftStep
  <1>2. /\ la \in Lookahead /\ la # None /\ Act <= YY_MAX_SHIFTREDUCE
    BY Dispatch DEF ShiftStep
  <1>3. /\ yystack \in Seq(Entry) /\ Len(yystack) >= 1
        /\ Grounded(yystack) /\ IsPath(yystack)
    BY DEF EngineInv, WellFormed, Grounded
  <1>4. Top.stateno \in State
    BY <1>2, Dispatch, Encoding DEF Verdict
  <1>5. /\ Settled(yystack)
        /\ \/ Act \in State /\ LiesAbove(Act, Top.stateno)
           \/ Act \in ShiftReduce /\ Fits(Act - YY_MIN_SHIFTREDUCE, 1, Top.stateno)
    BY <1>2, <1>4, Dispatch, Encoding
  <1>6. /\ Shifted(Act) \in State \cup PendingReduce
        /\ Pushable(Shifted(Act), Top.stateno)
    <2>1. CASE Act \in State /\ LiesAbove(Act, Top.stateno)
      <3>1. Shifted(Act) = Act
        BY <2>1, EncodingAssumption DEF Shifted, State
      <3> QED
        BY <2>1, <3>1 DEF Pushable
    <2>2. CASE Act \in ShiftReduce /\ Fits(Act - YY_MIN_SHIFTREDUCE, 1, Top.stateno)
      <3>1. Shifted(Act) = Act + YY_MIN_REDUCE - YY_MIN_SHIFTREDUCE
        BY <2>2, Encoding, EncodingAssumption DEF Shifted
      <3>2. Shifted(Act) - YY_MIN_REDUCE = Act - YY_MIN_SHIFTREDUCE
        BY <2>2, <3>1, Encoding
      <3>3. Shifted(Act) \in PendingReduce
        BY <2>2, <3>1, Encoding
      <3> QED
        BY <2>2, <3>2, <3>3 DEF Pushable
    <2> QED
      BY <1>5, <2>1, <2>2
  <1>7. entry \in Entry
    BY <1>2, <1>6, CallerAssumption DEF Entry, Lookahead, StackCode
  <1>8. TypeOK'
    <2>1. yystack' \in Seq(Entry)
      BY <1>1, <1>3, <1>7
    <2> QED
      BY <1>1, <2>1 DEF EngineInv, TypeOK
  <1>9. WellFormed(yystack)'
    BY <1>1, <1>3, <1>5, <1>6, <1>7, Push DEF Top
  <1>10. SpansOrdered'
    <2>1. End(Top.span) <= entry.span.offset /\ Ordered(yystack)
      BY <1>2 DEF EngineInv, SpansOrdered, Ordered
    <2>2. Ordered(yystack')
      BY <1>1, <1>3, <1>7, <2>1, PushOrdered DEF Top
    <2> QED
      BY <1>1, <2>2 DEF SpansOrdered, Ordered
  <1> QED
    BY <1>8, <1>9, <1>10 DEF EngineInv

(* What a reduce relies on: the right-hand side of its rule lies above the *)
(* sentinel, the entry below it is in a state, and the GOTO is there.      *)
LEMMA ReduceFits ==
  ASSUME EngineInv, la # None, Act >= YY_MIN_REDUCE
  PROVE  LET rule == Act - YY_MIN_REDUCE
             keep == Len(yystack) - At(yyRuleInfoNRhs, rule)
         IN  /\ rule \in Rule
             /\ keep \in 1 .. Len(yystack)
             /\ yystack[keep].stateno \in State
             /\ HasGoto(yystack[keep].stateno, At(yyRuleInfoLhs, rule))
  <1> DEFINE rule == Act - YY_MIN_REDUCE
             n    == At(yyRuleInfoNRhs, rule)
  <1>1. /\ Grounded(yystack) /\ IsPath(yystack) /\ Len(yystack) \in Nat /\ Len(yystack) >= 1
        /\ Top = yystack[Len(yystack)]
    BY DEF EngineInv, WellFormed, Grounded, Top, TopOf
  <1>2. CASE Top.stateno \in State
    <2>1. Settled(yystack) /\ Act \in PendingReduce /\ Fits(rule, 0, Top.stateno)
      BY <1>2, Dispatch, Encoding
    <2>2. rule \in Rule
      BY <2>1, Encoding
    <2>3. /\ n \in 0 .. Len(yystack) - 1 + 0
          /\ HasGoto(yystack[Len(yystack) - (n - 0)].stateno, At(yyRuleInfoLhs, rule))
      BY <1>1, <2>1, <2>2, FitsAbove DEF Top
    <2> QED
      BY <1>1, <2>1, <2>2, <2>3 DEF Settled
  <1>3. CASE Top.stateno \notin State
    <2>1. Top.stateno \in PendingReduce /\ Act = Top.stateno
      BY <1>3, Dispatch, Encoding DEF Verdict
    <2>2. rule \in Rule
      BY <2>1, Encoding
    <2>3. /\ n \in 1 .. Len(yystack) - 1
          /\ HasGoto(yystack[Len(yystack) - n].stateno, At(yyRuleInfoLhs, rule))
      BY <2>1 DEF EngineInv, WellFormed, PendingFits, Top
    <2> QED
      BY <1>1, <2>2, <2>3 DEF Grounded
  <1> QED
    BY <1>2, <1>3

(* ReduceStep cuts the right-hand side off and pushes the GOTO of the      *)
(* state it uncovers.                                                      *)
LEMMA ReduceInv == EngineInv /\ ReduceStep => EngineInv'
  <1> SUFFICES ASSUME EngineInv, ReduceStep PROVE EngineInv'
    OBVIOUS
  <1> DEFINE rule  == Act - YY_MIN_REDUCE
             keep  == Len(yystack) - At(yyRuleInfoNRhs, rule)
             below == SubSeq(yystack, 1, keep)
             span  == RuleSpan(Popped(keep), TopOf(below))
             lhs   == At(yyRuleInfoLhs, rule)
             code  == yy_find_reduce_action(TopOf(below).stateno, lhs)
  <1>1. PICK result \in [state : Ctx, minor : V \cup {None}] :
          /\ state' = result.state
          /\ yystack' = Append(below, [stateno |-> code, major |-> lhs,
                                       minor |-> result.minor, span |-> span])
    BY DEF ReduceStep, yy_reduce
  <1> DEFINE entry == [stateno |-> code, major |-> lhs,
                       minor |-> result.minor, span |-> span]
  <1>2. /\ la # None /\ Act >= YY_MIN_REDUCE
        /\ UNCHANGED <<phase, root, errors, inputIndex, la>>
    BY DEF ReduceStep
  <1>3. /\ rule \in Rule /\ keep \in 1 .. Len(yystack)
        /\ yystack[keep].stateno \in State /\ HasGoto(yystack[keep].stateno, lhs)
    BY <1>2, ReduceFits
  <1>4. /\ Grounded(yystack) /\ IsPath(yystack) /\ yystack \in Seq(Entry)
        /\ Len(yystack) \in Nat /\ Ordered(yystack)
    BY DEF EngineInv, WellFormed, Grounded, SpansOrdered, Ordered
  <1>5. /\ Grounded(below) /\ Settled(below) /\ IsPath(below) /\ Len(below) = keep
        /\ \A i \in 1 .. keep : below[i] = yystack[i]
    BY <1>3, <1>4, Cut
  <1>6. /\ below \in Seq(Entry) /\ Len(below) >= 1 /\ TopOf(below) = yystack[keep]
    BY <1>3, <1>5 DEF Grounded, TopOf
  <1>7. code \in StackCode /\ Pushable(code, yystack[keep].stateno)
    <2>1. yystack[keep].stateno \in Reached
      BY <1>3, <1>4 DEF IsPath
    <2>2. lhs \in Nonterminal
      BY <1>3 DEF Nonterminal
    <2>3. \/ code \in State /\ LiesAbove(code, yystack[keep].stateno)
          \/ code \in PendingReduce /\ Fits(code - YY_MIN_REDUCE, 1, yystack[keep].stateno)
          \/ code = YY_ACCEPT_ACTION
      BY <1>3, <1>6, <2>1, <2>2, GotoTableAssumption
    <2> QED
      BY <2>3 DEF Pushable, StackCode
  <1>8. /\ span \in Span /\ End(yystack[keep].span) <= span.offset
        /\ End(span) = End(Top.span)
    BY <1>3, <1>4, <1>6, RuleSpanFits DEF Popped, Top
  <1>9. entry \in Entry
    BY <1>1, <1>3, <1>7, <1>8, RuleAssumption DEF Entry
  <1>10. TypeOK'
    <2>1. yystack' \in Seq(Entry) /\ state' \in Ctx
      BY <1>1, <1>6, <1>9
    <2> QED
      BY <1>2, <2>1 DEF EngineInv, TypeOK
  <1>11. WellFormed(yystack)'
    BY <1>1, <1>5, <1>6, <1>7, <1>9, Push
  <1>12. SpansOrdered'
    <2>1. Ordered(below)
      <3> SUFFICES ASSUME NEW i \in 1 .. keep, NEW j \in 1 .. i - 1
                   PROVE  End(below[j].span) <= below[i].span.offset
        BY <1>5 DEF Ordered
      <3>1. i \in 1 .. Len(yystack) /\ j \in 1 .. keep
        BY <1>3, <1>4
      <3>2. below[i] = yystack[i] /\ below[j] = yystack[j]
        BY <1>5, <3>1
      <3> HIDE DEF below, keep
      <3> QED
        BY <1>4, <3>1, <3>2 DEF Ordered
    <2>2. Ordered(yystack')
      BY <1>1, <1>6, <1>8, <1>9, <2>1, PushOrdered
    <2>3. TopOf(yystack') = entry
      BY <1>1, <1>6, <1>9 DEF TopOf
    <2>4. la' # None => End(entry.span) <= la'.span.offset
      BY <1>2, <1>8 DEF EngineInv, SpansOrdered
    <2> QED
      BY <2>2, <2>3, <2>4 DEF SpansOrdered, Ordered, Top
  <1> QED
    BY <1>10, <1>11, <1>12 DEF EngineInv

LEMMA AcceptInv == EngineInv /\ AcceptStep => EngineInv'
  <1> SUFFICES ASSUME EngineInv, AcceptStep PROVE EngineInv'
    OBVIOUS
  <1>1. /\ root' = Top.minor /\ phase' = "accepted" /\ la' = None
        /\ UNCHANGED <<yystack, errors, inputIndex, state>>
    BY DEF AcceptStep
  <1>2. Top.minor \in V \cup {None}
    <2>1. Top \in Entry
      BY DEF EngineInv, WellFormed, Grounded, Top, TopOf
    <2> QED
      BY <2>1 DEF Entry
  <1>3. TypeOK'
    BY <1>1, <1>2 DEF EngineInv, TypeOK
  <1>4. SpansOrdered'
    BY <1>1 DEF EngineInv, SpansOrdered
  <1> QED
    BY <1>1, <1>3, <1>4 DEF EngineInv

(* An error is only met in a state: the code of a pending reduce, or of    *)
(* accepting, on top of the stack is acted on.                             *)
LEMMA ErrorState ==
  ASSUME EngineInv, ErrorStep
  PROVE  Top.stateno \in State
  <1>1. la # None /\ Act \in {YY_ERROR_ACTION, YY_NO_ACTION}
    BY DEF ErrorStep
  <1> SUFFICES ASSUME Top.stateno \notin State PROVE FALSE
    OBVIOUS
  <1>2. Act \in PendingReduce \/ Act = YY_ACCEPT_ACTION
    BY <1>1, Dispatch
  <1> QED
    BY <1>1, <1>2, Encoding DEF Verdict

LEMMA ErrorInv == EngineInv /\ ErrorStep => EngineInv'
  <1> SUFFICES ASSUME EngineInv, ErrorStep PROVE EngineInv'
    OBVIOUS
  <1> DEFINE error == [stateno |-> Top.stateno, major |-> la.major, tokenIndex |-> inputIndex]
  <1>1. /\ errors' = Append(errors, error) /\ phase' = "errored" /\ la' = None /\ la # None
        /\ UNCHANGED <<yystack, root, inputIndex, state>>
    BY DEF ErrorStep
  <1>2. error \in LalrError
    BY <1>1, ErrorState DEF EngineInv, TypeOK, Lookahead, LalrError, StackCode
  <1>3. TypeOK'
    <2>1. errors' \in Seq(LalrError)
      BY <1>1, <1>2 DEF EngineInv, TypeOK
    <2> QED
      BY <1>1, <2>1 DEF EngineInv, TypeOK
  <1>4. SpansOrdered'
    BY <1>1 DEF EngineInv, SpansOrdered
  <1> QED
    BY <1>1, <1>3, <1>4 DEF EngineInv

LEMMA NextInv == EngineInv /\ [Next]_engineVars => EngineInv'
  <1> SUFFICES ASSUME EngineInv, [Next]_engineVars PROVE EngineInv'
    OBVIOUS
  <1>1. CASE Feed
    BY <1>1, FeedInv
  <1>2. CASE ReduceStep
    BY <1>2, ReduceInv
  <1>3. CASE ShiftStep
    BY <1>3, ShiftInv
  <1>4. CASE AcceptStep
    BY <1>4, AcceptInv
  <1>5. CASE ErrorStep
    BY <1>5, ErrorInv
  <1>6. CASE UNCHANGED engineVars
    BY <1>6 DEF engineVars, EngineInv, TypeOK, SpansOrdered, Top
  <1> QED
    BY <1>1, <1>2, <1>3, <1>4, <1>5, <1>6 DEF Next, Step

(* The stack is well formed, typed and in source order in every state.     *)
THEOREM EngineInvariant == Spec => []EngineInv
  BY InitInv, NextInv, PTL DEF Spec
-----------------------------------------------------------------------------
(* The properties *)

(* Every state of a session is well typed, the reducer's spans included.   *)
THEOREM TypeCorrect == Spec => []TypeOK
  BY EngineInvariant, PTL DEF EngineInv

(* The engine never pops the sentinel, and only the top entry can hold an  *)
(* action that is due.                                                     *)
THEOREM SentinelIsKept == Spec => []SentinelKept
  <1>1. EngineInv => SentinelKept
    BY DEF EngineInv, WellFormed, Grounded, SentinelKept
  <1> QED
    BY <1>1, EngineInvariant, PTL

(* A reduce that is due has its right-hand side on the stack, and its GOTO *)
(* lookup succeeds: the bounds checks of the lookup never fire.            *)
THEOREM PendingReducesFit == Spec => []PendingReduceFits
  <1>1. EngineInv => PendingReduceFits
    BY DEF EngineInv, WellFormed, PendingFits, PendingReduceFits, Top
  <1> QED
    BY <1>1, EngineInvariant, PTL

(* The states on the stack are a path of the automaton.                    *)
THEOREM StackSpellsPath == Spec => []StackIsPath
  <1>1. EngineInv => StackIsPath
    BY DEF EngineInv, WellFormed, StackIsPath
  <1> QED
    BY <1>1, EngineInvariant, PTL

(* Spans stay in source order through every shift and reduce, whatever the *)
(* rules, provided that tokens come in source order.                       *)
THEOREM SpansAreOrdered == Spec => []SpansOrdered
  BY EngineInvariant, PTL DEF EngineInv

LEMMA VerdictStep ==
  EngineInv /\ VerdictConsistent /\ [Next]_engineVars => VerdictConsistent'
  <1> SUFFICES ASSUME EngineInv, VerdictConsistent, [Next]_engineVars
               PROVE  VerdictConsistent'
    OBVIOUS
  <1>1. CASE Feed
    BY <1>1 DEF Feed, Call, VerdictConsistent
  <1>2. CASE ReduceStep
    BY <1>2 DEF ReduceStep, VerdictConsistent
  <1>3. CASE ShiftStep
    <2>1. phase = "running" /\ errors = <<>>
      BY <1>3 DEF ShiftStep, VerdictConsistent, EngineInv, TypeOK
    <2> QED
      BY <1>3, <2>1 DEF ShiftStep, VerdictConsistent
  <1>4. CASE AcceptStep
    <2>1. phase = "running" /\ errors = <<>>
      BY <1>4 DEF AcceptStep, VerdictConsistent, EngineInv, TypeOK
    <2> QED
      BY <1>4, <2>1 DEF AcceptStep, VerdictConsistent
  <1>5. CASE ErrorStep
    <2>1. phase = "running" /\ errors = <<>>
      BY <1>5 DEF ErrorStep, VerdictConsistent, EngineInv, TypeOK
    <2>2. errors' = <<[stateno |-> Top.stateno, major |-> la.major,
                       tokenIndex |-> inputIndex]>>
      BY <1>5, <2>1 DEF ErrorStep
    <2>3. phase' = "errored" /\ la' = None /\ root' = root /\ inputIndex' = inputIndex
      BY <1>5 DEF ErrorStep
    <2> QED
      BY <2>1, <2>2, <2>3 DEF VerdictConsistent
  <1>6. CASE UNCHANGED engineVars
    BY <1>6 DEF engineVars, VerdictConsistent
  <1> QED
    BY <1>1, <1>2, <1>3, <1>4, <1>5, <1>6 DEF Next, Step

LEMMA ErrorStateStep ==
  EngineInv /\ ErrorHasState /\ [Next]_engineVars => ErrorHasState'
  <1> SUFFICES ASSUME EngineInv, ErrorHasState, [Next]_engineVars
               PROVE  ErrorHasState'
    OBVIOUS
  <1>1. CASE ErrorStep
    <2>1. /\ Top.stateno \in State /\ errors \in Seq(LalrError)
          /\ errors' = Append(errors, [stateno |-> Top.stateno, major |-> la.major,
                                       tokenIndex |-> inputIndex])
      BY <1>1, ErrorState DEF ErrorStep, EngineInv, TypeOK
    <2> QED
      BY <2>1 DEF ErrorHasState
  <1>2. CASE UNCHANGED errors
    BY <1>2 DEF ErrorHasState
  <1> QED
    BY <1>1, <1>2 DEF Next, Step, Feed, Call, ReduceStep, ShiftStep, AcceptStep, engineVars

(* The session has errored exactly when it holds its one error, and has a  *)
(* root only when it has accepted.                                         *)
THEOREM VerdictIsConsistent == Spec => []VerdictConsistent
  <1>1. Init => VerdictConsistent
    BY DEF Init, VerdictConsistent
  <1> QED
    BY <1>1, VerdictStep, EngineInvariant, PTL DEF Spec

(* Every reported error names a parser state.                              *)
THEOREM ErrorsHaveState == Spec => []ErrorHasState
  <1>1. Init => ErrorHasState
    BY DEF Init, ErrorHasState
  <1> QED
    BY <1>1, ErrorStateStep, EngineInvariant, PTL DEF Spec

(* The stack is one a reduce can work on: the bounds checks of the table   *)
(* lookups and the sentinel below it are never what saves the engine.      *)
THEOREM StackIsSound == Spec => []SoundStack
  <1>1. SentinelKept /\ PendingReduceFits /\ StackIsPath => SoundStack
    BY DEF SoundStack
  <1> QED
    BY <1>1, SentinelIsKept, PendingReducesFit, StackSpellsPath, PTL

(* A session has one verdict, and the error runCore reads off it can be    *)
(* diagnosed.                                                              *)
THEOREM VerdictIsSound == Spec => []SoundVerdict
  <1>1. VerdictConsistent /\ ErrorHasState => SoundVerdict
    BY DEF SoundVerdict
  <1> QED
    BY <1>1, VerdictIsConsistent, ErrorsHaveState, PTL
=============================================================================
