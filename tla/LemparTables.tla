---------------------------- MODULE LemparTables ----------------------------
(***************************************************************************)
(* What the engine takes for granted of its tables.                        *)
(*                                                                         *)
(* src/lempar.ts pops entries and looks up GOTOs without checking, because *)
(* in the tables of an LALR(1) automaton a reduce can only come up above   *)
(* its right-hand side.  Back makes that checkable for given tables:       *)
(* Back[s][k] holds every state that can lie k entries below state s on a  *)
(* stack.  It is not in the code.  TLC computes it from the shipped tables *)
(* and checks the assumptions; LemparProofs derives the engine's           *)
(* invariants from them without looking at the tables again.               *)
(***************************************************************************)
EXTENDS Lempar

Nonterminal == {At(yyRuleInfoLhs, rule) : rule \in Rule}

MaxRhs == LET lengths == {At(yyRuleInfoNRhs, rule) : rule \in Rule}
          IN  CHOOSE n \in lengths : \A m \in lengths : m <= n

ShiftActions(s) == {yy_find_shift_action(t, s) : t \in Terminal}

(* The states one shift or GOTO away from s. *)
Successors(s) ==
  {act \in ShiftActions(s)
             \cup {yy_find_reduce_action(s, n) : n \in {n \in Nonterminal : HasGoto(s, n)}} :
   act \in State}

(* Bind(v, Op) is Op(v), written so that TLC evaluates v once; Tabulated   *)
(* is a sequence for the same reason, its element k + 1 being Op(k).       *)
Bind(value, Op(_)) == CHOOSE result \in {Op(x) : x \in {value}} : TRUE
Tabulated(n, Op(_)) == SubSeq([i \in 1 .. n |-> Op(i - 1)], 1, n)
PerState(Op(_)) == Tabulated(YY_MAX_SHIFT + 1, Op)

(* The states reached from 0. *)
ReachedBy(successors) ==
  LET closure[states \in SUBSET State] ==
        LET more == states \cup UNION {At(successors, s) : s \in states}
        IN  IF more = states THEN states ELSE closure[more]
  IN  closure[{0}]

(* For each k from 0 to MaxRhs, the states k below each state. *)
LevelsOf(predecessors) ==
  LET oneUp(below) ==
        PerState(LAMBDA act : UNION {At(below, s) : s \in At(predecessors, act)})
      level[k \in Nat] ==
        IF k = 0 THEN PerState(LAMBDA s : {s}) ELSE Bind(level[k - 1], oneUp)
  IN  Tabulated(MaxRhs + 1, LAMBDA k : level[k])

Back ==
  Bind(PerState(Successors), LAMBDA successors :
  Bind(ReachedBy(successors), LAMBDA reached :
  Bind(PerState(LAMBDA act : {s \in reached : act \in At(successors, s)}), LAMBDA predecessors :
  Bind(LevelsOf(predecessors), LAMBDA levels :
    [s \in reached |-> [k \in 0 .. MaxRhs |-> At(At(levels, k), s)]]))))

Reached == DOMAIN Back
-----------------------------------------------------------------------------
(* act can be the state of the entry above one in state s. *)
LiesAbove(act, s) ==
  /\ act \in Reached
  /\ \A k \in 0 .. MaxRhs - 1 : Back[s][k] \subseteq Back[act][k + 1]

(* With the last j symbols of rule above an entry in state s, the rest of  *)
(* its right-hand side lies above the sentinel, and the state below it has *)
(* a GOTO for the rule.                                                    *)
Fits(rule, j, s) ==
  LET n == At(yyRuleInfoNRhs, rule)
  IN  /\ n \in j .. MaxRhs
      /\ \A k \in 0 .. n - j - 1 : 0 \notin Back[s][k]
      /\ \A b \in Back[s][n - j] : HasGoto(b, At(yyRuleInfoLhs, rule))

ASSUME BackAssumption ==
  /\ MaxRhs \in Nat
  /\ Reached \subseteq State
  /\ 0 \in Reached
  /\ \A s \in Reached :
       /\ s \in Back[s][0]
       /\ \A k \in 0 .. MaxRhs : Back[s][k] \subseteq Reached

(* The actions of a state decode to what the dispatch loop tells apart. *)
ASSUME ShiftTableAssumption ==
  \A s \in Reached : \A act \in ShiftActions(s) :
    \/ act \in State /\ LiesAbove(act, s)
    \/ act \in ShiftReduce /\ Fits(act - YY_MIN_SHIFTREDUCE, 1, s)
    \/ act \in PendingReduce /\ Fits(act - YY_MIN_REDUCE, 0, s)
    \/ act \in Verdict

(* So do the GOTOs; the one for the start symbol is to accept. *)
ASSUME GotoTableAssumption ==
  \A s \in Reached, n \in Nonterminal :
    HasGoto(s, n) =>
      LET act == yy_find_reduce_action(s, n)
      IN  \/ act \in State /\ LiesAbove(act, s)
          \/ act \in PendingReduce /\ Fits(act - YY_MIN_REDUCE, 1, s)
          \/ act = YY_ACCEPT_ACTION

IsPath(stack) ==
  \A i \in 1 .. Len(stack) :
    stack[i].stateno \in State =>
      /\ stack[i].stateno \in Reached
      /\ \A k \in 0 .. MaxRhs :
           k < i => stack[i - k].stateno \in Back[stack[i].stateno][k]

(* The states on the stack spell a path through the automaton: what lies   *)
(* below a state could have been there when the state was pushed.          *)
StackIsPath == IsPath(yystack)

(* The stack is one a reduce can work on, through every shift, reduce,     *)
(* GOTO and default action before it: it stands on the sentinel, spells a  *)
(* path of the automaton, and a reduce that is due finds its whole         *)
(* right-hand side and its GOTO.                                           *)
SoundStack == SentinelKept /\ PendingReduceFits /\ StackIsPath
=============================================================================
