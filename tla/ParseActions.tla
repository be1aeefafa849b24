---------------------------- MODULE ParseActions ----------------------------
(***************************************************************************)
(* What the reducer of generated/3.53.0/parse.ts does to the ParseState of *)
(* src/ast/parseState.ts, with the helpers of src/ast/parseActions.ts it   *)
(* calls for that.                                                         *)
(*                                                                         *)
(* The AST is abstracted to the parts that decide a later action: whether  *)
(* a result column list has a star in it, whether a FROM clause is there,  *)
(* which name a constraint was given.  A statement is its span, a Name its *)
(* offset, a diagnostic the rule that reported it.  Where a diagnostic     *)
(* depends on names or values the abstraction drops, both outcomes are     *)
(* possible.  Rules are numbered as in the generated switch.               *)
(***************************************************************************)
EXTENDS Integers, Sequences, Undefined

makeParseState == [stmt |-> None, explain |-> None, cmds |-> <<>>,
                   constraintName |-> None, errors |-> <<>>]

(* The rules whose action assigns state.stmt: the rules of cmd. *)
CommandRules ==
  {5} \cup 13 .. 18 \cup {96, 99, 100, 101, 171, 178, 183, 184, 265} \cup 274 .. 276
    \cup 279 .. 283 \cup {291, 317, 318, 319} \cup 322 .. 336

(* ccons and tcons ::= CONSTRAINT nm, and the constraints that take the    *)
(* name staged by them and clear the slot.                                 *)
StagingRules    == {42, 83}
NamedConstraint == 43 .. 53 \cup 55 .. 57 \cup 84 .. 87

(* tconscomma ::= COMMA *)
CommaRule == 82

(* Rules that report a diagnostic whenever they fire, and rules that do so *)
(* depending on the names, types and values of their right-hand side.      *)
AlwaysDiagnosed == {306, 307}
MayBeDiagnosed  == 27 .. 29 \cup {116, 117, 144, 197, 309, 350, 386}

(* Rules that report one for each misplaced word of a join or each target  *)
(* of an upsert, at most MaxReports of them here.                          *)
RepeatedlyDiagnosed == {145, 146, 187, 188}
MaxReports == 3

(* Calls of a function, which check what DISTINCT stands before, and the   *)
(* tables of a FROM clause, which check what ON and USING stand after.     *)
CallRules  == {210, 211, 213, 214, 215, 217}
TableRules == 132 .. 135

(* oneselect ::= SELECT distinct selcollist from ..., which checks that a  *)
(* star has a table to expand over.                                        *)
OneSelectRules == {111, 112}

(* The rules whose action calls flushCmd: ecmd ::= cmdx SEMI and its twin. *)
FlushRules_AtCmdx == {4}
FlushRules        == {0, 1}

(* Node is every other value, undefined included. *)
Node        == [ast |-> "node"]
From        == [ast |-> "from"]
Columns(b)  == [ast |-> "columns", star |-> b]
Constraint(name) == [ast |-> "constraint", name |-> name]
Distinct    == [ast |-> "distinct"]
TypedJoin   == [ast |-> "typed join"]
FirstTable  == [ast |-> "first table"]

flushCmd_KeepsExplain(state) ==
  IF state.stmt = None
  THEN state
  ELSE [state EXCEPT !.cmds = Append(@, [span |-> state.stmt, explain |-> state.explain]),
                     !.stmt = None]

flushCmd(state) ==
  IF state.stmt = None
  THEN state
  ELSE [state EXCEPT !.cmds = Append(@, [span |-> state.stmt, explain |-> state.explain]),
                     !.stmt = None,
                     !.explain = None]

(* What a rule does to the slots that carry a statement and its parts from *)
(* one action to a later one.                                              *)
Staged(state, rule, popped, ruleSpan) ==
  CASE rule \in FlushRules                 -> flushCmd(state)
    [] rule = 2                            -> [state EXCEPT !.explain = "Explain"]
    [] rule = 3                            -> [state EXCEPT !.explain = "QueryPlan"]
    [] rule \in CommandRules               -> [state EXCEPT !.stmt = ruleSpan]
    [] rule \in StagingRules               -> [state EXCEPT !.constraintName = popped[2].span.offset]
    [] rule \in NamedConstraint \cup {CommaRule} -> [state EXCEPT !.constraintName = None]
    [] OTHER                               -> state

(* mkOneSelect's check *)
StarWithoutFrom(popped) == popped[4].minor = None /\ popped[3].minor.star

(* fromClausePush's check: an ON or USING clause belongs to a join, and not *)
(* to a NATURAL one, which only a typed join can be.                       *)
OnUsing(clause, operator, diagnostic) ==
  IF clause = None THEN {<<>>}
  ELSE CASE operator = FirstTable -> {diagnostic}
         [] operator = TypedJoin  -> {<<>>, diagnostic}
         [] OTHER                 -> {<<>>}

(* The diagnostics a rule may push onto state.errors. *)
Diagnosed(rule, popped) ==
  LET diagnostic == <<[rule |-> rule]>>
  IN  CASE rule \in AlwaysDiagnosed -> {diagnostic}
        [] rule \in MayBeDiagnosed  -> {<<>>, diagnostic}
        [] rule \in RepeatedlyDiagnosed ->
             {[i \in 1 .. n |-> [rule |-> rule]] : n \in 0 .. MaxReports}
        [] rule \in OneSelectRules  -> IF StarWithoutFrom(popped) THEN {diagnostic} ELSE {<<>>}
        [] rule \in CallRules       -> IF popped[3].minor = Distinct THEN {<<>>, diagnostic} ELSE {<<>>}
        [] rule \in TableRules      -> OnUsing(popped[Len(popped)].minor, popped[1].minor, diagnostic)
        [] OTHER                    -> {<<>>}

(* The semantic value the action returns. *)
Minor(state, rule, popped) ==
  CASE rule = 121               -> Columns(FALSE)
    [] rule \in {122, 399}      -> popped[1].minor
    [] rule \in {123, 124}      -> Columns(TRUE)
    [] rule = 118               -> Distinct
    [] rule \in {128, 149}      -> None
    [] rule = 129               -> From
    [] rule = 130               -> popped[2].minor
    [] rule = 131               -> FirstTable
    [] rule \in 144 .. 146      -> TypedJoin
    [] rule \in NamedConstraint -> Constraint(state.constraintName)
    [] OTHER                    -> Node

reduce(state, rule, popped, ruleSpan) ==
  {[state |-> [Staged(state, rule, popped, ruleSpan) EXCEPT !.errors = @ \o diagnosed],
    minor |-> Minor(state, rule, popped)] :
     diagnosed \in Diagnosed(rule, popped)}
=============================================================================
