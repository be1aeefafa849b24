--------------------------- MODULE AstRefinement ---------------------------
(***************************************************************************)
(* The parser that builds the AST implements the parser that keeps only    *)
(* what decides a later action: Lempar with the reducer of ParseActions,   *)
(* which the runs and the proofs about runCore use.                        *)
(***************************************************************************)
EXTENDS AstTraverse

Abstract == INSTANCE ParseActions

Star == {"StarResultColumn", "TableStarResultColumn"}
HasStar(columns) == \E i \in DOMAIN columns.kids : columns.kids[i].type \in Star
IsTyped(operator) == operator.type = "TypedJoinJoinOperator" /\ operator.kids[1] # None

Joining(value) ==
  IF value = None THEN Abstract!FirstTable
  ELSE IF IsTyped(value) THEN Abstract!TypedJoin ELSE Abstract!Node

NameAt(name) == IF name = None THEN None ELSE name.span.offset
HasSlot(constraint) == constraint # None /\ constraint.kids[2].type # "DeferColumnConstraint"

(* What is left of the value of an entry of the stack. *)
Abstraction(symbol, value) ==
  CASE symbol \in {"selcollist", "sclp"} -> Abstract!Columns(HasStar(value))
    [] symbol = "from" /\ value # None -> Abstract!From
    [] symbol \in {"from", "on_using"} /\ value = None -> None
    [] symbol = "distinct" /\ Tag(value) = "Distinct" -> Abstract!Distinct
    [] symbol = "joinop" -> Joining(value)
    [] symbol = "stl_prefix" -> Joining(pendingOp(value))
    [] symbol \in {"ccons", "tcons"} /\ HasSlot(value) ->
         Abstract!Constraint(NameAt(value.kids[1]))
    [] OTHER -> Abstract!Node

AbstractEntry(entry) ==
  IF entry.major < T_YYNTOKEN THEN entry
  ELSE [entry EXCEPT !.minor = Abstraction(At(T_symbols, entry.major), @)]

Committed(cmd) ==
  IF cmd.type = "ExplainStmt"
  THEN [span |-> cmd.kids[2].span, explain |-> IF cmd.kids[1] = Yes THEN "QueryPlan" ELSE "Explain"]
  ELSE [span |-> cmd.span, explain |-> None]

AbstractState ==
  [stmt |-> IF state.stmt = None THEN None ELSE state.stmt.span,
   explain |-> state.explain,
   cmds |-> [i \in DOMAIN state.cmds |-> Committed(state.cmds[i])],
   constraintName |-> NameAt(state.constraintName),
   errors |-> [i \in DOMAIN state.errors |-> [rule |-> state.errors[i].rule]]]

AbstractV ==
  AstValue \cup {Abstract!Node, Abstract!From, Abstract!Columns(TRUE), Abstract!Columns(FALSE),
                 Abstract!Distinct, Abstract!TypedJoin, Abstract!FirstTable}
           \cup [ast : {"constraint"}, name : Nat \cup {None}]
Explain == {"Explain", "QueryPlan", None}
AbstractCtx ==
  [stmt : Span \cup {None}, explain : Explain, cmds : Seq([span : Span, explain : Explain]),
   constraintName : Nat \cup {None}, errors : Seq([rule : Rule])]

Engine == INSTANCE Lempar WITH
  yystack <- [i \in DOMAIN yystack |-> AbstractEntry(yystack[i])],
  state   <- AbstractState,
  root    <- IF root = None /\ ~Accepted THEN None ELSE Abstract!Node,
  V <- AbstractV, Ctx <- AbstractCtx,
  InitialState <- Abstract!makeParseState, Reducer <- Abstract!reduce

(* A parse that builds the AST is one of the abstract parser: it takes the *)
(* same tokens and the same steps, commits the same statements under the   *)
(* same names and reports what the abstract reducer may report, whichever  *)
(* values the reducer computes in between.                                 *)
Fed == \E i \in DOMAIN script : Engine!Call(TokenAt(i))
RefinesEngine == Engine!Init /\ [][Engine!Step \/ Fed]_<<Engine!engineVars>>
=============================================================================
