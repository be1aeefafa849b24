------------------------------ MODULE Traverse ------------------------------
(***************************************************************************)
(* The walker of src/ast/traverse.ts over the AST of Nodes.                *)
(*                                                                         *)
(* walk calls itself for every child, so the recursion is a stack of       *)
(* frames, one per node being walked, and every callback of the visitor is *)
(* an action of its own.  What a callback returns is its own choice; a     *)
(* walk has at most MaxSignals results other than "continue".              *)
(***************************************************************************)
EXTENDS Nodes, SequencesExt, FiniteSetsExt

CONSTANTS
  Visitors(_), (* the visitors to walk a tree with *)
  MaxSignals

StatementKeys == [
  CmdList |-> <<"cmds">>, AlterTableStmt |-> <<"tblName", "body">>,
  AnalyzeStmt |-> <<"objName">>, AttachStmt |-> <<"expr", "dbName", "key">>,
  BeginStmt |-> <<"txName">>, CommitStmt |-> <<"txName">>,
  CreateIndexStmt |-> <<"idxName", "tblName", "columns", "whereClause">>,
  CreateTableStmt |-> <<"tblName", "body">>,
  CreateTriggerStmt |-> <<"triggerName", "event", "tblName", "whenClause", "commands">>,
  CreateViewStmt |-> <<"viewName", "columns", "select">>,
  CreateVirtualTableStmt |-> <<"tblName", "moduleName">>,
  DeleteStmt |-> <<"with", "tblName", "indexed", "whereClause", "returning", "orderBy", "limit">>,
  DetachStmt |-> <<"expr">>, DropIndexStmt |-> <<"idxName">>,
  DropTableStmt |-> <<"tblName">>, DropTriggerStmt |-> <<"triggerName">>,
  DropViewStmt |-> <<"viewName">>, ExplainStmt |-> <<"stmt">>,
  InsertStmt |-> <<"with", "tblName", "columns", "body", "returning">>,
  PragmaStmt |-> <<"name", "body">>, ReindexStmt |-> <<"objName">>,
  ReleaseStmt |-> <<"savepointName">>, RollbackStmt |-> <<"txName", "savepointName">>,
  SavepointStmt |-> <<"savepointName">>, SelectStmt |-> <<"body">>,
  UpdateStmt |-> <<"with", "tblName", "indexed", "sets", "from", "whereClause", "returning", "orderBy", "limit">>,
  VacuumStmt |-> <<"dbName", "into">>]

ExpressionKeys == [
  BetweenExpr |-> <<"lhs", "start", "end">>, BinaryExpr |-> <<"left", "right">>,
  CaseExpr |-> <<"base", "whenThenPairs", "elseExpr">>, WhenThen |-> <<"when", "then">>,
  CastExpr |-> <<"expr", "typeName">>, CollateExpr |-> <<"expr">>,
  ExistsExpr |-> <<"select">>,
  FunctionCallExpr |-> <<"name", "args", "orderBy", "filterOver">>,
  FunctionCallStarExpr |-> <<"name", "filterOver">>, InListExpr |-> <<"lhs", "rhs">>,
  InSelectExpr |-> <<"lhs", "rhs">>, InTableExpr |-> <<"lhs", "rhs", "args">>,
  IsNullExpr |-> <<"expr">>, LikeExpr |-> <<"lhs", "rhs", "escape">>,
  NameExpr |-> <<"name">>, NotNullExpr |-> <<"expr">>, ParenthesizedExpr |-> <<"exprs">>,
  QualifiedExpr |-> <<"schema", "table", "column">>, RaiseExpr |-> <<"message">>,
  SubqueryExpr |-> <<"select">>, UnaryExpr |-> <<"expr">>]

SelectKeys == [
  Select |-> <<"with", "select", "compounds", "orderBy", "limit">>,
  CompoundSelect |-> <<"select">>, FromClause |-> <<"select", "joins">>,
  JoinedSelectTable |-> <<"operator", "table", "constraint">>,
  SelectFrom |-> <<"columns", "from", "whereClause", "groupBy", "having", "windowClause">>,
  SelectValues |-> <<"values">>, ValuesRow |-> <<"values">>,
  ExprResultColumn |-> <<"expr", "alias">>, TableStarResultColumn |-> <<"table">>,
  AsAs |-> <<"name">>, ElidedAs |-> <<"name">>,
  TableSelectTable |-> <<"tblName", "alias", "indexed">>,
  TableCallSelectTable |-> <<"tblName", "args", "alias">>,
  SelectSelectTable |-> <<"select", "alias">>, SubSelectTable |-> <<"from", "alias">>,
  OnJoinConstraint |-> <<"expr">>, UsingJoinConstraint |-> <<"columns">>,
  SortListFunctionCallOrder |-> <<"columns">>,
  WithinGroupFunctionCallOrder |-> <<"expr">>,
  QualifiedName |-> <<"dbName", "objName", "alias">>]

TableKeys == [
  ColumnDefinition |-> <<"colName", "colType", "constraints">>,
  NamedColumnConstraint |-> <<"name", "constraint">>,
  CheckColumnConstraint |-> <<"expr">>, DefaultColumnConstraint |-> <<"expr">>,
  DeferColumnConstraint |-> <<"clause">>,
  CollateColumnConstraint |-> <<"collationName">>,
  ForeignKeyColumnConstraint |-> <<"clause", "deferClause">>,
  GeneratedColumnConstraint |-> <<"expr", "typ">>,
  NamedTableConstraint |-> <<"name", "constraint">>,
  PrimaryKeyTableConstraint |-> <<"columns">>, UniqueTableConstraint |-> <<"columns">>,
  CheckTableConstraint |-> <<"expr">>,
  ForeignKeyTableConstraint |-> <<"columns", "clause", "deferClause">>,
  ColumnsAndConstraintsCreateTableBody |-> <<"columns", "constraints">>,
  AsSelectCreateTableBody |-> <<"select">>, RenameToAlterTableBody |-> <<"name">>,
  AddColumnAlterTableBody |-> <<"column">>,
  DropColumnNotNullAlterTableBody |-> <<"column">>,
  SetColumnNotNullAlterTableBody |-> <<"column">>,
  RenameColumnAlterTableBody |-> <<"old", "new">>,
  DropColumnAlterTableBody |-> <<"column">>,
  AddConstraintAlterTableBody |-> <<"constraint">>,
  DropConstraintAlterTableBody |-> <<"name">>]

PartKeys == [
  IndexedColumn |-> <<"colName", "collationName">>, IndexedByIndexed |-> <<"idxName">>,
  SortedColumn |-> <<"expr">>, Limit |-> <<"expr", "offset">>,
  ForeignKeyClause |-> <<"tblName", "columns", "args">>, MatchRefArg |-> <<"name">>,
  SelectInsertBody |-> <<"select", "upsert">>, SetAssignment |-> <<"colNames", "expr">>,
  EqualsPragmaBody |-> <<"value">>, CallPragmaBody |-> <<"value">>,
  UpdateTriggerCmd |-> <<"tblName", "sets", "from", "whereClause">>,
  InsertTriggerCmd |-> <<"tblName", "colNames", "select", "upsert">>,
  DeleteTriggerCmd |-> <<"tblName", "whereClause">>, SelectTriggerCmd |-> <<"select">>,
  UpdateOfTriggerEvent |-> <<"columns">>, With |-> <<"ctes">>,
  CommonTableExpr |-> <<"tblName", "columns", "select">>, Type |-> <<"size">>,
  MaxSizeTypeSize |-> <<"size">>, TypeSizeTypeSize |-> <<"size1", "size2">>,
  Upsert |-> <<"index", "doClause", "next">>,
  UpsertIndex |-> <<"targets", "whereClause">>,
  SetUpsertDo |-> <<"sets", "whereClause">>,
  FunctionTail |-> <<"filterClause", "overClause">>, WindowDef |-> <<"name", "window">>,
  Window |-> <<"base", "partitionBy", "orderBy", "frameClause">>,
  FrameClause |-> <<"start", "end">>, WindowOver |-> <<"window">>,
  NameOver |-> <<"name">>, FollowingFrameBound |-> <<"expr">>,
  PrecedingFrameBound |-> <<"expr">>]

VisitorKeys == StatementKeys @@ ExpressionKeys @@ SelectKeys @@ TableKeys @@ PartKeys

(* The fields of a type that hold a node or a list of nodes. *)
HoldsNodes(field) ==
  field.of \subseteq AstTypes \cup {"[]", "undefined"} /\ field.items \subseteq AstTypes
ChildKeys(type) ==
  LET fields == NodeTypes[type]
  IN  {fields[i].name : i \in {i \in DOMAIN fields : HoldsNodes(fields[i])}}

(* The table has the type VisitorKeyMap, and a field has one type.         *)
ASSUME KeysAssumption ==
  /\ {"[]", "undefined"} \cap AstTypes = {}
  /\ \A type \in AstTypes :
       \A i, j \in DOMAIN NodeTypes[type] :
         NodeTypes[type][i].name = NodeTypes[type][j].name => i = j
  /\ DOMAIN VisitorKeys \subseteq AstTypes
  /\ \A type \in DOMAIN VisitorKeys : VisitorKeys[type] \in Seq(ChildKeys(type))
-----------------------------------------------------------------------------
(* The walk *)

VARIABLES
  visitor, (* [enter, leave : whether it has them, nodes : the types it has *)
           (* handlers for, keys : its overrides of VisitorKeys]            *)
  tree,    (* the node traverse was called with, None before                *)
  frames,  (* the calls of walk in progress, the innermost last             *)
  log,     (* the calls of the visitor's functions with their results       *)
  broken   (* whether one returned "break"                                  *)

walkVars == <<visitor, tree, frames, log, broken>>

(* A visitor that has nothing. *)
Plain == [enter |-> FALSE, leave |-> FALSE, nodes |-> {}, keys |-> <<>>]

KeysOf(type) ==
  IF type \in DOMAIN visitor.keys THEN visitor.keys[type]
  ELSE IF type \in DOMAIN VisitorKeys THEN VisitorKeys[type] ELSE <<>>

Field(node, key) ==
  node.kids[CHOOSE i \in DOMAIN node.kids : NodeTypes[node.type][i].name = key]
Items_FirstOnly(value) ==
  IF value = None THEN <<>>
  ELSE IF value.type = "[]" THEN [i \in DOMAIN value.kids \cap {1} |-> value.kids[i]]
  ELSE <<value>>
Items(value) ==
  IF value = None THEN <<>> ELSE IF value.type = "[]" THEN value.kids ELSE <<value>>
Children(node) ==
  FlattenSeq([i \in DOMAIN KeysOf(node.type) |-> Items(Field(node, KeysOf(node.type)[i]))])

Frame(node, parent) == [node |-> node, parent |-> parent, at |-> "enter", todo |-> <<>>]
frame == Last(frames)
Goto(at, todo) == frames' = [frames EXCEPT ![Len(frames)] = [@ EXCEPT !.at = at, !.todo = todo]]

Signals == Cardinality({i \in DOMAIN log : log[i].result # "continue"})

(* A function of the visitor, if it has it, is called and answers. *)
Answers(has) ==
  IF ~has THEN {"no call"}
  ELSE IF Signals < MaxSignals THEN {"continue", "skip", "break"} ELSE {"continue"}
Note(callback, result) ==
  log' = IF result = "no call" THEN log
         ELSE Append(log, [callback |-> callback, node |-> frame.node, parent |-> frame.parent,
                           result |-> result])

WalkInit ==
  /\ visitor = Plain
  /\ tree = None
  /\ frames = <<>>
  /\ log = <<>>
  /\ broken = FALSE

traverse(node) ==
  /\ tree = None
  /\ tree' = node
  /\ visitor' \in Visitors(node)
  /\ frames' = <<Frame(node, None)>>
  /\ UNCHANGED <<log, broken>>

Walking == frames # <<>>

(* "break" makes every walk in progress return false. *)
Unwind == frames' = <<>> /\ broken' = TRUE

EnterNode_SkipsLeave ==
  /\ Walking /\ frame.at = "enter"
  /\ \E result \in Answers(visitor.enter) :
       /\ Note("enter", result)
       /\ \/ result = "break" /\ Unwind
          \/ result = "skip" /\ frames' = Front(frames) /\ UNCHANGED broken
          \/ result \notin {"break", "skip"} /\ Goto("handler", <<>>) /\ UNCHANGED broken
  /\ UNCHANGED <<visitor, tree>>
EnterNode ==
  /\ Walking /\ frame.at = "enter"
  /\ \E result \in Answers(visitor.enter) :
       /\ Note("enter", result)
       /\ \/ result = "break" /\ Unwind
          \/ result = "skip" /\ Goto("leave", <<>>) /\ UNCHANGED broken
          \/ result \notin {"break", "skip"} /\ Goto("handler", <<>>) /\ UNCHANGED broken
  /\ UNCHANGED <<visitor, tree>>

HandleNode ==
  /\ Walking /\ frame.at = "handler"
  /\ \E result \in Answers(frame.node.type \in visitor.nodes) :
       /\ Note("handler", result)
       /\ \/ result = "break" /\ Unwind
          \/ result = "skip" /\ Goto("leave", <<>>) /\ UNCHANGED broken
          \/ /\ result \notin {"break", "skip"}
             /\ Goto("children", Children(frame.node))
             /\ UNCHANGED broken
  /\ UNCHANGED <<visitor, tree>>

VisitChild ==
  /\ Walking /\ frame.at = "children" /\ frame.todo # <<>>
  /\ frames' = Append([frames EXCEPT ![Len(frames)].todo = Tail(@)],
                      Frame(Head(frame.todo), frame.node))
  /\ UNCHANGED <<visitor, tree, log, broken>>

LeaveNode_BreaksOneLevel ==
  /\ Walking
  /\ frame.at = "leave" \/ (frame.at = "children" /\ frame.todo = <<>>)
  /\ \E result \in Answers(visitor.leave) :
       /\ Note("leave", result)
       /\ frames' = IF result = "break" /\ Len(frames) > 1 THEN Front(Front(frames)) ELSE Front(frames)
       /\ broken' = (broken \/ result = "break")
  /\ UNCHANGED <<visitor, tree>>
LeaveNode ==
  /\ Walking
  /\ frame.at = "leave" \/ (frame.at = "children" /\ frame.todo = <<>>)
  /\ \E result \in Answers(visitor.leave) :
       /\ Note("leave", result)
       /\ \/ result = "break" /\ Unwind
          \/ result # "break" /\ frames' = Front(frames) /\ UNCHANGED broken
  /\ UNCHANGED <<visitor, tree>>

WalkStep == EnterNode \/ HandleNode \/ VisitChild \/ LeaveNode

(* A walk from one of the nodes given. *)
TraverseSpec(nodes) ==
  WalkInit /\ [][(\E node \in nodes : traverse(node)) \/ WalkStep]_walkVars
-----------------------------------------------------------------------------
(* Properties *)

(* Nodes with everything below them, each with the fields of its type and  *)
(* in them what the type asks for.                                         *)
Fits(field, value) ==
  /\ Tag(value) \in field.of
  /\ Tag(value) = "undefined" => value = None
  /\ Tag(value) = "[]" => /\ value.kids \in Seq(ToSet(value.kids))
                          /\ \A i \in DOMAIN value.kids : Tag(value.kids[i]) \in field.items

Whole(nodes) ==
  \A node \in nodes :
    /\ IsNode(node)
    /\ DOMAIN node.kids = DOMAIN NodeTypes[node.type]
    /\ \A i \in DOMAIN node.kids : Fits(NodeTypes[node.type][i], node.kids[i])
    /\ ChildNodes(node) \subseteq nodes

(* What the type of Visitor asks of keys. *)
KeysFit(v) == \A type \in DOMAIN v.keys \cap AstTypes : v.keys[type] \in Seq(ChildKeys(type))

NodesOf(calls) == [i \in DOMAIN calls |-> calls[i].node]

(* The nodes that are open after a call, given those open before it, and   *)
(* after a sequence of calls; <<None>> when a leave is not for the last.   *)
OpenAfter(call, open) ==
  IF call.callback = "enter" THEN Append(open, call.node)
  ELSE IF call.callback # "leave" THEN open
  ELSE IF open # <<>> /\ Last(open) = call.node THEN Front(open) ELSE <<None>>
OpenNodes(calls) ==
  LET open[i \in 0 .. Len(calls)] ==
        IF i = 0 THEN <<>> ELSE OpenAfter(calls[i], open[i - 1])
  IN  open[Len(calls)]

(* The nodes entered and not yet left are those being walked. *)
Entered == NodesOf(IF Walking /\ frame.at = "enter" THEN Front(frames) ELSE frames)
LeavesPaired == visitor.enter /\ visitor.leave /\ ~broken => OpenNodes(log) = Entered

BreakIsLast ==
  \A i \in DOMAIN log : log[i].result = "break" => i = Len(log) /\ ~Walking

ParentEncloses ==
  \A i \in DOMAIN log :
    IF log[i].parent = None THEN log[i].node = tree
    ELSE log[i].node \in ChildNodes(log[i].parent)

(* The calls nest as the nodes do: leave comes for what was entered, in    *)
(* reverse, also around skipped nodes, and every callback gets the nearest *)
(* node around its own as the parent, however many lists are between.      *)
CallsNest == LeavesPaired /\ ParentEncloses
=============================================================================
