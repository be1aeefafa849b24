-------------------------------- MODULE Nodes --------------------------------
(***************************************************************************)
(* The AST of src/ast/nodes.ts: its node types, their fields and what each *)
(* field holds.                                                            *)
(*                                                                         *)
(* A value of the AST is a record [type, word, span, kids]: a node with    *)
(* its fields in the order of its interface, a list (type "[]") with its   *)
(* items, or a scalar (a member of an enumeration, "true" or "false", a    *)
(* Token, text cut from the source) with neither.  word is the text a leaf *)
(* carries.  None stands for undefined.  Flag words (flags of a column or  *)
(* a table) are left out.                                                  *)
(***************************************************************************)
EXTENDS Integers, Sequences, TLC, Undefined

(* The type of a field: the tags of the values it accepts and, for a list, *)
(* those of its items.                                                     *)
One(name, tags)     == [name |-> name, of |-> tags, items |-> {}]
Opt(name, tags)     == [name |-> name, of |-> tags \cup {"undefined"}, items |-> {}]
Many(name, tags)    == [name |-> name, of |-> {"[]"}, items |-> tags]
OptMany(name, tags) == [name |-> name, of |-> {"[]", "undefined"}, items |-> tags]
-----------------------------------------------------------------------------
(* Enumerations *)

Boolean == {"true", "false"}
LikeOperator == {"Glob", "Like", "Match", "Regexp"}
Operator == {"Add", "And", "ArrowRight", "ArrowRightShift", "BitwiseAnd",
  "BitwiseOr", "Concat", "Equals", "Divide", "Greater", "GreaterEquals", "Is",
  "IsNot", "LeftShift", "Less", "LessEquals", "Modulus", "Multiply",
  "NotEquals", "Or", "RightShift", "Subtract"}
UnaryOperator == {"BitwiseNot", "Negative", "Not", "Positive"}
CompoundOperator == {"Union", "UnionAll", "Except", "Intersect"}
Distinctness == {"Distinct", "All"}
SortOrder == {"Asc", "Desc"}
NullsOrder == {"First", "Last"}
RefAct == {"SetNull", "SetDefault", "Cascade", "Restrict", "NoAction"}
InitDeferredPred == {"InitiallyDeferred", "InitiallyImmediate"}
TriggerTime == {"Before", "After", "InsteadOf"}
ResolveType == {"Rollback", "Abort", "Fail", "Ignore", "Replace"}
Materialized == {"Any", "Yes", "No"}
TransactionType == {"Deferred", "Immediate", "Exclusive"}
FrameMode == {"Groups", "Range", "Rows"}
FrameExclude == {"NoOthers", "CurrentRow", "Group", "Ties"}

(* Unions of node types *)

Literal == {"NumericLiteral", "StringLiteral", "BlobLiteral", "KeywordLiteral",
  "NullLiteral", "CurrentDateLiteral", "CurrentTimeLiteral",
  "CurrentTimestampLiteral"}
Stmt == {"AlterTableStmt", "AnalyzeStmt", "AttachStmt", "BeginStmt",
  "CommitStmt", "CreateIndexStmt", "CreateTableStmt", "CreateTriggerStmt",
  "CreateViewStmt", "CreateVirtualTableStmt", "DeleteStmt", "DetachStmt",
  "DropIndexStmt", "DropTableStmt", "DropTriggerStmt", "DropViewStmt",
  "ExplainStmt", "InsertStmt", "PragmaStmt", "ReindexStmt", "ReleaseStmt",
  "RollbackStmt", "SavepointStmt", "SelectStmt", "UpdateStmt", "VacuumStmt"}
Expr == {"BetweenExpr", "BinaryExpr", "CaseExpr", "CastExpr", "CollateExpr",
  "ExistsExpr", "FunctionCallExpr", "FunctionCallStarExpr", "Id", "InListExpr",
  "InSelectExpr", "InTableExpr", "IsNullExpr", "LikeExpr", "NameExpr",
  "NotNullExpr", "ParenthesizedExpr", "QualifiedExpr", "RaiseExpr",
  "SubqueryExpr", "UnaryExpr", "VariableExpr"} \cup Literal
FunctionCallOrder == {"SortListFunctionCallOrder",
  "WithinGroupFunctionCallOrder"}
OneSelect == {"SelectFrom", "SelectValues"}
ResultColumn == {"ExprResultColumn", "StarResultColumn",
  "TableStarResultColumn"}
As == {"AsAs", "ElidedAs"}
SelectTable == {"TableSelectTable", "TableCallSelectTable", "SelectSelectTable",
  "SubSelectTable"}
JoinOperator == {"CommaJoinOperator", "TypedJoinJoinOperator"}
JoinConstraint == {"OnJoinConstraint", "UsingJoinConstraint"}
AlterTableBody == {"RenameToAlterTableBody", "AddColumnAlterTableBody",
  "DropColumnNotNullAlterTableBody", "SetColumnNotNullAlterTableBody",
  "RenameColumnAlterTableBody", "DropColumnAlterTableBody",
  "AddConstraintAlterTableBody", "DropConstraintAlterTableBody"}
CreateTableBody == {"ColumnsAndConstraintsCreateTableBody",
  "AsSelectCreateTableBody"}
ColumnConstraint == {"PrimaryKeyColumnConstraint", "NotNullColumnConstraint",
  "UniqueColumnConstraint", "CheckColumnConstraint", "DefaultColumnConstraint",
  "DeferColumnConstraint", "CollateColumnConstraint",
  "ForeignKeyColumnConstraint", "GeneratedColumnConstraint"}
TableConstraint == {"PrimaryKeyTableConstraint", "UniqueTableConstraint",
  "CheckTableConstraint", "ForeignKeyTableConstraint"}
Indexed == {"IndexedByIndexed", "NotIndexedIndexed"}
RefArg == {"OnDeleteRefArg", "OnInsertRefArg", "OnUpdateRefArg", "MatchRefArg"}
InsertBody == {"SelectInsertBody", "DefaultValuesInsertBody"}
PragmaBody == {"EqualsPragmaBody", "CallPragmaBody"}
TriggerEvent == {"DeleteTriggerEvent", "InsertTriggerEvent",
  "UpdateTriggerEvent", "UpdateOfTriggerEvent"}
TriggerCmd == {"UpdateTriggerCmd", "InsertTriggerCmd", "DeleteTriggerCmd",
  "SelectTriggerCmd"}
TypeSize == {"MaxSizeTypeSize", "TypeSizeTypeSize"}
UpsertDo == {"SetUpsertDo", "NothingUpsertDo"}
Over == {"WindowOver", "NameOver"}
FrameBound == {"CurrentRowFrameBound", "FollowingFrameBound",
  "PrecedingFrameBound", "UnboundedFollowingFrameBound",
  "UnboundedPrecedingFrameBound"}
-----------------------------------------------------------------------------
(* Nodes and their fields, in the order of the source *)

StatementsAlterToCreate == [
  CmdList |-> <<Many("cmds", Stmt)>>,
  AlterTableStmt |-> <<One("tblName", {"QualifiedName"}), One("body", AlterTableBody)>>,
  AnalyzeStmt |-> <<Opt("objName", {"QualifiedName"})>>,
  AttachStmt |-> <<One("expr", Expr), One("dbName", Expr), Opt("key", Expr)>>,
  BeginStmt |-> <<Opt("tx", TransactionType), Opt("txName", {"Name"})>>,
  CommitStmt |-> <<Opt("txName", {"Name"})>>,
  CreateIndexStmt |-> <<One("unique", Boolean), One("ifNotExists", Boolean),
      One("idxName", {"QualifiedName"}), One("tblName", {"Name"}),
      Many("columns", {"SortedColumn"}), Opt("whereClause", Expr)>>,
  CreateTableStmt |-> <<One("temporary", Boolean), One("ifNotExists", Boolean),
      One("tblName", {"QualifiedName"}), One("body", CreateTableBody)>>,
  CreateTriggerStmt |-> <<One("temporary", Boolean), One("ifNotExists", Boolean),
      One("triggerName", {"QualifiedName"}), Opt("time", TriggerTime),
      One("event", TriggerEvent), One("tblName", {"QualifiedName"}),
      One("forEachRow", Boolean), Opt("whenClause", Expr), Many("commands", TriggerCmd)>>,
  CreateViewStmt |-> <<One("temporary", Boolean), One("ifNotExists", Boolean),
      One("viewName", {"QualifiedName"}), OptMany("columns", {"IndexedColumn"}),
      One("select", {"Select"})>>,
  CreateVirtualTableStmt |-> <<One("ifNotExists", Boolean),
      One("tblName", {"QualifiedName"}), One("moduleName", {"Name"}),
      OptMany("args", {"string"})>>]

StatementsDeleteToRelease == [
  DeleteStmt |-> <<Opt("with", {"With"}), One("tblName", {"QualifiedName"}),
      Opt("indexed", Indexed), Opt("whereClause", Expr), OptMany("returning", ResultColumn),
      OptMany("orderBy", {"SortedColumn"}), Opt("limit", {"Limit"})>>,
  DetachStmt |-> <<One("expr", Expr)>>,
  DropIndexStmt |-> <<One("ifExists", Boolean), One("idxName", {"QualifiedName"})>>,
  DropTableStmt |-> <<One("ifExists", Boolean), One("tblName", {"QualifiedName"})>>,
  DropTriggerStmt |-> <<One("ifExists", Boolean), One("triggerName", {"QualifiedName"})>>,
  DropViewStmt |-> <<One("ifExists", Boolean), One("viewName", {"QualifiedName"})>>,
  ExplainStmt |-> <<One("queryPlan", Boolean), One("stmt", Stmt)>>,
  InsertStmt |-> <<Opt("with", {"With"}), Opt("orConflict", ResolveType),
      One("tblName", {"QualifiedName"}), OptMany("columns", {"Name"}),
      One("body", InsertBody), OptMany("returning", ResultColumn)>>,
  PragmaStmt |-> <<One("name", {"QualifiedName"}), Opt("body", PragmaBody)>>,
  ReindexStmt |-> <<Opt("objName", {"QualifiedName"})>>,
  ReleaseStmt |-> <<One("savepointName", {"Name"})>>]

StatementsRollbackToVacuum == [
  RollbackStmt |-> <<Opt("txName", {"Name"}), Opt("savepointName", {"Name"})>>,
  SavepointStmt |-> <<One("savepointName", {"Name"})>>,
  SelectStmt |-> <<One("body", {"Select"})>>,
  UpdateStmt |-> <<Opt("with", {"With"}), Opt("orConflict", ResolveType),
      One("tblName", {"QualifiedName"}), Opt("indexed", Indexed),
      Many("sets", {"SetAssignment"}), Opt("from", {"FromClause"}),
      Opt("whereClause", Expr), OptMany("returning", ResultColumn),
      OptMany("orderBy", {"SortedColumn"}), Opt("limit", {"Limit"})>>,
  VacuumStmt |-> <<Opt("dbName", {"Name"}), Opt("into", Expr)>>]

ExprsBetweenToInSelect == [
  BetweenExpr |-> <<One("lhs", Expr), One("not", Boolean), One("start", Expr),
      One("end", Expr)>>,
  BinaryExpr |-> <<One("left", Expr), One("op", Operator), One("right", Expr)>>,
  CaseExpr |-> <<Opt("base", Expr), Many("whenThenPairs", {"WhenThen"}),
      Opt("elseExpr", Expr)>>,
  WhenThen |-> <<One("when", Expr), One("then", Expr)>>,
  CastExpr |-> <<One("expr", Expr), Opt("typeName", {"Type"})>>,
  CollateExpr |-> <<One("expr", Expr), One("collation", {"string"})>>,
  ExistsExpr |-> <<One("select", {"Select"})>>,
  FunctionCallExpr |-> <<One("name", {"Id"}), Opt("distinctness", Distinctness),
      OptMany("args", Expr), Opt("orderBy", FunctionCallOrder),
      Opt("filterOver", {"FunctionTail"})>>,
  FunctionCallStarExpr |-> <<One("name", {"Id"}), Opt("filterOver", {"FunctionTail"})>>,
  InListExpr |-> <<One("lhs", Expr), One("not", Boolean), OptMany("rhs", Expr)>>,
  InSelectExpr |-> <<One("lhs", Expr), One("not", Boolean), One("rhs", {"Select"})>>]

ExprsInTableToVariable == [
  InTableExpr |-> <<One("lhs", Expr), One("not", Boolean), One("rhs", {"QualifiedName"}),
      OptMany("args", Expr)>>,
  IsNullExpr |-> <<One("expr", Expr)>>,
  LikeExpr |-> <<One("lhs", Expr), One("not", Boolean), One("op", LikeOperator),
      One("rhs", Expr), Opt("escape", Expr)>>,
  NameExpr |-> <<One("name", {"Name"})>>,
  NotNullExpr |-> <<One("expr", Expr)>>,
  ParenthesizedExpr |-> <<Many("exprs", Expr)>>,
  QualifiedExpr |-> <<Opt("schema", {"Name"}), One("table", {"Name"}),
      One("column", {"Name"})>>,
  RaiseExpr |-> <<One("resolve", ResolveType), Opt("message", Expr)>>,
  SubqueryExpr |-> <<One("select", {"Select"})>>,
  UnaryExpr |-> <<One("op", UnaryOperator), One("expr", Expr)>>,
  VariableExpr |-> <<>>]

LiteralNodes == [
  NumericLiteral |-> <<>>,
  StringLiteral |-> <<>>,
  BlobLiteral |-> <<>>,
  KeywordLiteral |-> <<>>,
  NullLiteral |-> <<>>,
  CurrentDateLiteral |-> <<>>,
  CurrentTimeLiteral |-> <<>>,
  CurrentTimestampLiteral |-> <<>>]

SelectNodes == [
  Select |-> <<Opt("with", {"With"}), One("select", OneSelect),
      OptMany("compounds", {"CompoundSelect"}), OptMany("orderBy", {"SortedColumn"}),
      Opt("limit", {"Limit"})>>,
  CompoundSelect |-> <<One("operator", CompoundOperator), One("select", OneSelect)>>,
  FromClause |-> <<Opt("select", SelectTable), OptMany("joins", {"JoinedSelectTable"})>>,
  JoinedSelectTable |-> <<One("operator", JoinOperator), One("table", SelectTable),
      Opt("constraint", JoinConstraint)>>]

NameNodes == [
  Id |-> <<>>,
  Name |-> <<>>,
  QualifiedName |-> <<Opt("dbName", {"Name"}), One("objName", {"Name"}),
      Opt("alias", {"Name"})>>]

ColumnConstraintNodes == [
  ColumnDefinition |-> <<One("colName", {"Name"}), Opt("colType", {"Type"}),
      Many("constraints", {"NamedColumnConstraint"})>>,
  NamedColumnConstraint |-> <<Opt("name", {"Name"}), One("constraint", ColumnConstraint)>>,
  PrimaryKeyColumnConstraint |-> <<Opt("order", SortOrder),
      Opt("conflictClause", ResolveType), One("autoIncrement", Boolean)>>,
  NotNullColumnConstraint |-> <<One("nullable", Boolean), Opt("conflictClause", ResolveType)>>,
  UniqueColumnConstraint |-> <<Opt("conflictClause", ResolveType)>>,
  CheckColumnConstraint |-> <<One("expr", Expr)>>,
  DefaultColumnConstraint |-> <<One("expr", Expr)>>,
  DeferColumnConstraint |-> <<One("clause", {"DeferSubclause"})>>,
  CollateColumnConstraint |-> <<One("collationName", {"Name"})>>,
  ForeignKeyColumnConstraint |-> <<One("clause", {"ForeignKeyClause"}),
      Opt("deferClause", {"DeferSubclause"})>>,
  GeneratedColumnConstraint |-> <<One("expr", Expr), Opt("typ", {"Id"})>>]

TableConstraintNodes == [
  NamedTableConstraint |-> <<Opt("name", {"Name"}), One("constraint", TableConstraint)>>,
  PrimaryKeyTableConstraint |-> <<Many("columns", {"SortedColumn"}),
      One("autoIncrement", Boolean), Opt("conflictClause", ResolveType)>>,
  UniqueTableConstraint |-> <<Many("columns", {"SortedColumn"}),
      Opt("conflictClause", ResolveType)>>,
  CheckTableConstraint |-> <<One("expr", Expr), Opt("conflictClause", ResolveType)>>,
  ForeignKeyTableConstraint |-> <<Many("columns", {"IndexedColumn"}),
      One("clause", {"ForeignKeyClause"}), Opt("deferClause", {"DeferSubclause"})>>]

IndexNodes == [
  IndexedColumn |-> <<One("colName", {"Name"}), Opt("collationName", {"Name"}),
      Opt("order", SortOrder)>>,
  SortedColumn |-> <<One("expr", Expr), Opt("order", SortOrder), Opt("nulls", NullsOrder)>>,
  Limit |-> <<One("expr", Expr), Opt("offset", Expr)>>,
  ForeignKeyClause |-> <<One("tblName", {"Name"}), OptMany("columns", {"IndexedColumn"}),
      Many("args", RefArg)>>,
  DeferSubclause |-> <<One("deferrable", Boolean), Opt("initDeferred", InitDeferredPred)>>]

UpdateAndTriggerNodes == [
  SetAssignment |-> <<Many("colNames", {"Name"}), One("expr", Expr)>>,
  UpdateTriggerCmd |-> <<Opt("orConflict", ResolveType), One("tblName", {"QualifiedName"}),
      Many("sets", {"SetAssignment"}), Opt("from", {"FromClause"}), Opt("whereClause", Expr)>>,
  InsertTriggerCmd |-> <<Opt("orConflict", ResolveType), One("tblName", {"QualifiedName"}),
      OptMany("colNames", {"Name"}), One("select", {"Select"}), Opt("upsert", {"Upsert"})>>,
  DeleteTriggerCmd |-> <<One("tblName", {"QualifiedName"}), Opt("whereClause", Expr)>>,
  SelectTriggerCmd |-> <<One("select", {"Select"})>>]

WithNodes == [
  With |-> <<One("recursive", Boolean), Many("ctes", {"CommonTableExpr"})>>,
  CommonTableExpr |-> <<One("tblName", {"Name"}), OptMany("columns", {"IndexedColumn"}),
      One("materialized", Materialized), One("select", {"Select"})>>,
  Type |-> <<One("name", {"string"}), Opt("size", TypeSize)>>]

UpsertNodes == [
  Upsert |-> <<Opt("index", {"UpsertIndex"}), One("doClause", UpsertDo),
      Opt("next", {"Upsert"})>>,
  UpsertIndex |-> <<Many("targets", {"SortedColumn"}), Opt("whereClause", Expr)>>]

WindowNodes == [
  FunctionTail |-> <<Opt("filterClause", Expr), Opt("overClause", Over)>>,
  WindowDef |-> <<One("name", {"Name"}), One("window", {"Window"})>>,
  Window |-> <<Opt("base", {"Name"}), OptMany("partitionBy", Expr),
      OptMany("orderBy", {"SortedColumn"}), Opt("frameClause", {"FrameClause"})>>,
  FrameClause |-> <<One("mode", FrameMode), One("start", FrameBound),
      Opt("end", FrameBound), Opt("exclude", FrameExclude)>>]

SelectPartNodes == [
  SortListFunctionCallOrder |-> <<Many("columns", {"SortedColumn"})>>,
  WithinGroupFunctionCallOrder |-> <<One("expr", Expr)>>,
  SelectFrom |-> <<Opt("distinctness", Distinctness), Many("columns", ResultColumn),
      Opt("from", {"FromClause"}), Opt("whereClause", Expr), OptMany("groupBy", Expr),
      Opt("having", Expr), OptMany("windowClause", {"WindowDef"})>>,
  SelectValues |-> <<Many("values", {"ValuesRow"})>>,
  ValuesRow |-> <<Many("values", Expr)>>,
  ExprResultColumn |-> <<One("expr", Expr), Opt("alias", As)>>,
  StarResultColumn |-> <<>>,
  TableStarResultColumn |-> <<One("table", {"Name"})>>,
  AsAs |-> <<One("name", {"Name"})>>,
  ElidedAs |-> <<One("name", {"Name"})>>,
  TableSelectTable |-> <<One("tblName", {"QualifiedName"}), Opt("alias", As),
      Opt("indexed", Indexed)>>,
  TableCallSelectTable |-> <<One("tblName", {"QualifiedName"}), OptMany("args", Expr),
      Opt("alias", As)>>,
  SelectSelectTable |-> <<One("select", {"Select"}), Opt("alias", As)>>,
  SubSelectTable |-> <<One("from", {"FromClause"}), Opt("alias", As)>>,
  CommaJoinOperator |-> <<>>,
  TypedJoinJoinOperator |-> <<Opt("joinType", {"JoinType"})>>,
  OnJoinConstraint |-> <<One("expr", Expr)>>,
  UsingJoinConstraint |-> <<Many("columns", {"Name"})>>]

TableBodyNodes == [
  RenameToAlterTableBody |-> <<One("name", {"Name"})>>,
  AddColumnAlterTableBody |-> <<One("column", {"ColumnDefinition"})>>,
  DropColumnNotNullAlterTableBody |-> <<One("column", {"Name"})>>,
  SetColumnNotNullAlterTableBody |-> <<One("column", {"Name"}),
      Opt("onConflict", ResolveType)>>,
  RenameColumnAlterTableBody |-> <<One("old", {"Name"}), One("new", {"Name"})>>,
  DropColumnAlterTableBody |-> <<One("column", {"Name"})>>,
  AddConstraintAlterTableBody |-> <<One("constraint", {"NamedTableConstraint"})>>,
  DropConstraintAlterTableBody |-> <<One("name", {"Name"})>>,
  ColumnsAndConstraintsCreateTableBody |-> <<Many("columns", {"ColumnDefinition"}),
      OptMany("constraints", {"NamedTableConstraint"})>>,
  AsSelectCreateTableBody |-> <<One("select", {"Select"})>>]

PartNodes == [
  IndexedByIndexed |-> <<One("idxName", {"Name"})>>,
  NotIndexedIndexed |-> <<>>,
  OnDeleteRefArg |-> <<One("action", RefAct)>>,
  OnInsertRefArg |-> <<One("action", RefAct)>>,
  OnUpdateRefArg |-> <<One("action", RefAct)>>,
  MatchRefArg |-> <<One("name", {"Name"})>>,
  SelectInsertBody |-> <<One("select", {"Select"}), Opt("upsert", {"Upsert"})>>,
  DefaultValuesInsertBody |-> <<>>,
  EqualsPragmaBody |-> <<One("value", Expr)>>,
  CallPragmaBody |-> <<One("value", Expr)>>,
  DeleteTriggerEvent |-> <<>>,
  InsertTriggerEvent |-> <<>>,
  UpdateTriggerEvent |-> <<>>,
  UpdateOfTriggerEvent |-> <<Many("columns", {"Name"})>>,
  MaxSizeTypeSize |-> <<One("size", Expr)>>,
  TypeSizeTypeSize |-> <<One("size1", Expr), One("size2", Expr)>>,
  SetUpsertDo |-> <<Many("sets", {"SetAssignment"}), Opt("whereClause", Expr)>>,
  NothingUpsertDo |-> <<>>,
  WindowOver |-> <<One("window", {"Window"})>>,
  NameOver |-> <<One("name", {"Name"})>>,
  CurrentRowFrameBound |-> <<>>,
  FollowingFrameBound |-> <<One("expr", Expr)>>,
  PrecedingFrameBound |-> <<One("expr", Expr)>>,
  UnboundedFollowingFrameBound |-> <<>>,
  UnboundedPrecedingFrameBound |-> <<>>]

(* What the parser passes between its rules and never puts in the AST. *)
ParserNodes == [
  string |-> <<Many("pieces", {"text"})>>,
  JoinType |-> <<Many("flags", {"INNER", "CROSS", "NATURAL", "LEFT", "RIGHT", "OUTER"})>>,
  FromClauseMut |-> <<Opt("select", SelectTable), Many("joins", {"JoinedSelectTable"}),
      Opt("pendingOp", JoinOperator)>>,
  SelectBody |-> <<One("select", OneSelect), OptMany("compounds", {"CompoundSelect"})>>,
  ColumnName |-> <<One("colName", {"Name"}), Opt("colType", {"Type"})>>,
  LikeOp |-> <<One("not", Boolean), One("op", LikeOperator)>>,
  WhereReturning |-> <<Opt("where", Expr), OptMany("returning", ResultColumn)>>,
  Returning |-> <<OptMany("columns", ResultColumn)>>,
  UpsertReturning |-> <<Opt("upsert", {"Upsert"}), OptMany("returning", ResultColumn),
      Opt("returningSpan", {"Span"})>>]

NodeTypes ==
  StatementsAlterToCreate @@ StatementsDeleteToRelease @@ StatementsRollbackToVacuum @@
  ExprsBetweenToInSelect @@ ExprsInTableToVariable @@ LiteralNodes @@
  SelectNodes @@ NameNodes @@ ColumnConstraintNodes @@
  TableConstraintNodes @@ IndexNodes @@ UpdateAndTriggerNodes @@
  WithNodes @@ UpsertNodes @@ WindowNodes @@
  SelectPartNodes @@ TableBodyNodes @@ PartNodes @@ ParserNodes

(* The types the reducer casts the values of its right-hand sides to, by   *)
(* the name of the symbol.                                                 *)
Cast(names, type) == [symbol \in names |-> type]

MinorTypes ==
  Cast({"expr", "term", "filter_clause", "minus_num", "plus_num", "nmnum", "signed"},
       One("", Expr)) @@
  Cast({"case_else", "case_operand", "having_opt", "key_opt", "vinto", "when_clause",
        "where_opt"}, Opt("", Expr)) @@
  Cast({"nexprlist"}, Many("", Expr)) @@
  Cast({"exprlist", "groupby_opt", "paren_exprlist"}, OptMany("", Expr)) @@
  Cast({"autoinc", "between_op", "foreach_clause", "ifexists", "ifnotexists", "in_op",
        "temp", "uniqueflag"}, One("", Boolean)) @@
  Cast({"table_option", "table_option_set"}, One("", {"TabFlags"})) @@
  Cast({"nm"}, One("", {"Name"})) @@ Cast({"collate", "trans_opt"}, Opt("", {"Name"})) @@
  Cast({"idlist"}, Many("", {"Name"})) @@ Cast({"idlist_opt"}, OptMany("", {"Name"})) @@
  Cast({"fullname", "xfullname"}, One("", {"QualifiedName"})) @@
  Cast({"typename"}, One("", {"string"})) @@ Cast({"typetoken"}, Opt("", {"Type"})) @@
  Cast({"columnname"}, One("", {"ColumnName"})) @@
  Cast({"columnlist"}, Many("", {"ColumnDefinition"})) @@
  Cast({"ccons"}, Opt("", {"NamedColumnConstraint"})) @@
  Cast({"carglist"}, Many("", {"NamedColumnConstraint"})) @@
  Cast({"tcons"}, Opt("", {"NamedTableConstraint"})) @@
  Cast({"conslist"}, Many("", {"NamedTableConstraint"})) @@
  Cast({"conslist_opt"}, OptMany("", {"NamedTableConstraint"})) @@
  Cast({"generated"}, One("", ColumnConstraint)) @@
  Cast({"create_table_args"}, One("", CreateTableBody)) @@
  Cast({"create_vtab"}, One("", Stmt)) @@
  Cast({"refarg"}, One("", RefArg)) @@ Cast({"refargs"}, Many("", RefArg)) @@
  Cast({"refact"}, One("", RefAct)) @@
  Cast({"defer_subclause"}, One("", {"DeferSubclause"})) @@
  Cast({"defer_subclause_opt"}, Opt("", {"DeferSubclause"})) @@
  Cast({"init_deferred_pred_opt"}, Opt("", InitDeferredPred)) @@
  Cast({"resolvetype", "raisetype"}, One("", ResolveType)) @@
  Cast({"onconf", "orconf", "insert_cmd"}, Opt("", ResolveType)) @@
  Cast({"transtype"}, Opt("", TransactionType)) @@
  Cast({"select"}, One("", {"Select"})) @@ Cast({"oneselect"}, One("", OneSelect)) @@
  Cast({"selectnowith"}, One("", {"SelectBody"})) @@
  Cast({"multiselect_op"}, One("", CompoundOperator)) @@
  Cast({"values", "mvalues"}, Many("", {"ValuesRow"})) @@
  Cast({"distinct"}, Opt("", Distinctness)) @@
  Cast({"sclp", "selcollist"}, Many("", ResultColumn)) @@ Cast({"as"}, Opt("", As)) @@
  Cast({"from"}, Opt("", {"FromClause"})) @@
  Cast({"stl_prefix", "seltablist"}, One("", {"FromClauseMut"})) @@
  Cast({"joinop"}, One("", JoinOperator)) @@ Cast({"on_using"}, Opt("", JoinConstraint)) @@
  Cast({"indexed_opt"}, Opt("", Indexed)) @@
  Cast({"sortlist"}, Many("", {"SortedColumn"})) @@
  Cast({"orderby_opt"}, OptMany("", {"SortedColumn"})) @@
  Cast({"sortorder"}, Opt("", SortOrder)) @@ Cast({"nulls"}, Opt("", NullsOrder)) @@
  Cast({"limit_opt"}, Opt("", {"Limit"})) @@
  Cast({"eidlist"}, Many("", {"IndexedColumn"})) @@
  Cast({"eidlist_opt"}, OptMany("", {"IndexedColumn"})) @@
  Cast({"where_opt_ret"}, One("", {"WhereReturning"})) @@
  Cast({"returning"}, One("", {"Returning"})) @@
  Cast({"upsert"}, One("", {"UpsertReturning"})) @@
  Cast({"setlist"}, Many("", {"SetAssignment"})) @@
  Cast({"likeop"}, One("", {"LikeOp"})) @@
  Cast({"case_exprlist"}, Many("", {"WhenThen"})) @@
  Cast({"trigger_time"}, Opt("", TriggerTime)) @@
  Cast({"trigger_event"}, One("", TriggerEvent)) @@
  Cast({"trigger_cmd"}, One("", TriggerCmd)) @@
  Cast({"trigger_cmd_list"}, Many("", TriggerCmd)) @@
  Cast({"with"}, Opt("", {"With"})) @@ Cast({"wqas"}, One("", Materialized)) @@
  Cast({"wqitem"}, One("", {"CommonTableExpr"})) @@
  Cast({"wqlist"}, Many("", {"CommonTableExpr"})) @@
  Cast({"window"}, One("", {"Window"})) @@ Cast({"windowdefn"}, One("", {"WindowDef"})) @@
  Cast({"windowdefn_list", "window_clause"}, Many("", {"WindowDef"})) @@
  Cast({"frame_opt"}, Opt("", {"FrameClause"})) @@
  Cast({"range_or_rows"}, One("", FrameMode)) @@
  Cast({"frame_bound", "frame_bound_s", "frame_bound_e"}, One("", FrameBound)) @@
  Cast({"frame_exclude"}, One("", FrameExclude)) @@
  Cast({"frame_exclude_opt"}, Opt("", FrameExclude)) @@
  Cast({"filter_over"}, One("", {"FunctionTail"})) @@ Cast({"over_clause"}, One("", Over))
-----------------------------------------------------------------------------
Tag(value) == IF value = None THEN "undefined" ELSE value.type

AstTypes == DOMAIN NodeTypes \ DOMAIN ParserNodes
IsNode(value) == Tag(value) \in AstTypes

(* The nodes directly below a node, looking through lists. *)
ChildNodes(node) ==
  LET kids == {node.kids[i] : i \in {i \in DOMAIN node.kids : node.kids[i] # None}}
  IN  {kid \in kids : IsNode(kid)} \cup
        UNION {{kid.kids[i] : i \in {i \in DOMAIN kid.kids : IsNode(kid.kids[i])}} :
                 kid \in {kid \in kids : kid.type = "[]"}}
=============================================================================
