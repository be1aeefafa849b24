----------------------------- MODULE AstActions -----------------------------
(***************************************************************************)
(* The reducer of generated/3.53.0/parse.ts with the node constructors and *)
(* checks of src/ast/parseActions.ts: all 413 rules, the AST they build    *)
(* and the slots of the ParseState they stage its parts in.                *)
(*                                                                         *)
(* Values are those of Nodes.  The word of a token is its text without     *)
(* quotes; flag words are left out, and so is the wording of diagnostics:  *)
(* a diagnostic is the rule that reported it and the span it points at.    *)
(* Rules are numbered as in the generated switch and come in its order.    *)
(***************************************************************************)
EXTENDS Nodes, SqliteTables, SequencesExt

CONSTANT
  MisplacedSeparators (* the words sqlite3DequoteNumber finds fault with *)

makeParseState == [stmt |-> None, explain |-> None, cmds |-> <<>>,
                   constraintName |-> None, errors |-> <<>>,
                   vtabArgs |-> <<>>, vtabArgCurrent |-> <<>>]

(* The rules whose value is assigned to state.stmt: the rules of cmd. *)
CommandRules ==
  {5} \cup 13 .. 18 \cup {96, 99, 100, 101, 171, 178, 183, 184, 265} \cup 274 .. 276
    \cup 279 .. 283 \cup {291, 317, 318, 319} \cup 322 .. 336

N(type, span, kids)  == [type |-> type, word |-> "", span |-> span, kids |-> kids]
Is(tag)              == N(tag, None, <<>>)
Yes == Is("true")
No  == Is("false")
List(items)          == N("[]", None, items)
Push(list, item)     == [list EXCEPT !.kids = Append(@, item)]
Leaf(type, token)    == [token EXCEPT !.type = type]
string(tokens)       == N("string", None, <<List([i \in DOMAIN tokens |-> Leaf("text", tokens[i])])>>)

TK == T_tokens
-----------------------------------------------------------------------------
(* src/ast/parseActions.ts: tokens, operators and expressions *)

mkName(token) == Leaf("Name", token)
mkId(token)   == Leaf("Id", token)
mkNumericLiteral(token) == Leaf("NumericLiteral", token)

literalFromCtimeKw(token) ==
  Leaf(CASE token.word = "CURRENT_DATE" -> "CurrentDateLiteral"
         [] token.word = "CURRENT_TIME" -> "CurrentTimeLiteral"
         [] token.word = "CURRENT_TIMESTAMP" -> "CurrentTimestampLiteral", token)

likeOperatorFromToken(token, major) ==
  Is(CASE major = TK.TK_MATCH     -> "Match"
       [] token.word = "LIKE"   -> "Like"
       [] token.word = "GLOB"   -> "Glob"
       [] token.word = "REGEXP" -> "Regexp")

binaryOperatorFromToken(major) ==
  Is(CASE major = TK.TK_AND    -> "And"           [] major = TK.TK_OR     -> "Or"
       [] major = TK.TK_LT     -> "Less"          [] major = TK.TK_GT     -> "Greater"
       [] major = TK.TK_GE     -> "GreaterEquals" [] major = TK.TK_LE     -> "LessEquals"
       [] major = TK.TK_EQ     -> "Equals"        [] major = TK.TK_NE     -> "NotEquals"
       [] major = TK.TK_BITAND -> "BitwiseAnd"    [] major = TK.TK_BITOR  -> "BitwiseOr"
       [] major = TK.TK_LSHIFT -> "LeftShift"     [] major = TK.TK_RSHIFT -> "RightShift"
       [] major = TK.TK_PLUS   -> "Add"           [] major = TK.TK_MINUS  -> "Subtract"
       [] major = TK.TK_STAR   -> "Multiply"      [] major = TK.TK_SLASH  -> "Divide"
       [] major = TK.TK_REM    -> "Modulus"       [] major = TK.TK_CONCAT -> "Concat")

unaryOperatorFromToken(major) ==
  Is(CASE major = TK.TK_BITNOT -> "BitwiseNot" [] major = TK.TK_MINUS -> "Negative"
       [] major = TK.TK_NOT    -> "Not"        [] major = TK.TK_PLUS  -> "Positive")

ptrOperatorFromToken(token) ==
  Is(IF token.word = "->>" THEN "ArrowRightShift" ELSE "ArrowRight")

mkParenthesized(e, span)     == N("ParenthesizedExpr", span, <<List(<<e>>)>>)
mkCollate(e, token, span)    == N("CollateExpr", span, <<e, string(<<token>>)>>)
mkBinary(l, op, r, span)     == N("BinaryExpr", span, <<l, op, r>>)
mkUnary(op, e, span)         == N("UnaryExpr", span, <<op, e>>)
mkNotNullExpr(e, major, span) ==
  N(IF major = TK.TK_ISNULL THEN "IsNullExpr" ELSE "NotNullExpr", span, <<e>>)
mkLikeExpr(l, op, r, escape, span) ==
  N("LikeExpr", span, <<l, op.kids[1], op.kids[2], r, escape>>)

mkFunctionCall(token, distinctness, args, orderBy, filterOver, span) ==
  N("FunctionCallExpr", span, <<mkId(token), distinctness, args, orderBy, filterOver>>)
mkFunctionCallStar(token, filterOver, span) ==
  N("FunctionCallStarExpr", span, <<mkId(token), filterOver>>)

(* DISTINCT takes exactly one argument. *)
DistinctFault(token, distinctness, args) ==
  IF Tag(distinctness) = "Distinct" /\ (args = None \/ Len(args.kids) # 1)
  THEN <<token.span>> ELSE <<>>

(* qnSingle, qnFull, qnAlias and qnXfull *)
QualifiedName_NameFirst(name, db, alias, span) ==
  N("QualifiedName", span, <<db, name, alias>>)
QualifiedName(db, name, alias, span) == N("QualifiedName", span, <<db, name, alias>>)
-----------------------------------------------------------------------------
(* src/ast/parseActions.ts: joins and the FROM clause *)

JoinFlags == <<"INNER", "CROSS", "NATURAL", "LEFT", "RIGHT", "OUTER">>
JoinType(flags) ==
  N("JoinType", None, <<List([i \in 1 .. Cardinality(flags) |->
                                Is(SelectSeq(JoinFlags, LAMBDA f : f \in flags)[i])])>>)

joinTypeFromKeyword(word) ==
  CASE word = "CROSS"   -> {"INNER", "CROSS"}
    [] word = "FULL"    -> {"LEFT", "RIGHT", "OUTER"}
    [] word = "INNER"   -> {"INNER"}
    [] word = "LEFT"    -> {"LEFT", "OUTER"}
    [] word = "NATURAL" -> {"NATURAL"}
    [] word = "RIGHT"   -> {"RIGHT", "OUTER"}
    [] word = "OUTER"   -> {"OUTER"}
    [] OTHER            -> {}

(* words: a JOIN_KW and up to two names.  The keyword table knows no       *)
(* JOIN_KW without a join type.                                            *)
FlagsOf(words) == UNION {joinTypeFromKeyword(words[i].word) : i \in DOMAIN words}
joinOperatorFrom(words, span) ==
  N("TypedJoinJoinOperator", span, <<JoinType(FlagsOf(words))>>)
JoinFaults(words) ==
  LET flags   == FlagsOf(words)
      unknown == SelectSeq(words, LAMBDA word : joinTypeFromKeyword(word.word) = {})
  IN  [i \in DOMAIN unknown |-> unknown[i].span] \o
        IF \/ {"INNER", "OUTER"} \subseteq flags
           \/ "OUTER" \in flags /\ flags \cap {"LEFT", "RIGHT"} = {}
        THEN <<words[1].span>> ELSE <<>>

(* A FromClauseMut holds the first table, the joins and the pending join   *)
(* operator; a join gets the span of its operator when it is frozen.       *)
emptyFromClause == N("FromClauseMut", None, <<None, List(<<>>), None>>)
pendingOp(from) == from.kids[3]
IsNatural(op) ==
  /\ op.type = "TypedJoinJoinOperator"
  /\ op.kids[1] # None
  /\ \E i \in DOMAIN op.kids[1].kids[1].kids : op.kids[1].kids[1].kids[i].type = "NATURAL"

freezeFrom_SpanOfFirst(from, span) ==
  N("FromClause", from.kids[1].span,
    <<from.kids[1], IF from.kids[2].kids = <<>> THEN None ELSE from.kids[2]>>)
freezeFrom(from, span) ==
  N("FromClause", span,
    <<from.kids[1], IF from.kids[2].kids = <<>> THEN None ELSE from.kids[2]>>)

fromClausePush_ReplacesFirst(from, table, constraint) ==
  [from EXCEPT !.kids[1] = table, !.kids[3] = None]
fromClausePush(from, table, constraint) ==
  LET op == pendingOp(from)
  IN  IF op = None
      THEN [from EXCEPT !.kids[1] = table]
      ELSE [from EXCEPT !.kids[2] = Push(@, N("JoinedSelectTable", op.span,
                                              <<op, table, constraint>>)),
                        !.kids[3] = None]

(* A constraint belongs to a join, and not to a NATURAL one. *)
ConstraintFault(from, constraint) ==
  IF constraint # None /\ (pendingOp(from) = None \/ IsNatural(pendingOp(from)))
  THEN <<constraint.span>> ELSE <<>>
-----------------------------------------------------------------------------
(* src/ast/parseActions.ts: SELECT, VALUES, columns, CTEs and upserts *)

mkSelect(with, body, orderBy, limit, span) ==
  N("Select", span, <<with, body.kids[1], body.kids[2], orderBy, limit>>)

pushCompound(body, compound) ==
  [body EXCEPT !.kids[2] = IF @ = None THEN List(<<compound>>) ELSE Push(@, compound)]

(* A star needs a table to expand over. *)
IsStar(column) == column.type \in {"StarResultColumn", "TableStarResultColumn"}
StarFault(columns, from) ==
  LET stars == SelectSeq(columns.kids, IsStar)
  IN  IF from = None /\ stars # <<>> THEN <<stars[1].span>> ELSE <<>>

ValuesRow(row, span) == N("ValuesRow", span, <<row>>)
valuesPush(values, row, span) == Push(values, ValuesRow(row, span))
ArityFault(values, row, span) ==
  IF Len(values.kids[1].kids[1].kids) # Len(row.kids) THEN <<span>> ELSE <<>>

ColumnDefinition(name, type, constraints, span) ==
  N("ColumnDefinition", span, <<name, type, constraints>>)

(* addColumn, addCte and the action of idlist: an item with the name of an *)
(* earlier one is reported and left out.                                   *)
NameOf(item) == IF item.type = "Name" THEN item ELSE item.kids[1]
Declared(list, item) == \E i \in DOMAIN list.kids : NameOf(list.kids[i]).word = NameOf(item).word
addNew(list, item)   == IF Declared(list, item) THEN list ELSE Push(list, item)
DuplicateFault(list, item) == IF Declared(list, item) THEN <<NameOf(item).span>> ELSE <<>>

UpsertIndex(targets, where, span) == N("UpsertIndex", span, <<targets, where>>)
NullsFaults(targets) ==
  LET ordered == SelectSeq(targets.kids, LAMBDA target : target.kids[3] # None)
  IN  [i \in DOMAIN ordered |-> ordered[i].span]
-----------------------------------------------------------------------------
(* The value of each rule: what its action returns or, for a rule of cmd,  *)
(* assigns to state.stmt.  x(i) is popped[i].minor and OTHER an action     *)
(* that returns undefined.                                                 *)

Rules_0_17(rule, popped, span) ==
  LET x(i) == popped[i + 1].minor
  IN  CASE rule = 5           -> N("BeginStmt", span, <<x(1), x(2)>>)
        [] rule = 8           -> x(1)
        [] rule = 10          -> Is("Deferred")
        [] rule = 11          -> Is("Immediate")
        [] rule = 12          -> Is("Exclusive")
        [] rule = 13          -> N("CommitStmt", span, <<x(1)>>)
        [] rule = 14          -> N("RollbackStmt", span, <<x(1), None>>)
        [] rule = 15          -> N("SavepointStmt", span, <<x(1)>>)
        [] rule = 16          -> N("ReleaseStmt", span, <<x(2)>>)
        [] rule = 17          -> N("RollbackStmt", span, <<x(1), x(4)>>)
        [] OTHER              -> None

Rules_18_30(rule, popped, span) ==
  LET x(i) == popped[i + 1].minor
  IN  CASE rule = 18          -> N("CreateTableStmt", span, <<x(1), x(3), x(4), x(5)>>)
        [] rule \in {19, 22}  -> No
        [] rule \in {20, 21}  -> Yes
        [] rule = 23          -> N("ColumnsAndConstraintsCreateTableBody", span, <<x(1), x(2)>>)
        [] rule = 24          -> N("AsSelectCreateTableBody", span, <<x(1)>>)
        [] rule \in 25 .. 28  -> Is("TabFlags")
        [] rule = 29 -> addNew(x(0), ColumnDefinition(x(2).kids[1], x(2).kids[2], x(3), span))
        [] rule = 30 -> List(<<ColumnDefinition(x(0).kids[1], x(0).kids[2], x(1), span)>>)

Rules_31_41(rule, popped, span) ==
  LET x(i) == popped[i + 1].minor
      Type(name, size) == N("Type", span, <<name, size>>)
  IN  CASE rule = 31          -> N("ColumnName", span, <<x(0), x(1)>>)
        [] rule \in {32, 33}  -> mkName(x(0))
        [] rule = 35          -> Type(x(0), None)
        [] rule = 36          -> Type(x(0), N("MaxSizeTypeSize", span, <<x(2)>>))
        [] rule = 37          -> Type(x(0), N("TypeSizeTypeSize", span, <<x(2), x(4)>>))
        [] rule = 38          -> string(<<x(0)>>)
        [] rule = 39          -> [x(0) EXCEPT !.kids[1] = Push(@, Leaf("text", x(1)))]
        [] rule = 40          -> IF x(1) = None THEN x(0) ELSE Push(x(0), x(1))
        [] rule = 41          -> List(<<>>)
        [] OTHER              -> None

(* name is state.constraintName, which the ccons and tcons rules take. *)
Rules_42_49(rule, popped, span, name) ==
  LET x(i) == popped[i + 1].minor
      Named(type, kids) == N("NamedColumnConstraint", span, <<name, N(type, span, kids)>>)
      Default(e) == Named("DefaultColumnConstraint", <<e>>)
  IN  CASE rule = 43          -> Default(x(1))
        [] rule = 44          -> Default(mkParenthesized(x(2), span))
        [] rule = 45          -> Default(mkUnary(Is("Positive"), x(2), span))
        [] rule = 46          -> Default(mkUnary(Is("Negative"), x(2), span))
        [] rule = 47          -> Default(mkId(x(1)))
        [] rule = 48          -> Named("NotNullColumnConstraint", <<Yes, x(1)>>)
        [] rule = 49          -> Named("NotNullColumnConstraint", <<No, x(2)>>)
        [] OTHER              -> None

Rules_50_59(rule, popped, span, name) ==
  LET x(i) == popped[i + 1].minor
      Named(type, kids) == N("NamedColumnConstraint", span, <<name, N(type, span, kids)>>)
      ForeignKey == N("ForeignKeyClause", span, <<x(1), x(2), x(3)>>)
  IN  CASE rule = 50          -> Named("PrimaryKeyColumnConstraint", <<x(2), x(3), x(4)>>)
        [] rule = 51          -> Named("UniqueColumnConstraint", <<x(1)>>)
        [] rule = 52          -> Named("CheckColumnConstraint", <<x(2)>>)
        [] rule = 53          -> Named("ForeignKeyColumnConstraint", <<ForeignKey, None>>)
        [] rule = 54          -> N("NamedColumnConstraint", span,
                                   <<None, N("DeferColumnConstraint", span, <<x(0)>>)>>)
        [] rule = 55          -> Named("CollateColumnConstraint", <<mkName(x(1))>>)
        [] rule = 56          -> N("NamedColumnConstraint", span, <<name, x(3)>>)
        [] rule = 57          -> N("NamedColumnConstraint", span, <<name, x(1)>>)
        [] rule = 58          -> N("GeneratedColumnConstraint", span, <<x(1), None>>)
        [] rule = 59          -> N("GeneratedColumnConstraint", span, <<x(1), mkId(x(3))>>)

Rules_60_77(rule, popped, span) ==
  LET x(i) == popped[i + 1].minor
  IN  CASE rule = 60          -> No
        [] rule = 61          -> Yes
        [] rule = 62          -> List(<<>>)
        [] rule = 63          -> Push(x(0), x(1))
        [] rule = 64          -> N("MatchRefArg", span, <<x(1)>>)
        [] rule = 65          -> N("OnInsertRefArg", span, <<x(2)>>)
        [] rule = 66          -> N("OnDeleteRefArg", span, <<x(2)>>)
        [] rule = 67          -> N("OnUpdateRefArg", span, <<x(2)>>)
        [] rule = 68          -> Is("SetNull")
        [] rule = 69          -> Is("SetDefault")
        [] rule = 70          -> Is("Cascade")
        [] rule = 71          -> Is("Restrict")
        [] rule = 72          -> Is("NoAction")
        [] rule = 73          -> N("DeferSubclause", span, <<No, x(2)>>)
        [] rule = 74          -> N("DeferSubclause", span, <<Yes, x(1)>>)
        [] rule = 76          -> Is("InitiallyDeferred")
        [] rule = 77          -> Is("InitiallyImmediate")
        [] OTHER              -> None

Rules_78_86(rule, popped, span, name) ==
  LET x(i) == popped[i + 1].minor
      Named(type, kids) == N("NamedTableConstraint", span, <<name, N(type, span, kids)>>)
  IN  CASE rule = 79          -> x(1)
        [] rule = 80          -> IF x(2) = None THEN x(0) ELSE Push(x(0), x(2))
        [] rule = 81          -> List(IF x(0) = None THEN <<>> ELSE <<x(0)>>)
        [] rule = 84          -> Named("PrimaryKeyTableConstraint", <<x(3), x(4), x(6)>>)
        [] rule = 85          -> Named("UniqueTableConstraint", <<x(2), x(4)>>)
        [] rule = 86          -> Named("CheckTableConstraint", <<x(2), x(4)>>)
        [] OTHER              -> None

Rules_87_101(rule, popped, span, name) ==
  LET x(i) == popped[i + 1].minor
      ForeignKey == N("ForeignKeyTableConstraint", span,
                      <<x(3), N("ForeignKeyClause", span, <<x(6), x(7), x(8)>>), x(9)>>)
  IN  CASE rule = 87          -> N("NamedTableConstraint", span, <<name, ForeignKey>>)
        [] rule = 89          -> x(0)
        [] rule = 91          -> x(2)
        [] rule = 93          -> x(1)
        [] rule = 94          -> Is("Ignore")
        [] rule = 95          -> Is("Replace")
        [] rule = 96          -> N("DropTableStmt", span, <<x(2), x(3)>>)
        [] rule = 97          -> Yes
        [] rule = 98          -> No
        [] rule = 99 -> N("CreateViewStmt", span, <<x(1), x(3), x(4), x(5), x(7)>>)
        [] rule = 100         -> N("DropViewStmt", span, <<x(2), x(3)>>)
        [] rule = 101         -> N("SelectStmt", span, <<x(0)>>)
        [] OTHER              -> None

Rules_102_117(rule, popped, span) ==
  LET x(i) == popped[i + 1].minor
      With(recursive, ctes) == N("With", span, <<recursive, ctes>>)
      SelectFrom(windows) ==
        N("SelectFrom", span, <<x(1), x(2), x(3), x(4), x(5), x(6), windows>>)
  IN  CASE rule = 102         -> mkSelect(With(No, x(1)), x(2), x(3), x(4), span)
        [] rule = 103         -> mkSelect(With(Yes, x(2)), x(3), x(4), x(5), span)
        [] rule = 104         -> mkSelect(None, x(0), x(1), x(2), span)
        [] rule = 105         -> N("SelectBody", None, <<x(0), None>>)
        [] rule = 106 -> pushCompound(x(0), N("CompoundSelect", span, <<x(1), x(2)>>))
        [] rule = 107         -> Is("Union")
        [] rule = 108         -> Is("UnionAll")
        [] rule = 109         -> Is("Except")
        [] rule = 110         -> Is("Intersect")
        [] rule = 111         -> SelectFrom(None)
        [] rule = 112         -> SelectFrom(x(7))
        [] rule \in {113, 115} -> N("SelectValues", span, <<x(0)>>)
        [] rule = 114         -> List(<<ValuesRow(x(2), span)>>)
        [] rule \in {116, 117} -> valuesPush(x(0), x(3), span)

Rules_118_131(rule, popped, span) ==
  LET x(i) == popped[i + 1].minor
  IN  CASE rule = 118         -> Is("Distinct")
        [] rule = 119         -> Is("All")
        [] rule = 121         -> List(<<>>)
        [] rule = 122         -> Push(x(0), N("ExprResultColumn", span, <<x(1), x(2)>>))
        [] rule = 123         -> Push(x(0), N("StarResultColumn", span, <<>>))
        [] rule = 124         -> Push(x(0), N("TableStarResultColumn", span, <<x(1)>>))
        [] rule = 125         -> N("AsAs", span, <<x(1)>>)
        [] rule = 126         -> N("ElidedAs", span, <<mkName(x(0))>>)
        [] rule = 129         -> freezeFrom(x(1), span)
        [] rule = 130         -> [x(0) EXCEPT !.kids[3] = x(1)]
        [] rule = 131         -> emptyFromClause
        [] OTHER              -> None

Rules_132_141(rule, popped, span) ==
  LET x(i) == popped[i + 1].minor
      Table(type, kids) == N(type, span, kids)
  IN  CASE rule = 132 ->
             fromClausePush(x(0), Table("TableSelectTable", <<x(1), x(2), x(3)>>), x(4))
        [] rule = 133 ->
             fromClausePush(x(0), Table("TableCallSelectTable", <<x(1), x(3), x(5)>>), x(6))
        [] rule = 134 ->
             fromClausePush(x(0), Table("SelectSelectTable", <<x(2), x(4)>>), x(5))
        [] rule = 135 ->
             fromClausePush(x(0), Table("SubSelectTable", <<freezeFrom(x(2), span), x(4)>>), x(5))
        [] rule \in {136, 138} -> QualifiedName(None, x(0), None, span)
        [] rule \in {137, 139} -> QualifiedName(x(0), x(2), None, span)
        [] rule = 140          -> QualifiedName(None, x(0), x(2), span)
        [] rule = 141          -> QualifiedName(x(0), x(2), x(4), span)

Rules_142_162(rule, popped, span) ==
  LET x(i) == popped[i + 1].minor
      Sorted(e, order, nulls) == N("SortedColumn", span, <<e, order, nulls>>)
  IN  CASE rule = 142         -> N("CommaJoinOperator", span, <<>>)
        [] rule = 143         -> N("TypedJoinJoinOperator", span, <<None>>)
        [] rule = 144         -> joinOperatorFrom(<<x(0)>>, span)
        [] rule = 145         -> joinOperatorFrom(<<x(0), x(1)>>, span)
        [] rule = 146         -> joinOperatorFrom(<<x(0), x(1), x(2)>>, span)
        [] rule = 147         -> N("OnJoinConstraint", span, <<x(1)>>)
        [] rule = 148         -> N("UsingJoinConstraint", span, <<x(2)>>)
        [] rule = 151         -> N("IndexedByIndexed", span, <<x(2)>>)
        [] rule = 152         -> N("NotIndexedIndexed", span, <<>>)
        [] rule = 154         -> x(2)
        [] rule = 155         -> Push(x(0), Sorted(x(2), x(3), x(4)))
        [] rule = 156         -> List(<<Sorted(x(0), x(1), x(2))>>)
        [] rule = 157         -> Is("Asc")
        [] rule = 158         -> Is("Desc")
        [] rule = 160         -> Is("First")
        [] rule = 161         -> Is("Last")
        [] OTHER              -> None

Rules_163_178(rule, popped, span) ==
  LET x(i) == popped[i + 1].minor
      Limit(e, offset) == N("Limit", span, <<e, offset>>)
      WhereReturning(where, returning) == N("WhereReturning", span, <<where, returning>>)
  IN  CASE rule = 164         -> x(2)
        [] rule = 166         -> x(1)
        [] rule = 168         -> Limit(x(1), None)
        [] rule = 169         -> Limit(x(1), x(3))
        [] rule = 170         -> Limit(x(3), x(1))
        [] rule = 171         -> N("DeleteStmt", span, <<x(0), x(3), x(4), x(5).kids[1],
                                                         x(5).kids[2], None, None>>)
        [] rule = 173         -> x(1)
        [] rule = 174         -> WhereReturning(None, None)
        [] rule = 175         -> WhereReturning(x(1), None)
        [] rule = 176         -> WhereReturning(None, x(1))
        [] rule = 177         -> WhereReturning(x(1), x(3))
        [] rule = 178         -> N("UpdateStmt", span, <<x(0), x(2), x(3), x(4), x(6), x(7),
                                                         x(8).kids[1], x(8).kids[2], None, None>>)
        [] OTHER              -> None

Rules_179_186(rule, popped, span) ==
  LET x(i) == popped[i + 1].minor
      Assign(names, e) == N("SetAssignment", span, <<names, e>>)
      Insert(body, returning) ==
        N("InsertStmt", span, <<x(0), x(1), x(3), x(4), body, returning>>)
  IN  CASE rule = 179         -> Push(x(0), Assign(List(<<x(2)>>), x(4)))
        [] rule = 180         -> Push(x(0), Assign(x(3), x(6)))
        [] rule = 181         -> List(<<Assign(List(<<x(0)>>), x(2))>>)
        [] rule = 182         -> List(<<Assign(x(1), x(4))>>)
        [] rule = 183         -> Insert(N("SelectInsertBody", span, <<x(5), x(6).kids[1]>>),
                                        x(6).kids[2])
        [] rule = 184         -> Insert(N("DefaultValuesInsertBody", span, <<>>), x(7).kids[1])
        [] rule = 185         -> N("UpsertReturning", span, <<None, None, None>>)
        [] rule = 186         -> N("UpsertReturning", span, <<None, x(1), N("Span", span, <<>>)>>)

(* next is the upsert after this one, with its RETURNING. *)
Rules_187_192(rule, popped, span) ==
  LET x(i) == popped[i + 1].minor
      Upsert(index, do, next) == N("Upsert", span, <<index, do, next>>)
      Before(next, index, do) ==
        N("UpsertReturning", span, <<Upsert(index, do, next.kids[1]), next.kids[2], next.kids[3]>>)
      LastBefore(returning, do) ==
        N("UpsertReturning", span,
          <<Upsert(None, do, None), returning.kids[1],
            IF returning.span = None THEN None ELSE N("Span", returning.span, <<>>)>>)
      SetDo(sets, where) == N("SetUpsertDo", span, <<sets, where>>)
      NothingDo == N("NothingUpsertDo", span, <<>>)
  IN  CASE rule = 187 -> Before(x(11), UpsertIndex(x(3), x(5), span), SetDo(x(9), x(10)))
        [] rule = 188 -> Before(x(8), UpsertIndex(x(3), x(5), span), NothingDo)
        [] rule = 189 -> LastBefore(x(4), NothingDo)
        [] rule = 190 -> LastBefore(x(7), SetDo(x(5), x(6)))
        [] rule = 191 -> N("Returning", span, <<x(1)>>)
        [] rule = 192 -> N("Returning", None, <<None>>)

Rules_193_210(rule, popped, span) ==
  LET x(i) == popped[i + 1].minor
  IN  CASE rule \in {193, 196} -> x(1)
        [] rule = 194         -> Is("Replace")
        [] rule = 197         -> addNew(x(0), x(2))
        [] rule = 198         -> List(<<x(0)>>)
        [] rule = 199         -> mkParenthesized(x(1), span)
        [] rule = 200         -> mkId(x(0))
        [] rule = 201         -> N("QualifiedExpr", span, <<None, x(0), x(2)>>)
        [] rule = 202         -> N("QualifiedExpr", span, <<x(0), x(2), x(4)>>)
        [] rule = 203         -> Leaf("NullLiteral", x(0))
        [] rule = 204         -> Leaf("BlobLiteral", x(0))
        [] rule = 205         -> Leaf("StringLiteral", x(0))
        [] rule = 206         -> mkNumericLiteral(x(0))
        [] rule = 207         -> Leaf("VariableExpr", x(0))
        [] rule = 208         -> mkCollate(x(0), x(2), span)
        [] rule = 209         -> N("CastExpr", span, <<x(2), x(4)>>)
        [] rule = 210         -> mkFunctionCall(x(0), x(2), x(3), None, None, span)
        [] OTHER              -> None

Rules_211_219(rule, popped, span) ==
  LET x(i) == popped[i + 1].minor
      SortList == N("SortListFunctionCallOrder", span, <<x(6)>>)
      Within   == N("WithinGroupFunctionCallOrder", span, <<x(10)>>)
  IN  CASE rule = 211 -> mkFunctionCall(x(0), x(2), x(3), SortList, None, span)
        [] rule = 212 -> mkFunctionCallStar(x(0), None, span)
        [] rule = 213 -> mkFunctionCall(x(0), x(2), x(3), Within, None, span)
        [] rule = 214 -> mkFunctionCall(x(0), x(2), x(3), None, x(5), span)
        [] rule = 215 -> mkFunctionCall(x(0), x(2), x(3), SortList, x(8), span)
        [] rule = 216 -> mkFunctionCallStar(x(0), x(4), span)
        [] rule = 217 -> mkFunctionCall(x(0), x(2), x(3), Within, x(12), span)
        [] rule = 218 -> literalFromCtimeKw(x(0))
        [] rule = 219 -> N("ParenthesizedExpr", span, <<Push(x(1), x(3))>>)

Rules_220_241(rule, popped, span) ==
  LET x(i) == popped[i + 1].minor
      major(i) == popped[i + 1].major
      LikeOp(not, i) == N("LikeOp", span, <<not, likeOperatorFromToken(x(i), major(i))>>)
  IN  CASE rule \in 220 .. 227 -> mkBinary(x(0), binaryOperatorFromToken(major(1)), x(2), span)
        [] rule = 228         -> LikeOp(No, 0)
        [] rule = 229         -> LikeOp(Yes, 1)
        [] rule = 230         -> mkLikeExpr(x(0), x(1), x(2), None, span)
        [] rule = 231         -> mkLikeExpr(x(0), x(1), x(2), x(4), span)
        [] rule = 232         -> mkNotNullExpr(x(0), major(1), span)
        [] rule = 233         -> N("NotNullExpr", span, <<x(0)>>)
        [] rule = 234         -> mkBinary(x(0), Is("Is"), x(2), span)
        [] rule = 235         -> mkBinary(x(0), Is("IsNot"), x(3), span)
        [] rule = 236         -> mkBinary(x(0), Is("Is"), x(5), span)
        [] rule = 237         -> mkBinary(x(0), Is("IsNot"), x(4), span)
        [] rule \in 238 .. 240 -> mkUnary(unaryOperatorFromToken(major(0)), x(1), span)
        [] rule = 241         -> mkBinary(x(0), ptrOperatorFromToken(x(1)), x(2), span)

Rules_242_258(rule, popped, span) ==
  LET x(i) == popped[i + 1].minor
      WhenThen(when, then) == N("WhenThen", span, <<when, then>>)
  IN  CASE rule \in {242, 245} -> No
        [] rule \in {243, 246} -> Yes
        [] rule = 244         -> N("BetweenExpr", span, <<x(0), x(1), x(2), x(4)>>)
        [] rule = 247         -> N("InListExpr", span, <<x(0), x(1), x(3)>>)
        [] rule = 248         -> N("SubqueryExpr", span, <<x(1)>>)
        [] rule = 249         -> N("InSelectExpr", span, <<x(0), x(1), x(3)>>)
        [] rule = 250         -> N("InTableExpr", span, <<x(0), x(1), x(2), x(3)>>)
        [] rule = 251         -> N("ExistsExpr", span, <<x(2)>>)
        [] rule = 252         -> N("CaseExpr", span, <<x(1), x(2), x(3)>>)
        [] rule = 253         -> Push(x(0), WhenThen(x(2), x(4)))
        [] rule = 254         -> List(<<WhenThen(x(1), x(3))>>)
        [] rule = 255         -> x(1)
        [] rule = 257         -> x(0)
        [] OTHER              -> None

Rules_259_274(rule, popped, span) ==
  LET x(i) == popped[i + 1].minor
      Column(name, collation, order) == N("IndexedColumn", span, <<name, collation, order>>)
  IN  CASE rule = 259         -> x(0)
        [] rule = 261         -> Push(x(0), x(2))
        [] rule = 262         -> List(<<x(0)>>)
        [] rule \in {264, 269} -> x(1)
        [] rule = 265 -> N("CreateIndexStmt", span, <<x(1), x(3), x(4), x(6), x(8), x(10)>>)
        [] rule = 266         -> Yes
        [] rule = 267         -> No
        [] rule = 270         -> Push(x(0), Column(x(2), x(3), x(4)))
        [] rule = 271         -> List(<<Column(x(0), x(1), x(2))>>)
        [] rule = 273         -> mkName(x(1))
        [] rule = 274         -> N("DropIndexStmt", span, <<x(2), x(3)>>)
        [] OTHER              -> None

Rules_275_290(rule, popped, span) ==
  LET x(i) == popped[i + 1].minor
      Pragma(type) == N("PragmaStmt", span, <<x(1), N(type, span, <<x(3)>>)>>)
  IN  CASE rule = 275         -> N("VacuumStmt", span, <<None, x(1)>>)
        [] rule = 276         -> N("VacuumStmt", span, <<x(1), x(2)>>)
        [] rule = 277         -> x(1)
        [] rule = 279         -> N("PragmaStmt", span, <<x(1), None>>)
        [] rule \in {280, 282} -> Pragma("EqualsPragmaBody")
        [] rule \in {281, 283} -> Pragma("CallPragmaBody")
        [] rule = 284         -> N("NameExpr", span, <<x(0)>>)
        [] rule \in 285 .. 287 -> Leaf("KeywordLiteral", x(0))
        [] rule = 288         -> mkUnary(Is("Positive"), mkNumericLiteral(x(1)), span)
        [] rule = 289         -> mkNumericLiteral(x(0))
        [] rule = 290         -> mkUnary(Is("Negative"), mkNumericLiteral(x(1)), span)
        [] OTHER              -> None

Rules_291_307(rule, popped, span) ==
  LET x(i) == popped[i + 1].minor
  IN  CASE rule = 291 -> N("CreateTriggerStmt", span,
                           <<x(1), x(3), x(4), x(5), x(6), x(8), x(9), x(10), x(12)>>)
        [] rule = 292         -> Is("Before")
        [] rule = 293         -> Is("After")
        [] rule = 294         -> Is("InsteadOf")
        [] rule = 296         -> N("DeleteTriggerEvent", span, <<>>)
        [] rule = 297         -> N("InsertTriggerEvent", span, <<>>)
        [] rule = 298         -> N("UpdateTriggerEvent", span, <<>>)
        [] rule = 299         -> N("UpdateOfTriggerEvent", span, <<x(2)>>)
        [] rule = 300         -> No
        [] rule = 301         -> Yes
        [] rule = 303         -> x(1)
        [] rule = 304         -> Push(x(0), x(1))
        [] rule = 305         -> List(<<x(0)>>)
        [] OTHER              -> None

Rules_308_321(rule, popped, span) ==
  LET x(i) == popped[i + 1].minor
  IN  CASE rule = 308 -> N("UpdateTriggerCmd", span, <<x(1), x(2), x(5), x(6), x(7)>>)
        [] rule = 309 -> N("InsertTriggerCmd", span, <<x(0), x(2), x(3), x(4), x(5).kids[1]>>)
        [] rule = 310         -> N("DeleteTriggerCmd", span, <<x(2), x(4)>>)
        [] rule = 311         -> N("SelectTriggerCmd", span, <<x(0)>>)
        [] rule = 312         -> N("RaiseExpr", span, <<Is("Ignore"), None>>)
        [] rule = 313         -> N("RaiseExpr", span, <<x(2), x(4)>>)
        [] rule = 314         -> Is("Rollback")
        [] rule = 315         -> Is("Abort")
        [] rule = 316         -> Is("Fail")
        [] rule = 317         -> N("DropTriggerStmt", span, <<x(2), x(3)>>)
        [] rule = 318         -> N("AttachStmt", span, <<x(2), x(4), x(5)>>)
        [] rule = 319         -> N("DetachStmt", span, <<x(2)>>)
        [] rule = 321         -> x(1)
        [] OTHER              -> None

Alter(table, type, kids, span) == N("AlterTableStmt", span, <<table, N(type, span, kids)>>)

Rules_322_331(rule, popped, span) ==
  LET x(i) == popped[i + 1].minor
  IN  CASE rule = 322 -> N("ReindexStmt", span, <<None>>)
        [] rule = 323 -> N("ReindexStmt", span, <<x(1)>>)
        [] rule = 324 -> N("AnalyzeStmt", span, <<None>>)
        [] rule = 325 -> N("AnalyzeStmt", span, <<x(1)>>)
        [] rule = 326 -> Alter(x(2), "RenameToAlterTableBody", <<x(5)>>, span)
        [] rule = 327 -> Alter(x(2), "AddColumnAlterTableBody",
                               <<ColumnDefinition(x(5), x(6), x(7), span)>>, span)
        [] rule = 328 -> Alter(x(2), "DropColumnAlterTableBody", <<x(5)>>, span)
        [] rule = 329 -> Alter(x(2), "RenameColumnAlterTableBody", <<x(5), x(7)>>, span)
        [] rule = 330 -> Alter(x(2), "DropConstraintAlterTableBody", <<x(5)>>, span)
        [] rule = 331 -> Alter(x(2), "DropColumnNotNullAlterTableBody", <<x(5)>>, span)

(* args is what vtabArgs holds once the last argument is flushed to it. *)
Rules_332_341(rule, popped, span, args) ==
  LET x(i) == popped[i + 1].minor
      AddCheck(name, e, onConflict) ==
        Alter(x(2), "AddConstraintAlterTableBody",
              <<N("NamedTableConstraint", span,
                  <<name, N("CheckTableConstraint", span, <<e, onConflict>>)>>)>>, span)
  IN  CASE rule = 332 -> Alter(x(2), "SetColumnNotNullAlterTableBody", <<x(5), x(9)>>, span)
        [] rule = 333 -> AddCheck(x(5), x(8), x(10))
        [] rule = 334 -> AddCheck(None, x(6), x(8))
        [] rule = 335 -> x(0)
        [] rule = 336 -> [x(0) EXCEPT !.kids[4] = List(args), !.span = span]
        [] rule = 337 -> N("CreateVirtualTableStmt", span, <<x(3), x(4), x(6), None>>)
        [] OTHER      -> None

Rules_342_353(rule, popped, span) ==
  LET x(i) == popped[i + 1].minor
  IN  CASE rule = 343         -> N("With", span, <<No, x(1)>>)
        [] rule = 344         -> N("With", span, <<Yes, x(2)>>)
        [] rule = 345         -> Is("Any")
        [] rule = 346         -> Is("Yes")
        [] rule = 347         -> Is("No")
        [] rule = 348         -> N("CommonTableExpr", span, <<x(0), x(1), x(2), x(4)>>)
        [] rule = 349         -> List(<<x(0)>>)
        [] rule = 350         -> addNew(x(0), x(2))
        [] rule = 351         -> List(<<x(0)>>)
        [] rule = 352         -> Push(x(0), x(2))
        [] rule = 353         -> N("WindowDef", span, <<x(0), x(3)>>)
        [] OTHER              -> None

Rules_354_362(rule, popped, span) ==
  LET x(i) == popped[i + 1].minor
      Window(base, partitionBy, orderBy, frame) ==
        N("Window", span, <<base, partitionBy, orderBy, frame>>)
  IN  CASE rule = 354         -> Window(None, x(2), x(3), x(4))
        [] rule = 355         -> Window(x(0), x(3), x(4), x(5))
        [] rule = 356         -> Window(None, None, x(2), x(3))
        [] rule = 357         -> Window(x(0), None, x(3), x(4))
        [] rule = 358         -> Window(None, None, None, x(0))
        [] rule = 359         -> Window(x(0), None, None, x(1))
        [] rule = 361         -> N("FrameClause", span, <<x(0), x(1), None, x(2)>>)
        [] rule = 362         -> N("FrameClause", span, <<x(0), x(2), x(4), x(5)>>)
        [] OTHER              -> None

Rules_363_378(rule, popped, span) ==
  LET x(i) == popped[i + 1].minor
  IN  CASE rule = 363         -> Is("Range")
        [] rule = 364         -> Is("Rows")
        [] rule = 365         -> Is("Groups")
        [] rule \in {366, 368} -> x(0)
        [] rule = 367         -> N("UnboundedPrecedingFrameBound", span, <<>>)
        [] rule = 369         -> N("UnboundedFollowingFrameBound", span, <<>>)
        [] rule = 370         -> N("PrecedingFrameBound", span, <<x(0)>>)
        [] rule = 371         -> N("CurrentRowFrameBound", span, <<>>)
        [] rule = 372         -> N("FollowingFrameBound", span, <<x(0)>>)
        [] rule = 374         -> x(1)
        [] rule = 375         -> Is("NoOthers")
        [] rule = 376         -> Is("CurrentRow")
        [] rule = 377         -> Is("Group")
        [] rule = 378         -> Is("Ties")
        [] OTHER              -> None

Rules_379_386(rule, popped, span) ==
  LET x(i) == popped[i + 1].minor
      FunctionTail(filter, over) == N("FunctionTail", span, <<filter, over>>)
  IN  CASE rule = 379         -> x(1)
        [] rule = 380         -> FunctionTail(x(0), x(1))
        [] rule = 381         -> FunctionTail(None, x(0))
        [] rule = 382         -> FunctionTail(x(0), None)
        [] rule = 383         -> N("WindowOver", span, <<x(2)>>)
        [] rule = 384         -> N("NameOver", span, <<x(1)>>)
        [] rule = 385         -> x(3)
        [] rule = 386         -> mkNumericLiteral(x(0))

(* The rules without an action of their own pass their first value on. *)
Rules_387_412(rule, popped) ==
  IF rule \in {392, 397, 402, 404, 405, 410} THEN None ELSE popped[1].minor

Value(rule, popped, span, name, args) ==
  CASE rule \in 0 .. 17    -> Rules_0_17(rule, popped, span)
    [] rule \in 18 .. 30   -> Rules_18_30(rule, popped, span)
    [] rule \in 31 .. 41   -> Rules_31_41(rule, popped, span)
    [] rule \in 42 .. 49   -> Rules_42_49(rule, popped, span, name)
    [] rule \in 50 .. 59   -> Rules_50_59(rule, popped, span, name)
    [] rule \in 60 .. 77   -> Rules_60_77(rule, popped, span)
    [] rule \in 78 .. 86   -> Rules_78_86(rule, popped, span, name)
    [] rule \in 87 .. 101  -> Rules_87_101(rule, popped, span, name)
    [] rule \in 102 .. 117 -> Rules_102_117(rule, popped, span)
    [] rule \in 118 .. 131 -> Rules_118_131(rule, popped, span)
    [] rule \in 132 .. 141 -> Rules_132_141(rule, popped, span)
    [] rule \in 142 .. 162 -> Rules_142_162(rule, popped, span)
    [] rule \in 163 .. 178 -> Rules_163_178(rule, popped, span)
    [] rule \in 179 .. 186 -> Rules_179_186(rule, popped, span)
    [] rule \in 187 .. 192 -> Rules_187_192(rule, popped, span)
    [] rule \in 193 .. 210 -> Rules_193_210(rule, popped, span)
    [] rule \in 211 .. 219 -> Rules_211_219(rule, popped, span)
    [] rule \in 220 .. 241 -> Rules_220_241(rule, popped, span)
    [] rule \in 242 .. 258 -> Rules_242_258(rule, popped, span)
    [] rule \in 259 .. 274 -> Rules_259_274(rule, popped, span)
    [] rule \in 275 .. 290 -> Rules_275_290(rule, popped, span)
    [] rule \in 291 .. 307 -> Rules_291_307(rule, popped, span)
    [] rule \in 308 .. 321 -> Rules_308_321(rule, popped, span)
    [] rule \in 322 .. 331 -> Rules_322_331(rule, popped, span)
    [] rule \in 332 .. 341 -> Rules_332_341(rule, popped, span, args)
    [] rule \in 342 .. 353 -> Rules_342_353(rule, popped, span)
    [] rule \in 354 .. 362 -> Rules_354_362(rule, popped, span)
    [] rule \in 363 .. 378 -> Rules_363_378(rule, popped, span)
    [] rule \in 379 .. 386 -> Rules_379_386(rule, popped, span)
    [] rule \in 387 .. 412 -> Rules_387_412(rule, popped)
-----------------------------------------------------------------------------
(* What the actions report and what they do to the ParseState *)

(* The spans a rule reports, in order. *)
Faults(rule, popped, span) ==
  LET x(i) == popped[i + 1].minor
      last == popped[Len(popped)].minor
  IN  CASE rule = 27             -> IF x(1).word = "rowid" THEN <<>> ELSE <<x(1).span>>
        [] rule = 28             -> IF x(0).word = "strict" THEN <<>> ELSE <<x(0).span>>
        [] rule = 29             -> DuplicateFault(x(0), x(2))
        [] rule \in {111, 112}   -> StarFault(x(2), x(3))
        [] rule \in {116, 117}   -> ArityFault(x(0), x(3), span)
        [] rule \in 132 .. 135   -> ConstraintFault(x(0), last)
        [] rule = 144            -> JoinFaults(<<x(0)>>)
        [] rule = 145            -> JoinFaults(<<x(0), x(1)>>)
        [] rule = 146            -> JoinFaults(<<x(0), x(1), x(2)>>)
        [] rule \in {187, 188}   -> NullsFaults(x(3))
        [] rule \in {197, 350}   -> DuplicateFault(x(0), x(2))
        [] rule \in {210, 211, 213, 214, 215, 217} -> DistinctFault(x(0), x(2), x(3))
        [] rule \in {306, 307}   -> <<span>>
        [] rule = 309            -> IF x(5).kids[2] = None THEN <<>>
                                    ELSE <<IF x(5).kids[3] = None THEN span
                                           ELSE x(5).kids[3].span>>
        [] rule = 386            -> IF x(0).word \in MisplacedSeparators THEN <<x(0).span>> ELSE <<>>
        [] OTHER                 -> <<>>

Explained(stmt, explain) ==
  IF explain = None THEN stmt
  ELSE N("ExplainStmt", stmt.span, <<IF explain = "QueryPlan" THEN Yes ELSE No, stmt>>)

flushCmd_KeepsExplain(state) ==
  IF state.stmt = None
  THEN state
  ELSE [state EXCEPT !.cmds = Append(@, Explained(state.stmt, state.explain)),
                     !.stmt = None]
flushCmd(state) ==
  IF state.stmt = None
  THEN state
  ELSE [state EXCEPT !.cmds = Append(@, Explained(state.stmt, state.explain)),
                     !.stmt = None,
                     !.explain = None]

(* The constraints that take the name staged by CONSTRAINT nm, which is    *)
(* every one but the DEFERRABLE of a column.                               *)
StagingRules    == {42, 83}
NamedConstraint == 43 .. 53 \cup 55 .. 57 \cup 84 .. 87

flushVtabArg_KeepsBuffer(state) ==
  IF state.vtabArgCurrent = <<>> THEN state
  ELSE [state EXCEPT !.vtabArgs = Append(@, string(state.vtabArgCurrent))]
flushVtabArg(state) ==
  IF state.vtabArgCurrent = <<>> THEN state
  ELSE [state EXCEPT !.vtabArgs = Append(@, string(state.vtabArgCurrent)),
                     !.vtabArgCurrent = <<>>]

Staged(state, rule, popped, value) ==
  CASE rule \in {0, 1}         -> flushCmd(state)
    [] rule = 2                -> [state EXCEPT !.explain = "Explain"]
    [] rule = 3                -> [state EXCEPT !.explain = "QueryPlan"]
    [] rule \in StagingRules   -> [state EXCEPT !.constraintName = popped[2].minor]
    [] rule \in NamedConstraint \cup {82} -> [state EXCEPT !.constraintName = None]
    [] rule = 336              -> [flushVtabArg(state) EXCEPT !.stmt = value, !.vtabArgs = <<>>]
    [] rule = 338              -> flushVtabArg(state)
    [] rule \in {339, 341}     -> [state EXCEPT !.vtabArgCurrent = Append(@, popped[1].minor)]
    [] rule = 340              -> [state EXCEPT !.vtabArgCurrent = Append(@, popped[3].minor)]
    [] rule \in CommandRules   -> [state EXCEPT !.stmt = value]
    [] OTHER                   -> state

Minor(rule, value) == IF rule \in CommandRules \cup {0, 1, 2, 3, 82} THEN None ELSE value

reduce(state, rule, popped, ruleSpan) ==
  LET value  == Value(rule, popped, ruleSpan, state.constraintName, flushVtabArg(state).vtabArgs)
      faults == Faults(rule, popped, ruleSpan)
      report == [i \in DOMAIN faults |-> [rule |-> rule, span |-> faults[i]]]
  IN  {[state |-> [Staged(state, rule, popped, value) EXCEPT !.errors = @ \o report],
        minor |-> Minor(rule, value)]}

finalizeCmdList(cmds) ==
  N("CmdList",
    IF cmds = <<>> THEN [offset |-> 0, length |-> 0, line |-> 1, col |-> 1]
    ELSE [cmds[1].span EXCEPT !.length =
            cmds[Len(cmds)].span.offset + cmds[Len(cmds)].span.length - cmds[1].span.offset],
    <<List(cmds)>>)
=============================================================================
