------------------------------- MODULE MCAst -------------------------------
(***************************************************************************)
(* Scripts for model checking AstParser on the shipped tables: statements  *)
(* that between them reduce by every rule of the grammar, most of them in  *)
(* several contexts.  A phrase is a set of sequences of words.             *)
(***************************************************************************)
EXTENDS AstRefinement, ShippedTables

first ** second == {a \o b : a \in first, b \in second}
W(word)      == {<<word>>}
Maybe(first) == first \cup {<<>>}
Paren(first) == W("LP") ** first ** W("RP")
Commas(first, second) == first ** W("COMMA") ** second

(* A word is a token of that name, or one of these. *)
NameWords == {"a", "b", "c", "d", "t", "u", "v", "rowid", "strict"}
Lexemes ==
  [word \in NameWords |-> "ID"] @@
  [word \in {"LEFT", "RIGHT", "FULL", "INNER", "OUTER", "CROSS", "NATURAL"} |-> "JOIN_KW"] @@
  [word \in {"LIKE", "GLOB", "REGEXP"} |-> "LIKE_KW"] @@
  [word \in {"CURRENT_DATE", "CURRENT_TIME", "CURRENT_TIMESTAMP"} |-> "CTIME_KW"] @@
  [word \in {"1", "2"} |-> "INTEGER"] @@ [word \in {"1_0", "1__0"} |-> "QNUMBER"] @@
  [word \in {"->", "->>"} |-> "PTR"] @@
  ("1.5" :> "FLOAT" @@ "'s'" :> "STRING" @@ "x'00'" :> "BLOB" @@ "?1" :> "VARIABLE")

Token(word) ==
  [major |-> T_tokens["TK_" \o (IF word \in DOMAIN Lexemes THEN Lexemes[word] ELSE word)],
   word  |-> word]
EndMarker == [major |-> 0, word |-> ""]
Statement(words) ==
  Append([i \in 1 .. Len(words) + 1 |-> IF i > Len(words) THEN Token("SEMI") ELSE Token(words[i])],
         EndMarker)
-----------------------------------------------------------------------------
(* Expressions *)

A == W("a")
One_ == W("1")
Literals ==
  {<<w>> : w \in {"1", "1.5", "1_0", "1__0", "'s'", "x'00'", "NULL", "?1", "CURRENT_DATE",
                  "CURRENT_TIME", "CURRENT_TIMESTAMP"}}
Select == {<<"SELECT", "a">>}
BinaryWords ==
  {<<w>> : w \in {"AND", "OR", "LT", "GT", "GE", "LE", "EQ", "NE", "BITAND", "BITOR", "LSHIFT",
                  "RSHIFT", "PLUS", "MINUS", "STAR", "SLASH", "REM", "CONCAT", "LIKE", "GLOB",
                  "REGEXP", "MATCH", "->", "->>", "IS", "BETWEEN"}}
    \cup {<<"NOT", "LIKE">>, <<"IS", "NOT">>, <<"IS", "DISTINCT", "FROM">>,
          <<"IS", "NOT", "DISTINCT", "FROM">>}
Between == A ** Maybe(W("NOT")) ** {<<"BETWEEN", "b", "AND", "c">>}
Binary  == A ** (BinaryWords \ {<<"BETWEEN">>}) ** W("b")
Unary   == {<<w, "a">> : w \in {"NOT", "BITNOT", "PLUS", "MINUS"}}
Postfix == A ** {<<"ISNULL">>, <<"NOTNULL">>, <<"NOT", "NULL">>, <<"COLLATE", "b">>,
                 <<"LIKE", "b", "ESCAPE", "c">>}
Names   == {<<"a">>, <<"t", "DOT", "a">>, <<"u", "DOT", "t", "DOT", "a">>, <<"ABORT">>}
In      == A ** Maybe(W("NOT")) ** W("IN") **
             ({<<"t">>, <<"t", "LP", "b", "RP">>} \cup Paren(Select \cup Commas(A, A) \cup {<<>>}))
Cases   == W("CASE") ** Maybe(A) ** {<<"WHEN", "b", "THEN", "c">>}
             ** Maybe({<<"WHEN", "d", "THEN", "1">>}) ** Maybe({<<"ELSE", "2">>}) ** W("END")
Nesting == Paren(A \cup Select \cup Commas(A, W("b"))) \cup W("EXISTS") ** Paren(Select)
             \cup {<<"CAST", "LP", "a", "AS", "b">>} ** Maybe(W("c") ** Maybe(Paren(One_)))
                    ** W("RP")
Raise   == W("RAISE") ** Paren(W("IGNORE") \cup {<<w, "COMMA", "'s'">> :
                                                   w \in {"ROLLBACK", "ABORT", "FAIL"}})
SortedBy == {<<"ORDER", "BY", "a">>} ** {<<>>, <<"ASC">>, <<"DESC", "NULLS", "LAST">>}
              ** Maybe({<<"COMMA", "b", "NULLS", "FIRST">>})
OneOrder == {<<"ORDER", "BY", "b", "DESC">>}
Tails   == Maybe({<<"FILTER", "LP", "WHERE", "d", "RP">>} ) **
             Maybe(W("OVER") ** {<<"c">>, <<"LP", "RP">>})
Calls   == A ** Paren(W("STAR") \cup Maybe({<<"DISTINCT">>, <<"ALL">>}) **
                        (Maybe(Commas(W("b"), One_)) \cup W("b") ** Maybe(OneOrder)))
             \cup {<<"a", "LP", "b", "RP", "WITHIN", "GROUP", "LP", "ORDER", "BY", "c", "RP">>}
TailedCalls ==
  A ** ({<<"LP", "STAR", "RP">>, <<"LP", "b", "RP">>, <<"LP", "b", "ORDER", "BY", "1", "RP">>}
          \cup {<<"LP", "b", "RP", "WITHIN", "GROUP", "LP", "ORDER", "BY", "1", "RP">>}) ** Tails
Precedence == {<<"a", "PLUS", "b", "STAR", "c">>, <<"a", "STAR", "b", "PLUS", "c">>,
               <<"NOT", "a", "EQ", "b", "AND", "c">>, <<"MINUS", "a", "->", "b", "MINUS", "c">>}
Expressions ==
  Literals \cup Between \cup Binary \cup Unary \cup Postfix \cup Names \cup In \cup Cases
    \cup Nesting \cup Raise \cup Calls \cup TailedCalls \cup Precedence
-----------------------------------------------------------------------------
(* SELECT *)

Frames ==
  {<<w>> : w \in {"ROWS", "RANGE", "GROUPS"}} **
    ({<<"UNBOUNDED", "PRECEDING">>, <<"CURRENT", "ROW">>, <<"1", "PRECEDING">>}
       \cup {<<"BETWEEN", "1", "PRECEDING", "AND", "2", "FOLLOWING">>,
             <<"BETWEEN", "CURRENT", "ROW", "AND", "UNBOUNDED", "FOLLOWING">>})
Excluded == {<<"ROWS", "CURRENT", "ROW", "EXCLUDE">>} **
              {<<"NO", "OTHERS">>, <<"CURRENT", "ROW">>, <<"GROUP">>, <<"TIES">>}
WindowBodies ==
  Maybe(W("v")) ** (Maybe({<<"PARTITION", "BY", "a", "COMMA", "b">>}) ** Maybe(OneOrder))
    \cup Frames \cup Excluded \cup W("v") ** {<<"ROWS", "CURRENT", "ROW">>}
Windows == {<<"SELECT", "a", "WINDOW", "c", "AS">>} ** Paren(WindowBodies)
             \cup {<<"SELECT", "a", "WINDOW", "c", "AS", "LP", "RP", "COMMA", "d", "AS", "LP", "c", "RP">>}

Alias == {<<>>, <<"b">>, <<"AS", "b">>, <<"'s'">>}
Tables ==
  {<<"t">>} ** Alias \cup {<<"u", "DOT", "t">>, <<"'s'">>, <<"t", "INDEXED", "BY", "a">>, <<"t", "NOT", "INDEXED">>}
    \cup {<<"t", "LP", "1", "COMMA", "2", "RP", "b">>, <<"t", "LP", "RP">>}
    \cup Paren(Select \cup {<<"t", "COMMA", "u">>}) ** {<<>>, <<"AS", "b">>}
Joins ==
  {<<"COMMA">>, <<"JOIN">>} \cup
    {<<w, "JOIN">> : w \in {"LEFT", "RIGHT", "FULL", "INNER", "CROSS", "NATURAL", "OUTER"}}
    \cup {<<"LEFT", "OUTER", "JOIN">>, <<"NATURAL", "LEFT", "JOIN">>, <<"INNER", "OUTER", "JOIN">>,
          <<"LEFT", "a", "JOIN">>, <<"NATURAL", "LEFT", "OUTER", "JOIN">>, <<"LEFT", "a", "b", "JOIN">>}
Constraints == {<<>>, <<"ON", "a">>, <<"USING", "LP", "a", "COMMA", "b", "RP">>}
Froms == W("FROM") ** (Tables \cup W("t") ** Joins ** W("u") ** Constraints
                        \cup W("t") ** (Constraints \ {<<>>})
                        \cup {<<"t", "COMMA", "u", "JOIN", "v", "ON", "a">>,
                              <<"LP", "t", "JOIN", "u", "ON", "a", "RP", "JOIN", "v", "USING", "LP", "b", "RP">>})
Columns == {<<"STAR">>, <<"t", "DOT", "STAR">>, <<"a", "COMMA", "t", "DOT", "STAR", "COMMA", "STAR">>}
             \cup A ** Alias
Clauses == Maybe({<<"WHERE", "a">>}) ** Maybe({<<"GROUP", "BY", "a", "COMMA", "b">>})
             ** Maybe({<<"HAVING", "c">>})
Limits  == {<<>>, <<"LIMIT", "1">>, <<"LIMIT", "1", "OFFSET", "2">>}
SwappedLimit == {<<"LIMIT", "1", "COMMA", "2">>}
Rows == Paren({<<"1">>, <<"1", "COMMA", "2">>})
Values == W("VALUES") ** Rows ** Maybe(W("COMMA") ** Rows ** Maybe(W("COMMA") ** Rows))
Compounds == Select ** {<<w>> : w \in {"UNION", "EXCEPT", "INTERSECT"}} ** {<<"SELECT", "b">>}
               \cup {<<"SELECT", "a", "UNION", "ALL", "VALUES", "LP", "1", "RP", "EXCEPT", "SELECT", "c">>}
Ctes == Maybe(W("RECURSIVE")) ** W("t") ** Maybe(Paren(Commas(A, W("b"))))
          ** {<<"AS">>, <<"AS", "MATERIALIZED">>, <<"AS", "NOT", "MATERIALIZED">>} ** Paren(Select)
          \cup {<<"t", "AS", "LP", "SELECT", "a", "RP", "COMMA">>} ** {<<"t">>, <<"u">>}
                 ** {<<"AS", "LP", "SELECT", "b", "RP">>}
Selects ==
  W("SELECT") ** Expressions
    \cup W("SELECT") ** Columns ** Maybe({<<"FROM", "t">>})
    \cup W("SELECT") ** {<<"DISTINCT", "a">>, <<"ALL", "a">>}
    \cup {<<"SELECT", "a">>} ** Froms
    \cup {<<"SELECT", "a", "FROM", "t">>} ** Clauses
    \cup {<<"SELECT", "a">>} ** Maybe(SortedBy) ** (Limits \cup SwappedLimit)
    \cup Windows \cup Values \cup Compounds \cup W("WITH") ** Ctes ** {<<"SELECT", "c">>}
-----------------------------------------------------------------------------
(* Changing rows *)

Returning == {<<"RETURNING", "c", "COMMA", "STAR">>}
With == {<<>>, <<"WITH", "t", "AS", "LP", "SELECT", "a", "RP">>,
         <<"WITH", "RECURSIVE", "t", "AS", "LP", "SELECT", "a", "RP">>}
Targets == {<<"t">>, <<"u", "DOT", "t">>, <<"t", "AS", "v">>, <<"u", "DOT", "t", "AS", "v">>}
Resolve == {<<"OR", w>> : w \in {"IGNORE", "REPLACE", "ABORT", "FAIL", "ROLLBACK"}}
Sets == {<<"a", "EQ", "1">>, <<"a", "EQ", "1", "COMMA", "b", "EQ", "2">>,
         <<"LP", "a", "COMMA", "b", "RP", "EQ", "c">>,
         <<"a", "EQ", "1", "COMMA", "LP", "b", "COMMA", "c", "RP", "EQ", "d">>,
         <<"LP", "a", "COMMA", "a", "RP", "EQ", "c">>}
Deletes == With ** {<<"DELETE", "FROM", "t">>} ** Maybe({<<"WHERE", "a">>}) ** Maybe(Returning)
             \cup {<<"DELETE", "FROM">>} ** Targets ** {<<"INDEXED", "BY", "a">>, <<"NOT", "INDEXED">>}
Updates == With ** {<<"UPDATE", "t", "SET", "a", "EQ", "1">>}
             \cup W("UPDATE") ** Resolve ** {<<"t", "SET", "a", "EQ", "1">>}
             \cup {<<"UPDATE", "t", "SET">>} ** Sets ** Maybe({<<"FROM", "u">>})
                    ** Maybe({<<"WHERE", "a">>}) ** Maybe(Returning)
Conflict == {<<"ON", "CONFLICT", "LP", "a", "COMMA", "b", "RP">>} ** Maybe({<<"WHERE", "c">>})
Do == {<<"DO", "NOTHING">>} \cup {<<"DO", "UPDATE", "SET", "a", "EQ", "1">>} ** Maybe({<<"WHERE", "d">>})
Upserts == Maybe(Returning)
             \cup Conflict ** Do ** Maybe(Returning)
             \cup {<<"ON", "CONFLICT">>} ** Do ** Maybe(Returning)
             \cup {<<"ON", "CONFLICT", "LP", "a", "NULLS", "FIRST", "RP", "DO", "NOTHING">>}
                    ** {<<>>, <<"ON", "CONFLICT", "DO", "NOTHING">>}
Inserts == {<<"INSERT", "INTO", "t", "SELECT", "a", "FROM", "u", "WHERE", "b">>} ** Upserts
             \cup With ** {<<"REPLACE">>, <<"INSERT">>, <<"INSERT", "OR", "IGNORE">>} ** W("INTO")
                    ** {<<"t">>, <<"t", "LP", "a", "COMMA", "b", "RP">>}
                    ** ({<<"DEFAULT", "VALUES">>} ** Maybe(Returning) \cup {<<"VALUES", "LP", "1", "RP">>})
-----------------------------------------------------------------------------
(* Tables, views, indexes and triggers *)

Exists == {<<"IF", "NOT", "EXISTS">>}
OnConflict == {<<"ON", "CONFLICT", "IGNORE">>}
References == {<<"REFERENCES", "u">>} ** Maybe({<<"LP", "b", "COMMA", "c", "COLLATE", "d", "DESC", "RP">>})
RefArgs == {<<"MATCH", "c">>} \cup
             {<<"ON">>} ** {<<"INSERT">>, <<"DELETE">>, <<"UPDATE">>} **
                {<<"SET", "NULL">>, <<"SET", "DEFAULT">>, <<"CASCADE">>, <<"RESTRICT">>, <<"NO", "ACTION">>}
Deferrals == Maybe(W("NOT")) ** W("DEFERRABLE") **
               {<<>>, <<"INITIALLY", "DEFERRED">>, <<"INITIALLY", "IMMEDIATE">>}
ColumnConstraints ==
  W("DEFAULT") ** ({<<"LP", "1", "RP">>, <<"PLUS", "1">>, <<"MINUS", "1">>, <<"b">>} \cup
                    (Literals \ {<<"?1">>}))
    \cup Maybe(W("NOT")) ** W("NULL") ** Maybe(OnConflict)
    \cup {<<"PRIMARY", "KEY">>} ** {<<>>, <<"ASC">>, <<"DESC">>} ** Maybe(OnConflict) ** Maybe(W("AUTOINCR"))
    \cup W("UNIQUE") ** Maybe(OnConflict) \cup {<<"CHECK", "LP", "b", "RP">>, <<"COLLATE", "b">>}
    \cup References \cup {<<"REFERENCES", "u">>} ** RefArgs \cup Deferrals
    \cup {<<"REFERENCES", "u", "MATCH", "c", "ON", "DELETE", "CASCADE">>}
    \cup Maybe({<<"GENERATED", "ALWAYS">>}) ** {<<"AS", "LP", "b", "RP">>} ** Maybe(W("c"))
TableConstraints ==
  {<<"PRIMARY", "KEY", "LP", "a">>} ** Maybe(W("AUTOINCR")) ** W("RP") ** Maybe(OnConflict)
    \cup {<<"UNIQUE", "LP", "a", "COMMA", "b", "DESC", "RP">>, <<"CHECK", "LP", "a", "RP">>} ** Maybe(OnConflict)
    \cup {<<"FOREIGN", "KEY", "LP", "a", "COMMA", "b", "RP">>} ** References ** Maybe(Deferrals)
Named == {<<"CONSTRAINT", "d">>}
TypeNames == {<<>>, <<"b">>, <<"b", "c">>} \cup
               W("b") ** Paren({<<"1">>, <<"PLUS", "1">>, <<"MINUS", "1", "COMMA", "2">>})
TableBodies ==
  Paren(A ** TypeNames
          \cup A ** Maybe(Named) ** ColumnConstraints
          \cup A ** W("COMMA") ** Maybe(Named) ** TableConstraints
          \cup {<<"a", "UNIQUE", "CONSTRAINT", "d", "NULL", "CHECK", "LP", "b", "RP">>,
                <<"a", "COMMA", "b", "b">>, <<"a", "COMMA", "b", "COMMA", "a">>}
          \cup {<<"a", "COMMA", "CONSTRAINT", "d">>} ** Maybe(W("COMMA")) ** {<<"CHECK", "LP", "b", "RP">>})
    \cup W("AS") ** Select
    \cup Paren(A) ** Maybe({<<"WITHOUT", "a">>, <<"WITHOUT", "rowid">>, <<"WITHOUT", "rowid", "COMMA", "strict">>,
                             <<"strict">>, <<"b">>})
CreateTables == {<<"CREATE", "TABLE", "t">>} ** TableBodies
                  \cup W("CREATE") ** Maybe(W("TEMP")) ** W("TABLE") ** Maybe(Exists)
                         ** {<<"u", "DOT", "t", "LP", "a", "RP">>}
Arguments == {<<>>, <<"a">>, <<"a", "b">>, <<"a", "COMMA", "b", "1">>, <<"COMMA", "a">>, <<"a", "COMMA">>,
              <<"a", "LP", "b", "RP", "c">>, <<"a", "LP", "b", "COMMA", "c", "RP", "COMMA", "d">>,
              <<"LP", "a", "LP", "b", "RP", "RP">>, <<"a", "COMMA", "COMMA", "SELECT">>}
VirtualTables == {<<"CREATE", "VIRTUAL", "TABLE">>} ** Maybe(Exists) ** {<<"t", "USING", "u">>}
                   \cup {<<"CREATE", "VIRTUAL", "TABLE", "t", "USING", "u">>} ** Paren(Arguments)
Views == W("CREATE") ** Maybe(W("TEMP")) ** W("VIEW") ** Maybe(Exists) ** W("t")
           ** Maybe({<<"LP", "a", "RP">>}) ** W("AS") ** Select
Indexes == W("CREATE") ** Maybe(W("UNIQUE")) ** W("INDEX") ** Maybe(Exists)
             ** {<<"u", "ON", "t", "LP", "a", "COMMA", "b", "DESC", "RP">>} ** Maybe({<<"WHERE", "c">>})
Alters == {<<"ALTER", "TABLE", "t">>} **
  ({<<"RENAME", "TO", "u">>} \cup
   {<<"RENAME">>, <<"RENAME", "COLUMNKW">>} ** {<<"a", "TO", "b">>} \cup
   {<<"ADD", "a">>, <<"ADD", "COLUMNKW", "a", "b", "NOT", "NULL">>, <<"DROP", "COLUMNKW", "a">>,
    <<"DROP", "CONSTRAINT", "a">>, <<"ALTER", "a", "DROP", "NOT", "NULL">>,
    <<"ALTER", "a", "SET", "NOT", "NULL", "ON", "CONFLICT", "FAIL">>} \cup
   W("ADD") ** Maybe(Named) ** {<<"CHECK", "LP", "a", "RP">>} ** Maybe(OnConflict))
Events == {<<"INSERT">>, <<"DELETE">>, <<"UPDATE">>, <<"UPDATE", "OF", "a", "COMMA", "b">>}
Commands ==
  {<<"SELECT", "a">>, <<"DELETE", "FROM", "t">>, <<"DELETE", "FROM", "t", "WHERE", "a">>,
   <<"DELETE", "FROM", "t", "INDEXED", "BY", "a">>, <<"UPDATE", "t", "NOT", "INDEXED", "SET", "a", "EQ", "1">>,
   <<"UPDATE", "OR", "FAIL", "t", "SET", "a", "EQ", "1", "FROM", "u", "WHERE", "b">>,
   <<"INSERT", "INTO", "t", "LP", "a", "RP", "VALUES", "LP", "1", "RP">>,
   <<"INSERT", "INTO", "t", "VALUES", "LP", "1", "RP", "ON", "CONFLICT", "DO", "NOTHING">>,
   <<"REPLACE", "INTO", "t", "VALUES", "LP", "1", "RP", "RETURNING", "a">>,
   <<"INSERT", "INTO", "t", "VALUES", "LP", "1", "RP", "ON", "CONFLICT", "LP", "a", "RP", "DO", "NOTHING",
     "ON", "CONFLICT", "DO", "NOTHING", "RETURNING", "b">>}
Triggers ==
  {<<"CREATE", "TRIGGER", "v">>} **
    ({<<>>, <<"BEFORE">>, <<"AFTER">>, <<"INSTEAD", "OF">>} ** Events ** {<<"ON", "t", "BEGIN", "SELECT", "a">>}
       \cup {<<"DELETE", "ON", "t">>} ** Maybe({<<"FOR", "EACH", "ROW">>}) ** Maybe({<<"WHEN", "c">>})
              ** {<<"BEGIN", "SELECT", "a">>}
       \cup {<<"DELETE", "ON", "t", "BEGIN">>} ** Commands
       \cup {<<"DELETE", "ON", "t", "BEGIN", "SELECT", "a", "SEMI", "SELECT", "b">>}) ** {<<"SEMI", "END">>}
-----------------------------------------------------------------------------
(* The rest *)

Dropped == W("DROP") ** {<<"TABLE">>, <<"VIEW">>, <<"INDEX">>, <<"TRIGGER">>} ** Maybe({<<"IF", "EXISTS">>})
             ** W("t")
Transactions ==
  W("BEGIN") ** {<<>>, <<"DEFERRED">>, <<"IMMEDIATE">>, <<"EXCLUSIVE">>}
             ** {<<>>, <<"TRANSACTION">>, <<"TRANSACTION", "a">>}
    \cup {<<"COMMIT">>, <<"END", "TRANSACTION", "a">>, <<"ROLLBACK">>, <<"SAVEPOINT", "a">>,
          <<"RELEASE", "a">>, <<"RELEASE", "SAVEPOINT", "a">>, <<"ROLLBACK", "TO", "a">>,
          <<"ROLLBACK", "TRANSACTION", "b", "TO", "SAVEPOINT", "a">>}
Pragmas == {<<"PRAGMA", "a">>} ** ({<<>>} \cup
             {<<"EQ", "b">>, <<"EQ", "ON">>, <<"EQ", "DELETE">>, <<"EQ", "DEFAULT">>, <<"EQ", "1">>, <<"EQ", "PLUS", "1">>,
              <<"EQ", "MINUS", "1">>, <<"LP", "b", "RP">>, <<"LP", "MINUS", "1", "RP">>, <<"LP", "1.5", "RP">>})
Others == {<<"ATTACH", "a", "AS", "b">>, <<"ATTACH", "DATABASE", "a", "AS", "b", "KEY", "c">>, <<"DETACH", "a">>,
           <<"DETACH", "DATABASE", "a">>, <<"REINDEX">>, <<"REINDEX", "a">>, <<"ANALYZE">>, <<"ANALYZE", "a">>,
           <<"VACUUM">>, <<"VACUUM", "a">>, <<"VACUUM", "INTO", "a">>, <<"VACUUM", "a", "INTO", "b">>}
Explains == {<<"EXPLAIN">>, <<"EXPLAIN", "QUERY", "PLAN">>} ** {<<"SELECT", "a">>, <<"DELETE", "FROM", "t">>}
Several == {<<"SEMI", "SELECT", "a", "SEMI", "EXPLAIN", "SELECT", "b", "SEMI", "SEMI", "COMMIT">>,
            <<"CREATE", "VIRTUAL", "TABLE", "t", "USING", "u", "LP", "a", "RP", "SEMI",
              "CREATE", "VIRTUAL", "TABLE", "t", "USING", "u", "LP", "b", "RP">>}

EveryStatement ==
  Selects \cup Deletes \cup Updates \cup Inserts \cup CreateTables \cup VirtualTables \cup Views
    \cup Indexes \cup Alters \cup Triggers \cup Dropped \cup Transactions \cup Pragmas \cup Others
    \cup Explains \cup Several

(* The trees that are walked, small ones, and the visitors to do it with.  *)
Kinds ==
  {[Plain EXCEPT !.enter = TRUE, !.leave = TRUE, !.nodes = types] :
     types \in {{}, {"PragmaStmt", "BinaryExpr", "CmdList"}}}
    \cup {[enter |-> FALSE, leave |-> TRUE, nodes |-> {"Name", "SelectStmt"}, keys |-> <<>>],
          [Plain EXCEPT !.enter = TRUE, !.keys = [BinaryExpr |-> <<"right">>, PragmaStmt |-> <<>>]]}
IsSmall(node) ==
  /\ Len(node.kids[1].kids) = 1
  /\ LET stmt == node.kids[1].kids[1]
     IN  stmt.type = "PragmaStmt" \/ Cardinality(AllNodes(stmt)) = 7

MCVisitors(node) == IF IsSmall(node) THEN Kinds ELSE {}

MCScripts == {Statement(words) : words \in EveryStatement}
MCMisplaced == {"1__0"}
MCTerminal == 0 .. T_YYNTOKEN - 1
MCFeeds == {}
MCValue == AstValue
MCState == ParseState
=============================================================================
