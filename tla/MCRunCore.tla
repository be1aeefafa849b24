----------------------------- MODULE MCRunCore -----------------------------
(***************************************************************************)
(* Constants for model checking RunCore on the shipped tables, with the    *)
(* reducer of ParseActions.  A source has at most MaxTokens tokens; each   *)
(* configuration picks the types it is made of.                            *)
(***************************************************************************)
EXTENDS RunCore, ShippedTables

CONSTANT MaxTokens

INSTANCE ParseActions

TK == T_tokens

(* What a source is made of. *)
StatementTypes == {TK.TK_SEMI, TK.TK_EXPLAIN, TK.TK_QUERY, TK.TK_PLAN, TK.TK_COMMIT,
                   TK.TK_DELETE, TK.TK_SELECT, TK.TK_STAR, TK.TK_FROM, TK.TK_ID}
ModeTypes      == {TK.TK_SEMI, TK.TK_COMMIT, TK.TK_SELECT, TK.TK_STAR, TK.TK_ID,
                   TK.TK_ILLEGAL, TK.TK_SPACE}
OpenerTypes    == {TK.TK_SEMI, TK.TK_SELECT, TK.TK_ID, TK.TK_LP, TK.TK_RP, TK.TK_CASE,
                   TK.TK_WHEN, TK.TK_THEN, TK.TK_END}
StatementsAt == [n \in 1 .. MaxTokens |-> StatementTypes]
ModesAt      == [n \in 1 .. MaxTokens |-> ModeTypes]

(* CREATE TABLE id ( id [CONSTRAINT id] [constraint] ) ; and the same again. *)
TablesAt ==
  <<{TK.TK_CREATE}, {TK.TK_TABLE}, {TK.TK_ID}, {TK.TK_LP}, {TK.TK_ID}, {TK.TK_CONSTRAINT},
    {TK.TK_ID}, {TK.TK_NULL, TK.TK_RP}, {TK.TK_RP, TK.TK_SEMI}, {TK.TK_CREATE, TK.TK_SEMI},
    {TK.TK_TABLE, TK.TK_CREATE}, {TK.TK_ID, TK.TK_TABLE}, {TK.TK_LP, TK.TK_ID},
    {TK.TK_ID, TK.TK_LP}, {TK.TK_NULL, TK.TK_ID}, {TK.TK_RP, TK.TK_NULL}, {TK.TK_SEMI, TK.TK_RP}>>

(* parse, parse with options.singleStatement, parseStmt, and parseStmt     *)
(* with allowTrailing                                                      *)
Parse         == [firstStatement |-> FALSE, rejectTrailing |-> FALSE]
ParseSingle   == [firstStatement |-> FALSE, rejectTrailing |-> TRUE]
ParseStmt     == [firstStatement |-> TRUE,  rejectTrailing |-> TRUE]
ParseTrailing == [firstStatement |-> TRUE,  rejectTrailing |-> FALSE]
JustParse     == {Parse}
AllModes      == {Parse, ParseSingle, ParseStmt, ParseTrailing}
JustTrailing  == {ParseTrailing}

MCTerminal == 0 .. T_YYNTOKEN - 1
MCFeeds ==
  UNION {{FeedOf(token) : token \in FedAt(n)} : n \in 0 .. Len(SourceTypes)}

Token == [type : MCTerminal, synthetic : BOOLEAN, span : Span]
MCV == Token \cup {Node, From, Columns(TRUE), Columns(FALSE), Distinct, TypedJoin, FirstTable}
         \cup [ast : {"constraint"}, name : Nat \cup {None}]
Explained == {"Explain", "QueryPlan", None}
MCCtx == [stmt : Span \cup {None}, explain : Explained,
          cmds : Seq([span : Span, explain : Explained]),
          constraintName : Nat \cup {None}, errors : Seq([rule : Rule])]
=============================================================================
