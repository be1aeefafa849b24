---------------------------- MODULE MCScriptWalk ----------------------------
(***************************************************************************)
(* Constants for model checking ScriptWalk: scripts of short statements,   *)
(* right and wrong ones, with separators, trivia and illegal tokens        *)
(* anywhere.                                                               *)
(***************************************************************************)
EXTENDS MCRunCore, ScriptWalk

ScriptTypes == {TK.TK_SEMI, TK.TK_EXPLAIN, TK.TK_COMMIT, TK.TK_SELECT, TK.TK_ID,
                TK.TK_ILLEGAL, TK.TK_SPACE}
ScriptAt == [n \in 1 .. MaxTokens |-> ScriptTypes]
=============================================================================
