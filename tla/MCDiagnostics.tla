--------------------------- MODULE MCDiagnostics ---------------------------
(***************************************************************************)
(* Constants for model checking Diagnostics: sources that get a statement  *)
(* wrong in the ways the hints are about.                                  *)
(***************************************************************************)
EXTENDS MCRunCore, Diagnostics

FirstTypes == {TK.TK_SEMI, TK.TK_SELECT, TK.TK_EXPLAIN, TK.TK_UPDATE, TK.TK_RP}
HintTypes  == OpenerTypes \cup {TK.TK_COMMA, TK.TK_FROM, TK.TK_QUERY,
                              TK.TK_OVER, TK.TK_FILTER, TK.TK_JOIN}
HintsAt == [n \in 1 .. MaxTokens |-> IF n = 1 THEN FirstTypes ELSE HintTypes]
=============================================================================
