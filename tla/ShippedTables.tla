--------------------------- MODULE ShippedTables ---------------------------
(***************************************************************************)
(* The shipped tables under the names the configurations give Lempar's     *)
(* constants.  Each is one more name for a value: TLC evaluates a          *)
(* definition once, but the one a configuration substitutes for a constant *)
(* again at every use, so what is substituted should only name a value.    *)
(***************************************************************************)
EXTENDS SqliteTables

MC_yy_action       == T_yy_action
MC_yy_lookahead    == T_yy_lookahead
MC_yy_shift_ofst   == T_yy_shift_ofst
MC_yy_reduce_ofst  == T_yy_reduce_ofst
MC_yy_default      == T_yy_default
MC_yyFallback      == T_yyFallback
MC_yyRuleInfoLhs   == T_yyRuleInfoLhs
MC_yyRuleInfoNRhs  == T_yyRuleInfoNRhs
=============================================================================
