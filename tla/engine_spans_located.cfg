SPECIFICATION Spec
CONSTANTS
  None = None
  Terminal <- EveryTerminal
  Feeds <- EveryFeed
  Ctx <- MCCtx
  V <- MCV
  InitialState = "state"
  Reducer <- Collect
  YY_MAX_SHIFT <- T_YY_MAX_SHIFT
  YY_MIN_SHIFTREDUCE <- T_YY_MIN_SHIFTREDUCE
  YY_MAX_SHIFTREDUCE <- T_YY_MAX_SHIFTREDUCE
  YY_ERROR_ACTION <- T_YY_ERROR_ACTION
  YY_ACCEPT_ACTION <- T_YY_ACCEPT_ACTION
  YY_NO_ACTION <- T_YY_NO_ACTION
  YY_MIN_REDUCE <- T_YY_MIN_REDUCE
  YY_MAX_REDUCE <- T_YY_MAX_REDUCE
  YY_ACTTAB_COUNT <- T_YY_ACTTAB_COUNT
  YY_REDUCE_COUNT <- T_YY_REDUCE_COUNT
  YYWILDCARD <- T_YYWILDCARD
  yy_action <- MC_yy_action
  yy_lookahead <- MC_yy_lookahead
  yy_shift_ofst <- MC_yy_shift_ofst
  yy_reduce_ofst <- MC_yy_reduce_ofst
  yy_default <- MC_yy_default
  yyFallback <- MC_yyFallback
  yyRuleInfoLhs <- MC_yyRuleInfoLhs
  yyRuleInfoNRhs <- MC_yyRuleInfoNRhs
INVARIANT SpansLocated
CHECK_DEADLOCK FALSE
