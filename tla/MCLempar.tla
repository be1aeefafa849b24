------------------------------ MODULE MCLempar ------------------------------
(***************************************************************************)
(* Constants for model checking Lempar on the shipped tables, with the     *)
(* reducer of LemparYield.                                                 *)
(***************************************************************************)
EXTENDS ShippedTables, LemparTables, LemparYield

At_(major, offset, length) ==
  LET span == [offset |-> offset, length |-> length, line |-> 1, col |-> offset]
  IN  [major |-> major, minor |-> <<span>>, span |-> span]

(* Scripts of up to five tokens, with or without a gap between them: any   *)
(* two terminals to start with, a few terminals from there on, and the end *)
(* marker.                                                                 *)
EveryTerminal == 0 .. T_YYNTOKEN - 1
SomeTerminal ==
  {T_tokens.TK_SEMI, T_tokens.TK_SELECT, T_tokens.TK_ID, T_tokens.TK_LP, T_tokens.TK_RP}
EveryFeed == {At_(major, offset, 1) : major \in EveryTerminal \ {0}, offset \in {0, 1}}
               \cup {At_(major, offset, 1) : major \in SomeTerminal, offset \in {2, 4, 5}}
               \cup {At_(0, 6, 0)}

MCCtx == {"state"}
MCV == Seq(Span)

(* src/tokenize.ts:140 says a span has the line and col of its first       *)
(* character; every token here has col = offset on line 1.                 *)
SpansLocated ==
  \A i \in 1 .. Len(yystack) :
    yystack[i].span.line = 1 /\ yystack[i].span.col = yystack[i].span.offset
=============================================================================
