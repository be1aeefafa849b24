---------------------------- MODULE MCTestParser ----------------------------
(***************************************************************************)
(* Files for model checking the `.test` parser: every file of up to        *)
(* MaxLines lines of each kind, and of up to MaxFewLines lines of the      *)
(* kinds that make comments wait.                                          *)
(***************************************************************************)
EXTENDS TestParserTwice

CONSTANTS MaxLines, MaxFewLines

Plain(words) == [indent |-> FALSE, words |-> words, trail |-> FALSE]

Blank   == Plain(<<>>)
Comment_ == Plain(<<"#">>)
Few == {Blank, Comment_, Plain(<<"skipif", "mysql">>), Plain(<<"statement", "ok">>),
        Plain(<<"skipif">>), Plain(<<"statement">>)}
Queries == {Blank, Comment_, Plain(<<"query", "I">>), Plain(<<"----">>), Plain(<<"SELECT">>),
            Plain(<<"N values hashing to H">>)}
All ==
  Few \cup Queries \cup
    {Plain(<<"onlyif", "mysql">>), Plain(<<"halt">>), Plain(<<"hash-threshold", "8">>),
     Plain(<<"hash-threshold", "x">>), Plain(<<"query">>), Plain(<<"query", "I", "bysize">>),
     Plain(<<"query", "T", "rowsort", "x">>),
     [indent |-> TRUE, words |-> <<"#">>, trail |-> FALSE],
     [indent |-> FALSE, words |-> <<"----">>, trail |-> TRUE]}

UpTo(n, kinds) == UNION {[1 .. m -> kinds] : m \in 0 .. n}
MCFiles ==
  UpTo(MaxLines, All) \cup UpTo(MaxFewLines, Few) \cup
  {<<Plain(<<"query", "I">>)>> \o body : body \in UpTo(MaxFewLines - 1, Queries)}
=============================================================================
