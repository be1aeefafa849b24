---------------------------- MODULE LemparYield ----------------------------
(***************************************************************************)
(* What reaches the reducer.  An AST is built from the right-hand sides    *)
(* that yy_reduce cuts off the stack: with a reducer that keeps no more of *)
(* each than the tokens below it, the stack shows which tokens an AST has, *)
(* and in which order.                                                     *)
(***************************************************************************)
EXTENDS Lempar, SequencesExt

(* The minor of a token is here its span, that of a node the spans of all  *)
(* the tokens below the node.                                              *)
Tokens(entries) == FlattenSeq([i \in DOMAIN entries |-> entries[i].minor])

Collect(st, rule, popped, span) == {[state |-> st, minor |-> Tokens(popped)]}

(* A session of such tokens and such a reducer. *)
Collecting ==
  /\ \A feed \in Feeds : feed.minor = <<feed.span>>
  /\ \A st, rule, popped, span :
       \A result \in Reducer(st, rule, popped, span) : result.minor = Tokens(popped)

(* What the stack holds of the source, from the bottom to the top. *)
Yield == Tokens(Tail(yystack))

(* No reduction loses, repeats or reorders a token: read from the bottom   *)
(* of the stack to its top, the nodes cover every token shifted so far,    *)
(* once and in source order, and the span of a node starts no later than   *)
(* the first of its tokens and ends where the last one does.               *)
StackYieldsInput ==
  /\ Len(Yield) = inputIndex
  /\ \A i, j \in 1 .. Len(Yield) : i < j => End(Yield[i]) <= Yield[j].offset
  /\ \A i \in 2 .. Len(yystack) :
       LET entry == yystack[i]
       IN  entry.minor # <<>> => /\ entry.span.offset <= entry.minor[1].offset
                                 /\ End(entry.span) = End(TopOf(entry.minor))

(* A shift takes the token in flight, and no other step changes what the   *)
(* nodes hold of the source: an AST only ever grows at its end.            *)
TakesTokens ==
  [][Yield' = IF inputIndex' = inputIndex THEN Yield ELSE Append(Yield, la.span)]_engineVars
=============================================================================
