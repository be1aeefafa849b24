----------------------------- MODULE AstParser -----------------------------
(***************************************************************************)
(* A parse with its AST: the engine of Lempar runs the reducer of          *)
(* AstActions on a script chosen at the start.                             *)
(*                                                                         *)
(* A script is a sequence of tokens [major, word], each one character long *)
(* on one line, with a space after it; it ends with SEMI and the end       *)
(* marker, as runCore feeds them.                                          *)
(***************************************************************************)
EXTENDS Lempar, AstActions

CONSTANT Scripts

VARIABLE script

astVars == <<engineVars, script>>

TokenAt(i) ==
  LET span == [offset |-> 2 * i - 2, length |-> 1, line |-> 1, col |-> 2 * i - 2]
  IN  [major |-> script[i].major, span |-> span,
       minor |-> [type |-> "Token", word |-> script[i].word, span |-> span, kids |-> <<>>]]

AstInit == Init /\ script \in Scripts

FeedNext ==
  /\ la = None /\ phase = "running"
  /\ inputIndex < Len(script)
  /\ Call(TokenAt(inputIndex + 1))

AstNext == (FeedNext \/ Step) /\ UNCHANGED script

Accepted == phase = "accepted"
-----------------------------------------------------------------------------
(* Types *)

(* The values the reducer may return, up to a depth no script reaches. *)
MaxDepth == 40
AstValue ==
  LET upTo[depth \in Nat] ==
        IF depth = 0 THEN {}
        ELSE [type : STRING, word : STRING, span : Span \cup {None},
              kids : Seq(upTo[depth - 1] \cup {None})]
  IN  upTo[MaxDepth]

ParseState ==
  [stmt : AstValue \cup {None}, explain : {"Explain", "QueryPlan", None},
   cmds : Seq(AstValue), constraintName : AstValue \cup {None},
   errors : Seq([rule : Rule, span : Span]),
   vtabArgs : Seq(AstValue), vtabArgCurrent : Seq(AstValue)]

(* value and everything below it have the fields their types ask for. *)
RECURSIVE Accepts(_, _), WellFormed(_)
Accepts(field, value) ==
  /\ Tag(value) \in field.of
  /\ Tag(value) = "[]" =>
       \A i \in 1 .. Len(value.kids) :
         Tag(value.kids[i]) \in field.items /\ WellFormed(value.kids[i])
  /\ Tag(value) \notin {"[]", "undefined"} => WellFormed(value)
WellFormed(value) ==
  IF value.type \notin DOMAIN NodeTypes THEN value.kids = <<>>
  ELSE LET fields == NodeTypes[value.type]
       IN  /\ Len(value.kids) = Len(fields)
           /\ \A i \in DOMAIN fields : Accepts(fields[i], value.kids[i])

(* The reducer casts each value of a right-hand side to the type it        *)
(* expects of that symbol, unchecked: the values on the stack have these   *)
(* types, and what is staged and committed are statements as nodes.ts      *)
(* declares them, with every field filled by a value of its type.          *)
HasItsType(entry) ==
  LET symbol == At(T_symbols, entry.major)
  IN  symbol \in DOMAIN MinorTypes => Accepts(MinorTypes[symbol], entry.minor)
IsStmt(value) == value.type \in Stmt /\ WellFormed(value)

WellTyped ==
  /\ \A i \in 2 .. Len(yystack) : HasItsType(yystack[i])
  /\ state.stmt # None => IsStmt(state.stmt)
  /\ \A i \in DOMAIN state.cmds : IsStmt(state.cmds[i])
-----------------------------------------------------------------------------
(* Spans *)

StartsIn(inner, outer) == inner.offset >= outer.offset
Within(inner, outer) == StartsIn(inner, outer) /\ End(inner) <= End(outer)

(* Nodes with a part of another right-hand side than their own: the name   *)
(* staged for a constraint, the table and the condition of a join, whose   *)
(* span is the one of its operator.                                        *)
Collected == {"NamedColumnConstraint", "NamedTableConstraint", "JoinedSelectTable"}

RECURSIVE Nested(_)
Nested(node) ==
  \A child \in ChildNodes(node) :
    /\ node.type \notin Collected => Within(child.span, node.span)
    /\ Nested(child)

(* But for these, the span of a committed node holds the spans of all that *)
(* is below it, through every merge and reuse of parts on the way: who     *)
(* looks for the node at an offset can descend through spans.              *)
SpansNest == \A i \in DOMAIN state.cmds : Nested(state.cmds[i])
-----------------------------------------------------------------------------
(* What of the source is in the tree *)

RECURSIVE LeafOffsets(_)
LeafOffsets(value) ==
  IF value = None THEN <<>>
  ELSE IF value.word # "" THEN <<value.span.offset>>
  ELSE FlattenSeq([i \in DOMAIN value.kids |-> LeafOffsets(value.kids[i])])

Leaves == FlattenSeq([i \in DOMAIN state.cmds |-> LeafOffsets(state.cmds[i])])

(* Tokens that stand for themselves in the tree, wherever the grammar puts *)
(* them; other words are syntax unless they are read as a name.            *)
Content == {TK.TK_ID, TK.TK_STRING, TK.TK_BLOB, TK.TK_INTEGER, TK.TK_FLOAT, TK.TK_QNUMBER,
            TK.TK_VARIABLE, TK.TK_CTIME_KW}
TableOptions == {"rowid", "strict"}
Kept(i) == /\ script[i].major \in Content
           /\ script[i].word \notin TableOptions
           /\ script[i - 1].major # TK.TK_CONSTRAINT
           /\ \A j \in 1 .. i : script[j].major # TK.TK_VIRTUAL

(* Without a complaint, every name and literal of the source is in the     *)
(* tree, once: no rule drops a part of its right-hand side, takes it       *)
(* twice, or takes another for it.  (A constraint may not get its name:    *)
(* DEFERRABLE takes none; virtual tables have a property of their own.)    *)
NothingLost ==
  Accepted /\ state.errors = <<>> =>
    /\ IsInjective(Leaves)
    /\ \A i \in DOMAIN script : Kept(i) => TokenAt(i).span.offset \in Range(Leaves)
-----------------------------------------------------------------------------
(* Virtual tables, whose arguments are collected token by token *)

IsVirtualTable(cmd) == cmd.type = "CreateVirtualTableStmt" /\ cmd.kids[4] # None

(* The tokens between the parentheses of its argument list, and how many   *)
(* inner parentheses are open before each.                                 *)
ArgumentTokens(cmd) ==
  LET inside == {i \in DOMAIN script : Within(TokenAt(i).span, cmd.span)}
      open   == CHOOSE i \in inside : /\ script[i].major = TK.TK_LP
                                     /\ \A j \in inside : script[j].major = TK.TK_LP => i <= j
  IN  {i \in inside : i > open /\ i + 1 \in inside}
Opened(tokens, i) == Cardinality({j \in tokens : j < i /\ script[j].major = TK.TK_LP})
                       - Cardinality({j \in tokens : j < i /\ script[j].major = TK.TK_RP})

(* The arguments are the stretches between the outer commas, empty ones    *)
(* left out; of what is in inner parentheses only the outermost pair stays.*)
ArgumentsOf(cmd) ==
  LET tokens   == ArgumentTokens(cmd)
      outer(i) == Opened(tokens, i) = 0 \/ (script[i].major = TK.TK_RP /\ Opened(tokens, i) = 1)
      commas   == {i \in tokens : script[i].major = TK.TK_COMMA /\ Opened(tokens, i) = 0}
      stretch(n) == {i \in tokens \ commas :
                       outer(i) /\ Cardinality({c \in commas : c < i}) = n}
      inOrder(is) == SetToSortSeq({TokenAt(i).span.offset : i \in is}, <)
  IN  SelectSeq([n \in 1 .. Cardinality(commas) + 1 |-> inOrder(stretch(n - 1))],
                LAMBDA argument : argument # <<>>)

(* An argument is made of its own tokens, in order, whatever commas,       *)
(* nesting and other statements come before it: the buffer it is collected *)
(* in is handed over and emptied between arguments and between statements. *)
VtabArguments ==
  \A i \in DOMAIN state.cmds :
    IsVirtualTable(state.cmds[i]) =>
      LET args == state.cmds[i].kids[4].kids
      IN  [n \in DOMAIN args |-> LeafOffsets(args[n])] = ArgumentsOf(state.cmds[i])
=============================================================================
