---------------------------- MODULE AstTraverse ----------------------------
(***************************************************************************)
(* A parse and a walk over the tree it returns.                            *)
(***************************************************************************)
EXTENDS AstParser, Traverse

bothVars == <<astVars, walkVars>>

BothInit == AstInit /\ WalkInit

TraverseRoot == Accepted /\ traverse(finalizeCmdList(state.cmds))

BothNext ==
  \/ AstNext /\ UNCHANGED walkVars
  \/ (TraverseRoot \/ WalkStep) /\ UNCHANGED astVars

BothSpec == BothInit /\ [][BothNext]_bothVars
-----------------------------------------------------------------------------
(* Properties *)

RECURSIVE Preorder(_)
Preorder(node) ==
  LET children == Children(node)
  IN  <<node>> \o FlattenSeq([i \in DOMAIN children |-> Preorder(children[i])])

CallsOf(callback) == SelectSeq(log, LAMBDA call : call.callback = callback)
Pruned == UNION {ToSet(Tail(Preorder(log[i].node))) :
                   i \in {i \in DOMAIN log : log[i].result = "skip" /\ log[i].callback # "leave"}}

(* The nodes entered so far; all of them at the end, unless a break came. *)
EntersInPreorder ==
  tree # None /\ visitor.enter =>
    LET expected == SelectSeq(Preorder(tree), LAMBDA node : node \notin Pruned)
        entered  == NodesOf(CallsOf("enter"))
    IN  /\ IsPrefix(entered, expected)
        /\ ~Walking /\ ~broken => entered = expected

(* A skip and a break stop the right part of the walk: what is entered is  *)
(* the tree in preorder without what was skipped, and nothing is called    *)
(* after a break, on no level.                                             *)
VisitsInOrder == EntersInPreorder /\ BreakIsLast

RECURSIVE AllNodes(_)
AllNodes(node) == {node} \cup UNION {AllNodes(child) : child \in ChildNodes(node)}

EveryNodeReached ==
  DOMAIN visitor.keys = {} =>
    \A i \in DOMAIN state.cmds : AllNodes(state.cmds[i]) = ToSet(Preorder(state.cmds[i]))

TreeIsWhole == tree # None => Whole(AllNodes(tree))

(* The names and literals of a statement as a walk meets them. *)
WordsMet(cmd) == SelectSeq(Preorder(cmd), LAMBDA node : node.word # "")
InReadingOrder(nodes) ==
  \A i \in 2 .. Len(nodes) : nodes[i - 1].span.offset < nodes[i].span.offset
OffsetFirst(limit) ==
  /\ limit.type = "Limit"
  /\ limit.kids[2] # None
  /\ limit.kids[2].span.offset < limit.kids[1].span.offset

OtherReadingOrder ==
  \A i \in DOMAIN state.cmds :
    InReadingOrder(WordsMet(state.cmds[i]))
      \/ \E node \in AllNodes(state.cmds[i]) : OffsetFirst(node)

(* The trees the parser builds are of the types traverse relies on, and    *)
(* VisitorKeys misses no part of them: whatever a field of a node holds,   *)
(* of every statement, is reached from it.  And its keys follow the source *)
(* layout, so that a walk emits nodes in reading order, as                 *)
(* src/ast/traverse.ts:52 says, for everything but LIMIT offset, expr:     *)
(* whichever lists, joins and clauses the nodes were put together from.    *)
WalkReadsSource == TreeIsWhole /\ EveryNodeReached /\ OtherReadingOrder
=============================================================================
