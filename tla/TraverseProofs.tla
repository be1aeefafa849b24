--------------------------- MODULE TraverseProofs ---------------------------
(***************************************************************************)
(* traverse, for every tree of the AST's types, every visitor, and however *)
(* often its functions answer "skip" and "break".                          *)
(*                                                                         *)
(* The trees are given as a set of nodes that is Whole, as the nodes of    *)
(* every tree the parser returns are (AstTraverse.WalkReadsSource).  The   *)
(* walk has a path through that set on its stack (OnPath), and the calls   *)
(* of the visitor mirror the path (OpenNodes and Entered).                 *)
(***************************************************************************)
EXTENDS Traverse, SequenceTheorems, RecursionLemmas
-----------------------------------------------------------------------------
(* What is below a node *)

LEMMA ItemsBelow ==
  ASSUME NEW nodes, Whole(nodes), NEW node \in nodes, NEW key \in ChildKeys(node.type)
  PROVE  Items(Field(node, key)) \in Seq(ChildNodes(node))
<1> DEFINE fields == NodeTypes[node.type]
           n == CHOOSE i \in DOMAIN node.kids : fields[i].name = key
           value == node.kids[n]
<1>1. /\ IsNode(node) /\ DOMAIN node.kids = DOMAIN fields
      /\ \A i \in DOMAIN node.kids : Fits(fields[i], node.kids[i])
  BY DEF Whole
<1>2. node.type \in AstTypes
  BY <1>1, KeysAssumption DEF IsNode, Tag
<1>3. PICK j \in DOMAIN fields : HoldsNodes(fields[j]) /\ fields[j].name = key
  BY DEF ChildKeys
<1>4. n \in DOMAIN node.kids /\ fields[n].name = key
  BY <1>1, <1>3
<1>5. n = j
  BY <1>1, <1>2, <1>3, <1>4, KeysAssumption
<1>6. HoldsNodes(fields[n]) /\ Fits(fields[n], value)
  BY <1>1, <1>3, <1>4, <1>5
<1>7. Field(node, key) = value
  BY DEF Field
<1> HIDE DEF n, fields
<1>8. CASE value = None
  BY <1>7, <1>8, EmptySeq DEF Items
<1>9. CASE value # None /\ value.type = "[]"
  <2>1. value.kids \in Seq(ToSet(value.kids))
    BY <1>6, <1>9 DEF Fits, Tag
  <2>2. \A i \in DOMAIN value.kids : IsNode(value.kids[i])
    BY <1>6, <1>9 DEF Fits, Tag, HoldsNodes, IsNode
  <2>3. ToSet(value.kids) \subseteq ChildNodes(node)
    BY <1>4, <1>9, <2>2 DEF ChildNodes, ToSet
  <2>4. Items(value) = value.kids
    BY <1>9 DEF Items
  <2> QED
    BY <1>7, <2>1, <2>3, <2>4, SeqMonotonic
<1>10. CASE value # None /\ value.type # "[]"
  <2>1. IsNode(value)
    BY <1>6, <1>10, KeysAssumption DEF Fits, Tag, HoldsNodes, IsNode
  <2>2. value \in ChildNodes(node)
    BY <1>4, <1>10, <2>1 DEF ChildNodes
  <2> QED
    BY <1>7, <1>10, <2>2 DEF Items
<1> QED
  BY <1>8, <1>9, <1>10

(* What walk descends into are nodes below its own.                        *)
LEMMA ChildrenBelow ==
  ASSUME KeysFit(visitor), NEW nodes, Whole(nodes), NEW node \in nodes
  PROVE  Children(node) \in Seq(ChildNodes(node))
<1> DEFINE keys == KeysOf(node.type)
           Below == ChildNodes(node)
<1>1. node.type \in AstTypes
  BY KeysAssumption DEF Whole, IsNode, Tag
<1>2. keys \in Seq(ChildKeys(node.type))
  BY <1>1, KeysAssumption, EmptySeq DEF KeysOf, KeysFit
<1>3. \A i \in DOMAIN keys : Items(Field(node, keys[i])) \in Seq(Below)
  BY <1>2, ItemsBelow, LenProperties, ElementOfSeq
<1>4. [i \in DOMAIN keys |-> Items(Field(node, keys[i]))] \in Seq(Seq(Below))
  BY <1>2, <1>3, LenProperties, SeqDef
<1> HIDE DEF keys, Below
<1>5. FlattenSeq([i \in DOMAIN keys |-> Items(Field(node, keys[i]))]) \in Seq(Below)
  BY <1>4, FlattenType
<1> QED
  BY <1>5 DEF Children, keys, Below
-----------------------------------------------------------------------------
(* The calls, and the nodes they leave open *)

Call(nodes) == [callback : {"enter", "handler", "leave"}, node : nodes,
                parent : nodes \cup {None}, result : {"continue", "skip", "break"}]
Open(nodes) == Seq(nodes \cup {None})

LEMMA OpenAfterType ==
  ASSUME NEW nodes, NEW call \in Call(nodes), NEW open \in Open(nodes)
  PROVE  OpenAfter(call, open) \in Open(nodes)
<1>1. Append(open, call.node) \in Open(nodes)
  BY AppendProperties DEF Open, Call
<1>2. open # <<>> => Front(open) \in Open(nodes)
  <2> SUFFICES ASSUME open # <<>> PROVE Front(open) \in Open(nodes)
    OBVIOUS
  <2>1. Len(open) \in Nat /\ Len(open) > 0
    BY LenProperties, EmptySeq DEF Open
  <2> QED
    BY <2>1, SubSeqProperties DEF Open, Front
<1>3. <<None>> \in Open(nodes)
  BY DEF Open
<1> QED
  BY <1>1, <1>2, <1>3 DEF OpenAfter

(* OpenNodes is what its equations say.                                    *)
LEMMA OpenNodesRuns ==
  ASSUME NEW nodes, NEW calls \in Seq(Call(nodes))
  PROVE  \E open \in [0 .. Len(calls) -> Open(nodes)] :
           /\ OpenNodes(calls) = open[Len(calls)]
           /\ open[0] = <<>>
           /\ \A i \in 1 .. Len(calls) : open[i] = OpenAfter(calls[i], open[i - 1])
<1> DEFINE N == Len(calls)
           S == Open(nodes)
           step == [i \in 1 .. N |-> [open \in S |-> OpenAfter(calls[i], open)]]
<1>1. N \in Nat /\ \A i \in 1 .. N : calls[i] \in Call(nodes)
  BY LenProperties, ElementOfSeq
<1>2. <<>> \in S /\ step \in Steps(N, S)
  <2>1. \A i \in 1 .. N : \A open \in S : OpenAfter(calls[i], open) \in S
    BY <1>1, OpenAfterType
  <2> HIDE DEF N
  <2>2. step \in Steps(N, S)
    BY <2>1 DEF Steps
  <2> QED
    BY <2>2, EmptySeq DEF Open
<1>3. PICK f : Runs(f, N, S, <<>>, step)
  <2> HIDE DEF N, S, step
  <2> QED
    BY <1>1, <1>2, Recursion
<1>4. f \in [0 .. N -> S] /\ f[0] = <<>>
  BY <1>3 DEF Runs
<1>5. \A i \in 1 .. N : f[i - 1] \in S /\ f[i] = OpenAfter(calls[i], f[i - 1])
  <2>1. \A i \in 1 .. N : i - 1 \in 0 .. N
    BY <1>1
  <2>2. \A i \in 1 .. N : f[i - 1] \in S
    <3> HIDE DEF step, S, N
    <3> QED
      BY <1>4, <2>1
  <2>3. \A i \in 1 .. N : f[i] = step[i][f[i - 1]]
    BY <1>3 DEF Runs
  <2> QED
    BY <2>2, <2>3
<1> DEFINE Equations(h) ==
             h = [i \in 0 .. N |-> IF i = 0 THEN <<>> ELSE OpenAfter(calls[i], h[i - 1])]
           open == CHOOSE h : Equations(h)
<1>6. Equations(f)
  <2> HIDE DEF step, S
  <2> QED
    BY <1>1, <1>4, <1>5
<1>7. Equations(open)
  <2> HIDE DEF Equations
  <2> QED
    BY <1>6
<1>8. OpenNodes(calls) = open[N]
  BY DEF OpenNodes
<1>9. open[0] = f[0] /\ \A i \in 1 .. N : open[i - 1] = f[i - 1] => open[i] = f[i]
  <2>1. open[0] = <<>> /\ \A i \in 1 .. N : open[i] = OpenAfter(calls[i], open[i - 1])
    <3> HIDE DEF open
    <3> QED
      BY <1>1, <1>7
  <2> HIDE DEF open, step, S
  <2> QED
    BY <1>4, <1>5, <2>1
<1>10. \A i \in 0 .. N : open[i] = f[i]
  <2>1. N \in Nat
    BY <1>1
  <2> HIDE DEF open, N, step, S
  <2> DEFINE T == {i \in 0 .. N : open[i] = f[i]}
  <2>2. 0 \in T
    BY ONLY <1>9, <2>1
  <2>3. \A i \in 1 .. N : i - 1 \in T => i \in T
    BY ONLY <1>9, <2>1
  <2>4. \A i \in 0 .. N : i \in T
    <3> HIDE DEF T
    <3> QED
      BY ONLY <2>1, <2>2, <2>3, InductionTo
  <2> QED
    BY ONLY <2>4
<1>11. OpenNodes(calls) = f[N]
  <2> HIDE DEF open, step, S
  <2> QED
    BY <1>1, <1>8, <1>10
<1> HIDE DEF step, open
<1> QED
  BY <1>4, <1>5, <1>11

LEMMA OpenNodesStep ==
  ASSUME NEW nodes, NEW calls \in Seq(Call(nodes)), NEW call \in Call(nodes)
  PROVE  /\ OpenNodes(<<>>) = <<>>
         /\ OpenNodes(Append(calls, call)) = OpenAfter(call, OpenNodes(calls))
<1> DEFINE N == Len(calls)
           more == Append(calls, call)
<1>1. OpenNodes(<<>>) = <<>>
  <2>1. <<>> \in Seq(Call(nodes)) /\ Len(<<>>) = 0
    BY EmptySeq
  <2>2. \E open \in [0 .. Len(<<>>) -> Open(nodes)] :
          OpenNodes(<<>>) = open[Len(<<>>)] /\ open[0] = <<>>
    BY ONLY <2>1, OpenNodesRuns
  <2> QED
    BY ONLY <2>1, <2>2
<1>2. /\ N \in Nat /\ more \in Seq(Call(nodes)) /\ Len(more) = N + 1 /\ more[N + 1] = call
      /\ \A i \in 1 .. N : more[i] = calls[i]
  BY LenProperties, AppendProperties
<1>3. PICK f \in [0 .. N -> Open(nodes)] :
           /\ OpenNodes(calls) = f[N]
           /\ f[0] = <<>>
           /\ \A i \in 1 .. N : f[i] = OpenAfter(calls[i], f[i - 1])
  BY OpenNodesRuns
<1> DEFINE M == Len(more)
<1>4. PICK g \in [0 .. M -> Open(nodes)] :
           /\ OpenNodes(more) = g[M]
           /\ g[0] = <<>>
           /\ \A i \in 1 .. M : g[i] = OpenAfter(more[i], g[i - 1])
  <2>1. more \in Seq(Call(nodes))
    BY <1>2
  <2> HIDE DEF more
  <2> QED
    BY <2>1, OpenNodesRuns
<1>5. M = N + 1
  BY <1>2
<1> HIDE DEF N, more, M
<1>6. ASSUME NEW i \in 1 .. N, g[i - 1] = f[i - 1]
      PROVE  g[i] = f[i]
  <2>1. i \in 1 .. M
    BY <1>2, <1>5
  <2>2. g[i] = OpenAfter(more[i], g[i - 1]) /\ f[i] = OpenAfter(calls[i], f[i - 1])
    BY <1>3, <1>4, <2>1
  <2>3. more[i] = calls[i]
    BY <1>2
  <2> QED
    BY <1>6, <2>2, <2>3
<1>7. \A i \in 0 .. N : g[i] = f[i]
  <2> DEFINE T == {i \in 0 .. N : g[i] = f[i]}
  <2>1. N \in Nat /\ 0 \in T
    BY <1>2, <1>3, <1>4
  <2>2. \A i \in 1 .. N : i - 1 \in T => i \in T
    BY <1>2, <1>6
  <2>3. \A i \in 0 .. N : i \in T
    <3> HIDE DEF T
    <3> QED
      BY <2>1, <2>2, InductionTo
  <2> QED
    BY <2>3
<1>8. g[M] = OpenAfter(more[M], g[N]) /\ g[N] = f[N]
  <2>1. M \in 1 .. M /\ N \in 0 .. N /\ M - 1 = N
    BY <1>2, <1>5
  <2> QED
    BY <1>4, <1>7, <2>1
<1> QED
  BY <1>1, <1>2, <1>3, <1>4, <1>5, <1>8 DEF more
-----------------------------------------------------------------------------
(* The invariant *)

FrameOf(nodes) == [node : nodes, parent : nodes \cup {None},
                   at : {"enter", "handler", "children", "leave"}, todo : Seq(nodes)]

(* The frames are those of a path from the tree's root: each is waiting    *)
(* for the next, which is one of its children, as are those it has to do.  *)
OnPath(nodes) ==
  /\ frames \in Seq(FrameOf(nodes))
  /\ Walking => frames[1].node = tree /\ frames[1].parent = None
  /\ \A i \in 2 .. Len(frames) :
       /\ frames[i].node \in ChildNodes(frames[i - 1].node)
       /\ frames[i].parent = frames[i - 1].node
  /\ \A i \in DOMAIN frames : i < Len(frames) => frames[i].at = "children"
  /\ \A i \in DOMAIN frames : frames[i].todo \in Seq(ChildNodes(frames[i].node))

WalkTypeOK(nodes) ==
  /\ KeysFit(visitor)
  /\ tree \in nodes \cup {None}
  /\ log \in Seq(Call(nodes))
  /\ tree = None => frames = <<>> /\ log = <<>> /\ ~broken
  /\ broken => ~Walking

WalkInv(nodes) ==
  WalkTypeOK(nodes) /\ OnPath(nodes) /\ BreakIsLast /\ ParentEncloses /\ LeavesPaired

LEMMA FrameFacts ==
  ASSUME NEW nodes, OnPath(nodes), Walking
  PROVE  /\ Len(frames) \in Nat \ {0} /\ DOMAIN frames = 1 .. Len(frames)
         /\ \A i \in 1 .. Len(frames) : frames[i] \in FrameOf(nodes)
         /\ frame = frames[Len(frames)] /\ frame \in FrameOf(nodes)
BY LenProperties, ElementOfSeq, EmptySeq DEF OnPath, Walking, frame, Last

(* The nodes of a sequence of frames.                                      *)
LEMMA NodesOfType ==
  ASSUME NEW nodes, NEW s \in Seq(FrameOf(nodes))
  PROVE  /\ NodesOf(s) \in Open(nodes) /\ Len(NodesOf(s)) = Len(s)
         /\ \A i \in 1 .. Len(s) : NodesOf(s)[i] = s[i].node
<1>1. DOMAIN s = 1 .. Len(s) /\ Len(s) \in Nat /\ \A i \in 1 .. Len(s) : s[i] \in FrameOf(nodes)
  BY LenProperties, ElementOfSeq
<1>2. \A i \in 1 .. Len(s) : s[i].node \in nodes
  BY <1>1 DEF FrameOf
<1>3. NodesOf(s) = [i \in 1 .. Len(s) |-> s[i].node]
  BY <1>1 DEF NodesOf
<1>4. NodesOf(s) \in [1 .. Len(s) -> nodes \cup {None}]
  BY <1>2, <1>3
<1>5. NodesOf(s) \in Open(nodes)
  BY <1>1, <1>4, SeqDef DEF Open
<1>6. DOMAIN NodesOf(s) = 1 .. Len(s)
  BY <1>3
<1> QED
  BY <1>1, <1>3, <1>5, <1>6, LenProperties DEF Open

LEMMA SameNodes ==
  ASSUME NEW nodes, NEW s \in Seq(FrameOf(nodes)), NEW open \in Open(nodes),
         Len(open) = Len(s), \A i \in 1 .. Len(s) : open[i] = s[i].node
  PROVE  NodesOf(s) = open
<1>1. NodesOf(s) \in Seq(nodes \cup {None}) /\ open \in Seq(nodes \cup {None})
  BY NodesOfType DEF Open
<1>2. Len(NodesOf(s)) = Len(open)
  BY NodesOfType
<1>3. \A i \in 1 .. Len(NodesOf(s)) : NodesOf(s)[i] = open[i]
  BY NodesOfType
<1> QED
  BY <1>1, <1>2, <1>3, SeqEqual
-----------------------------------------------------------------------------
(* What a step does to the frames *)

LEMMA GotoKeepsPath ==
  ASSUME NEW nodes, Whole(nodes), OnPath(nodes), Walking, tree' = tree,
         NEW at \in {"handler", "children", "leave"},
         NEW todo \in Seq(ChildNodes(frame.node)), Goto(at, todo)
  PROVE  /\ OnPath(nodes)' /\ Walking' /\ Len(frames') = Len(frames)
         /\ frame'.at = at
         /\ \A i \in 1 .. Len(frames) : frames'[i].node = frames[i].node
<1> DEFINE n == Len(frames)
           top == [frame EXCEPT !.at = at, !.todo = todo]
<1>1. /\ n \in Nat \ {0} /\ DOMAIN frames = 1 .. n
      /\ \A i \in 1 .. n : frames[i] \in FrameOf(nodes)
      /\ frame = frames[n] /\ frame \in FrameOf(nodes)
  BY FrameFacts
<1>2. todo \in Seq(nodes)
  BY <1>1, SeqMonotonic DEF Whole, FrameOf
<1>3. top \in FrameOf(nodes) /\ top.node = frame.node /\ top.parent = frame.parent
      /\ top.at = at /\ top.todo = todo
  BY <1>1, <1>2 DEF FrameOf
<1>4. frames' = [frames EXCEPT ![n] = top]
  BY <1>1 DEF Goto
<1> HIDE DEF top
<1>5. frames' \in Seq(FrameOf(nodes)) /\ Len(frames') = n /\ DOMAIN frames' = 1 .. n
  BY <1>1, <1>3, <1>4, ExceptSeq, LenProperties DEF OnPath
<1>6. \A i \in 1 .. n : frames'[i] = IF i = n THEN top ELSE frames[i]
  BY <1>1, <1>4
<1>7. \A i \in 1 .. n : frames'[i].node = frames[i].node /\ frames'[i].parent = frames[i].parent
  BY <1>1, <1>3, <1>6
<1>8. Walking' /\ frame' = top
  <2>1. frames' # <<>> /\ frame' = frames'[n]
    BY <1>1, <1>5, EmptySeq DEF frame, Last
  <2>2. n \in 1 .. n
    BY <1>1
  <2> HIDE DEF n
  <2>3. frames'[n] = top
    BY <1>6, <2>2
  <2> QED
    BY <2>1, <2>3 DEF Walking
<1>9. frames'[1].node = tree' /\ frames'[1].parent = None
  BY <1>1, <1>7 DEF OnPath
<1>10. ASSUME NEW i \in 2 .. n
       PROVE  /\ frames'[i].node \in ChildNodes(frames'[i - 1].node)
              /\ frames'[i].parent = frames'[i - 1].node
  <2>1. i \in 1 .. n /\ i - 1 \in 1 .. n
    BY <1>1
  <2>2. frames'[i].node = frames[i].node /\ frames'[i].parent = frames[i].parent
        /\ frames'[i - 1].node = frames[i - 1].node
    BY <1>7, <2>1
  <2>3. frames[i].node \in ChildNodes(frames[i - 1].node) /\ frames[i].parent = frames[i - 1].node
    BY DEF OnPath
  <2> QED
    BY <2>2, <2>3
<1>11. \A i \in 1 .. n : i < n => frames'[i].at = "children"
  <2>1. \A i \in 1 .. n : i < n => frames[i].at = "children"
    BY <1>1 DEF OnPath
  <2> HIDE DEF n
  <2> QED
    BY <1>1, <1>6, <2>1
<1>12. \A i \in 1 .. n : frames'[i].todo \in Seq(ChildNodes(frames'[i].node))
  BY <1>1, <1>3, <1>6 DEF OnPath
<1> QED
  BY <1>3, <1>5, <1>7, <1>8, <1>9, <1>10, <1>11, <1>12 DEF OnPath

LEMMA PopKeepsPath ==
  ASSUME NEW nodes, OnPath(nodes), Walking, tree' = tree, frames' = Front(frames)
  PROVE  /\ OnPath(nodes)' /\ Len(frames') = Len(frames) - 1
         /\ \A i \in 1 .. Len(frames') : frames'[i] = frames[i]
         /\ Walking' => frame'.at = "children"
<1> DEFINE n == Len(frames)
<1>1. /\ n \in Nat \ {0} /\ DOMAIN frames = 1 .. n
      /\ \A i \in 1 .. n : frames[i] \in FrameOf(nodes)
  BY FrameFacts
<1>2. /\ frames' \in Seq(FrameOf(nodes)) /\ Len(frames') = n - 1 /\ DOMAIN frames' = 1 .. n - 1
      /\ \A i \in 1 .. n - 1 : frames'[i] = frames[i]
  BY <1>1, SubSeqProperties, LenProperties DEF OnPath, Front
<1>3. \A i \in 1 .. n - 1 : i \in 1 .. n /\ i < n
  BY <1>1
<1>4. Walking' => n - 1 \in 1 .. n - 1 /\ frame' = frames[n - 1]
  BY <1>1, <1>2, EmptySeq DEF Walking, frame, Last
<1>5. Walking' => frames'[1].node = tree' /\ frames'[1].parent = None
  BY <1>1, <1>2, <1>4 DEF OnPath
<1>6. \A i \in 2 .. n - 1 : /\ frames'[i].node \in ChildNodes(frames'[i - 1].node)
                            /\ frames'[i].parent = frames'[i - 1].node
  <2>1. \A i \in 2 .. n - 1 : i \in 1 .. n - 1 /\ i - 1 \in 1 .. n - 1 /\ i \in 2 .. n
    BY <1>1
  <2> QED
    BY <1>2, <2>1 DEF OnPath
<1>7. \A i \in 1 .. n - 1 : /\ frames'[i].at = "children"
                            /\ frames'[i].todo \in Seq(ChildNodes(frames'[i].node))
  BY <1>1, <1>2, <1>3 DEF OnPath
<1> QED
  BY <1>1, <1>2, <1>3, <1>4, <1>5, <1>6, <1>7 DEF OnPath

LEMMA PushKeepsPath ==
  ASSUME NEW nodes, Whole(nodes), OnPath(nodes), Walking, tree' = tree,
         frame.at = "children", frame.todo # <<>>,
         frames' = Append([frames EXCEPT ![Len(frames)].todo = Tail(@)],
                          Frame(Head(frame.todo), frame.node))
  PROVE  /\ OnPath(nodes)' /\ Walking' /\ Len(frames') = Len(frames) + 1
         /\ frame'.at = "enter"
         /\ \A i \in 1 .. Len(frames) : frames'[i].node = frames[i].node
<1> DEFINE n == Len(frames)
           below == [frame EXCEPT !.todo = Tail(@)]
           child == Head(frame.todo)
           top == Frame(child, frame.node)
           old == [frames EXCEPT ![n] = below]
<1>1. /\ n \in Nat \ {0} /\ DOMAIN frames = 1 .. n
      /\ \A i \in 1 .. n : frames[i] \in FrameOf(nodes)
      /\ frame = frames[n] /\ frame \in FrameOf(nodes)
  BY FrameFacts
<1>2. /\ frame.todo \in Seq(ChildNodes(frame.node)) /\ frame.node \in nodes
      /\ ChildNodes(frame.node) \subseteq nodes
  <2>1. frame.todo \in Seq(ChildNodes(frame.node))
    BY <1>1 DEF OnPath
  <2>2. frame.node \in nodes
    BY <1>1 DEF FrameOf
  <2> QED
    BY <2>1, <2>2 DEF Whole
<1>3. child \in ChildNodes(frame.node) /\ Tail(frame.todo) \in Seq(ChildNodes(frame.node))
  BY <1>2, HeadTailProperties
<1>4. Tail(frame.todo) \in Seq(nodes)
  BY <1>2, <1>3, SeqMonotonic
<1>5. /\ below \in FrameOf(nodes) /\ below.node = frame.node /\ below.parent = frame.parent
      /\ below.at = "children" /\ below.todo = Tail(frame.todo)
  BY <1>1, <1>4 DEF FrameOf
<1>6. /\ top \in FrameOf(nodes) /\ top.node = child /\ top.parent = frame.node
      /\ top.at = "enter" /\ top.todo = <<>>
  BY <1>2, <1>3, EmptySeq DEF Frame, FrameOf
<1>7. frames' = Append(old, top)
  BY <1>1
<1> HIDE DEF below, child, top
<1>8. old \in Seq(FrameOf(nodes)) /\ Len(old) = n /\ \A i \in 1 .. n : old[i] = IF i = n THEN below ELSE frames[i]
  BY <1>1, <1>5, ExceptSeq, LenProperties DEF OnPath
<1> HIDE DEF old
<1>9. /\ frames' \in Seq(FrameOf(nodes)) /\ Len(frames') = n + 1 /\ DOMAIN frames' = 1 .. n + 1
      /\ frames'[n + 1] = top /\ \A i \in 1 .. n : frames'[i] = old[i]
  <2>1. /\ frames' \in Seq(FrameOf(nodes)) /\ Len(frames') = n + 1 /\ frames'[n + 1] = top
        /\ \A i \in 1 .. n : frames'[i] = old[i]
    <3> DEFINE new == Append(old, top)
    <3>1. /\ new \in Seq(FrameOf(nodes)) /\ Len(new) = Len(old) + 1 /\ new[Len(old) + 1] = top
          /\ \A i \in 1 .. Len(old) : new[i] = old[i]
      BY <1>6, <1>8, AppendProperties
    <3> HIDE DEF n, new
    <3> QED
      BY <1>7, <1>8, <3>1 DEF new
  <2> QED
    BY <2>1, LenProperties
<1>10. \A i \in 1 .. n : frames'[i].node = frames[i].node /\ frames'[i].parent = frames[i].parent
  BY <1>1, <1>5, <1>8, <1>9
<1>11. Walking' /\ frame' = top
  <2>1. frames' # <<>> /\ frame' = frames'[n + 1]
    <3> HIDE DEF n
    <3> QED
      BY <1>1, <1>9, EmptySeq DEF frame, Last
  <2> QED
    BY <1>9, <2>1 DEF Walking
<1>12. frames'[1].node = tree' /\ frames'[1].parent = None
  BY <1>1, <1>10 DEF OnPath
<1>13. ASSUME NEW i \in 2 .. n + 1
       PROVE  /\ frames'[i].node \in ChildNodes(frames'[i - 1].node)
              /\ frames'[i].parent = frames'[i - 1].node
  <2>1. i - 1 \in 1 .. n /\ frames'[i - 1].node = frames[i - 1].node
    <3> HIDE DEF n
    <3>1. i - 1 \in 1 .. n
      BY <1>1
    <3> QED
      BY <1>10, <3>1
  <2>2. CASE i = n + 1
    <3>1. i - 1 = n /\ frames[n].node = frame.node
      BY <1>1, <2>2
    <3>2. frames'[i].node \in ChildNodes(frame.node) /\ frames'[i].parent = frame.node
      BY <1>3, <1>6, <1>9, <2>2
    <3> QED
      BY <2>1, <3>1, <3>2
  <2>3. CASE i # n + 1
    <3>1. i \in 2 .. n /\ i \in 1 .. n
      BY <1>1, <2>3
    <3>2. frames[i].node \in ChildNodes(frames[i - 1].node) /\ frames[i].parent = frames[i - 1].node
      BY <3>1 DEF OnPath
    <3> QED
      BY <1>10, <2>1, <3>1, <3>2
  <2> QED
    BY <2>2, <2>3
<1>14. \A i \in 1 .. n + 1 : i < n + 1 => frames'[i].at = "children"
  <2>1. \A i \in 1 .. n : i < n => frames[i].at = "children"
    BY <1>1 DEF OnPath
  <2> HIDE DEF n
  <2>2. \A i \in 1 .. n : frames'[i].at = "children"
    BY <1>1, <1>5, <1>8, <1>9, <2>1
  <2> QED
    BY <1>1, <2>2
<1>15. \A i \in 1 .. n + 1 : frames'[i].todo \in Seq(ChildNodes(frames'[i].node))
  <2>1. \A i \in 1 .. n + 1 : i = n + 1 \/ i \in 1 .. n
    BY <1>1
  <2>2. frames'[n + 1].todo \in Seq(ChildNodes(frames'[n + 1].node))
    BY <1>6, <1>9, EmptySeq
  <2>3. \A i \in 1 .. n : frames'[i].todo \in Seq(ChildNodes(frames'[i].node))
    <3> SUFFICES ASSUME NEW i \in 1 .. n
                 PROVE  frames'[i].todo \in Seq(ChildNodes(frames'[i].node))
      OBVIOUS
    <3>1. frames'[i] = IF i = n THEN below ELSE frames[i]
      BY ONLY <1>8, <1>9
    <3>2. frames[i].todo \in Seq(ChildNodes(frames[i].node))
      BY <1>1 DEF OnPath
    <3> QED
      BY ONLY <1>3, <1>5, <3>1, <3>2
  <2> QED
    BY <2>1, <2>2, <2>3
<1> QED
  BY <1>6, <1>9, <1>10, <1>11, <1>12, <1>13, <1>14, <1>15 DEF OnPath
-----------------------------------------------------------------------------
(* What a step does to the calls *)

LEMMA PathNodes ==
  ASSUME NEW nodes, Whole(nodes), OnPath(nodes), Walking
  PROVE  /\ frame.node \in nodes /\ frame.parent \in nodes \cup {None}
         /\ IF frame.parent = None THEN frame.node = tree
            ELSE frame.node \in ChildNodes(frame.parent)
<1> DEFINE n == Len(frames)
<1>1. /\ n \in Nat \ {0} /\ frame = frames[n] /\ frame \in FrameOf(nodes)
      /\ \A i \in 1 .. n : frames[i] \in FrameOf(nodes)
  BY FrameFacts
<1>2. n = 1 => frame.node = tree /\ frame.parent = None
  BY <1>1 DEF OnPath
<1>3. ASSUME n # 1
      PROVE  frame.node \in ChildNodes(frame.parent) /\ frame.parent # None
  <2>1. n \in 2 .. n /\ n - 1 \in 1 .. n
    <3> HIDE DEF n
    <3> QED
      BY <1>1, <1>3
  <2>2. frame.node \in ChildNodes(frame.parent) /\ frame.parent = frames[n - 1].node
    BY <1>1, <2>1 DEF OnPath
  <2>3. frames[n - 1].node \in nodes
    BY <1>1, <2>1 DEF FrameOf
  <2>4. None \notin nodes
    BY KeysAssumption DEF Whole, IsNode, Tag
  <2> QED
    BY <2>2, <2>3, <2>4
<1> QED
  BY <1>1, <1>2, <1>3 DEF FrameOf

Callback == {"enter", "handler", "leave"}
CallNow(callback, result) ==
  [callback |-> callback, node |-> frame.node, parent |-> frame.parent, result |-> result]

(* A callback is noted with the node and the parent of its frame; and with *)
(* "break" it is the last.                                                 *)
LEMMA NoteKeeps ==
  ASSUME NEW nodes, Whole(nodes), OnPath(nodes), WalkTypeOK(nodes), BreakIsLast, ParentEncloses,
         Walking, tree' = tree, NEW callback \in Callback, NEW has, NEW result \in Answers(has),
         Note(callback, result), result = "break" => ~Walking'
  PROVE  /\ log' \in Seq(Call(nodes)) /\ BreakIsLast' /\ ParentEncloses'
         /\ ~has => log' = log
         /\ has => OpenNodes(log') = OpenAfter(CallNow(callback, result), OpenNodes(log))
<1> DEFINE call == CallNow(callback, result)
           m == Len(log)
<1>1. /\ result \in {"no call", "continue", "skip", "break"}
      /\ result = "no call" <=> ~has
  BY DEF Answers
<1>2. CASE result = "no call"
  <2>1. log' = log
    BY <1>2 DEF Note
  <2>2. BreakIsLast'
    <3>1. \A i \in DOMAIN log : log[i].result # "break"
      BY DEF BreakIsLast
    <3> QED
      BY <2>1, <3>1 DEF BreakIsLast
  <2>3. ParentEncloses'
    BY <2>1 DEF ParentEncloses
  <2> QED
    BY <1>1, <1>2, <2>1, <2>2, <2>3 DEF WalkTypeOK
<1>3. CASE result # "no call"
  <2>1. log' = Append(log, call)
    BY <1>3 DEF Note, CallNow
  <2>2. /\ frame.node \in nodes /\ frame.parent \in nodes \cup {None}
        /\ IF frame.parent = None THEN frame.node = tree
           ELSE frame.node \in ChildNodes(frame.parent)
    BY PathNodes
  <2>3. /\ call \in Call(nodes) /\ call.node = frame.node /\ call.parent = frame.parent
        /\ call.result = result
    BY <1>1, <1>3, <2>2 DEF Call, Callback, CallNow
  <2> HIDE DEF call
  <2>4. log \in Seq(Call(nodes)) /\ m \in Nat /\ DOMAIN log = 1 .. m
    BY LenProperties DEF WalkTypeOK
  <2>5. /\ log' \in Seq(Call(nodes)) /\ Len(log') = m + 1 /\ log'[m + 1] = call
        /\ \A i \in 1 .. m : log'[i] = log[i]
    BY <2>1, <2>3, <2>4, AppendProperties
  <2>6. DOMAIN log' = 1 .. m + 1 /\ \A i \in 1 .. m + 1 : i = m + 1 \/ i \in 1 .. m
    BY <2>4, <2>5, LenProperties
  <2>7. BreakIsLast'
    <3>1. \A i \in 1 .. m : log[i].result # "break"
      BY <2>4 DEF BreakIsLast
    <3>2. \A i \in 1 .. m : log'[i].result # "break"
      BY <2>5, <3>1
    <3>3. log'[m + 1].result = "break" => ~Walking'
      BY <2>3, <2>5
    <3> HIDE DEF m
    <3> QED
      BY <2>5, <2>6, <3>2, <3>3 DEF BreakIsLast
  <2>8. ParentEncloses'
    <3>1. \A i \in 1 .. m : IF log[i].parent = None THEN log[i].node = tree
                           ELSE log[i].node \in ChildNodes(log[i].parent)
      BY <2>4 DEF ParentEncloses
    <3>2. ASSUME NEW i \in 1 .. m + 1
          PROVE  IF log'[i].parent = None THEN log'[i].node = tree'
                 ELSE log'[i].node \in ChildNodes(log'[i].parent)
      <4>1. CASE i = m + 1
        BY <2>2, <2>3, <2>5, <4>1
      <4>2. CASE i \in 1 .. m
        BY <2>5, <3>1, <4>2
      <4> QED
        BY <2>6, <4>1, <4>2
    <3> QED
      BY <2>6, <3>2 DEF ParentEncloses
  <2>9. OpenNodes(log') = OpenAfter(call, OpenNodes(log))
    BY <2>1, <2>3, <2>4, OpenNodesStep
  <2> QED
    BY <1>1, <1>3, <2>5, <2>7, <2>8, <2>9 DEF call
<1> QED
  BY <1>2, <1>3
-----------------------------------------------------------------------------
(* The steps *)

LEMMA EnteredIs ==
  ASSUME NEW nodes, OnPath(nodes), Walking
  PROVE  /\ Front(frames) \in Seq(FrameOf(nodes)) /\ Len(Front(frames)) = Len(frames) - 1
         /\ \A i \in 1 .. Len(frames) - 1 : Front(frames)[i] = frames[i]
         /\ frame.at = "enter" => Entered = NodesOf(Front(frames))
         /\ frame.at # "enter" => Entered = NodesOf(frames)
<1>1. frames \in Seq(FrameOf(nodes)) /\ Len(frames) \in Nat \ {0}
  BY FrameFacts DEF OnPath
<1>2. frame.at = "enter" => Entered = NodesOf(Front(frames))
  BY DEF Entered
<1>3. frame.at # "enter" => Entered = NodesOf(frames)
  BY DEF Entered
<1> DEFINE n == Len(frames)
<1>4. /\ SubSeq(frames, 1, n - 1) \in Seq(FrameOf(nodes)) /\ Len(SubSeq(frames, 1, n - 1)) = n - 1
      /\ \A i \in 1 .. n - 1 : SubSeq(frames, 1, n - 1)[i] = frames[i]
  <2>1. \A i \in 1 .. n - 1 : frames[i] \in FrameOf(nodes)
    BY <1>1, ElementOfSeq
  <2> HIDE DEF n
  <2>2. n \in Nat \ {0}
    BY <1>1 DEF n
  <2> QED
    BY <2>1, <2>2, SubSeqProperties
<1> QED
  BY <1>2, <1>3, <1>4 DEF Front

(* A frame whose node has been entered has it last among the open ones.    *)
LEMMA EnteredGrows ==
  ASSUME NEW nodes, Whole(nodes), OnPath(nodes), Walking, NEW s \in Seq(FrameOf(nodes)),
         Len(s) = Len(frames), \A i \in 1 .. Len(frames) : s[i].node = frames[i].node
  PROVE  NodesOf(s) = Append(NodesOf(Front(frames)), frame.node)
<1> DEFINE n == Len(frames)
           below == NodesOf(Front(frames))
           open == Append(below, frame.node)
<1>1. n \in Nat \ {0} /\ frame = frames[n] /\ frame.node \in nodes
  BY FrameFacts, PathNodes
<1>2. /\ below \in Open(nodes) /\ Len(below) = n - 1
      /\ \A i \in 1 .. n - 1 : below[i] = frames[i].node
  <2>1. Front(frames) \in Seq(FrameOf(nodes)) /\ Len(Front(frames)) = n - 1
        /\ \A i \in 1 .. n - 1 : Front(frames)[i] = frames[i]
    BY EnteredIs
  <2> HIDE DEF n
  <2>2. \A i \in 1 .. n - 1 : below[i] = Front(frames)[i].node
    BY <2>1, NodesOfType
  <2> QED
    BY <2>1, <2>2, NodesOfType
<1> HIDE DEF below
<1>3. open \in Open(nodes) /\ Len(open) = Len(below) + 1 /\ open[Len(below) + 1] = frame.node
      /\ \A i \in 1 .. Len(below) : open[i] = below[i]
  BY <1>1, <1>2, AppendProperties DEF Open
<1> HIDE DEF n, open
<1>4. Len(open) = n /\ open[n] = frame.node /\ \A i \in 1 .. n - 1 : open[i] = frames[i].node
  BY <1>1, <1>2, <1>3
<1>5. \A i \in 1 .. n : i = n \/ i \in 1 .. n - 1
  BY <1>1
<1>6. \A i \in 1 .. n : open[i] = s[i].node
  BY <1>1, <1>4, <1>5 DEF n
<1>7. NodesOf(s) = open
  BY <1>3, <1>4, <1>6, SameNodes DEF n
<1> QED
  BY <1>7 DEF open, below

LEMMA EnterNodeInv ==
  ASSUME NEW nodes, Whole(nodes), WalkInv(nodes), EnterNode
  PROVE  WalkInv(nodes)'
<1>1. PICK result \in Answers(visitor.enter) :
        /\ Note("enter", result)
        /\ \/ result = "break" /\ Unwind
           \/ result = "skip" /\ Goto("leave", <<>>) /\ UNCHANGED broken
           \/ result \notin {"break", "skip"} /\ Goto("handler", <<>>) /\ UNCHANGED broken
  BY DEF EnterNode
<1>2. /\ Walking /\ frame.at = "enter" /\ visitor' = visitor /\ tree' = tree
      /\ WalkTypeOK(nodes) /\ OnPath(nodes) /\ BreakIsLast /\ ParentEncloses /\ LeavesPaired
  BY DEF EnterNode, WalkInv
<1>3. ~broken /\ tree # None
  BY <1>2 DEF WalkTypeOK, Walking
<1>4. result = "break" => frames' = <<>> /\ broken'
  BY <1>1 DEF Unwind
<1>5. /\ log' \in Seq(Call(nodes)) /\ BreakIsLast' /\ ParentEncloses'
      /\ visitor.enter => OpenNodes(log') = OpenAfter(CallNow("enter", result), OpenNodes(log))
  BY <1>1, <1>2, <1>4, NoteKeeps DEF Callback, Walking
<1>6. OnPath(nodes)' /\ (broken' => ~Walking') /\ LeavesPaired'
  <2>1. CASE result = "break" /\ Unwind
    BY <2>1, EmptySeq DEF Unwind, OnPath, Walking, LeavesPaired
  <2>2. CASE ~(result = "break" /\ Unwind)
    <3>1. PICK at \in {"handler", "leave"} : Goto(at, <<>>) /\ broken' = broken
      BY <1>1, <2>2
    <3>2. <<>> \in Seq(ChildNodes(frame.node))
      BY EmptySeq
    <3>3. /\ OnPath(nodes)' /\ Walking' /\ Len(frames') = Len(frames) /\ frame'.at = at
          /\ \A i \in 1 .. Len(frames) : frames'[i].node = frames[i].node
      BY <1>2, <3>1, <3>2, GotoKeepsPath
    <3>4. NodesOf(frames') = Append(NodesOf(Front(frames)), frame.node)
      BY <1>2, <3>3, EnteredGrows DEF OnPath
    <3>5. Entered' = NodesOf(frames')
      BY <3>3 DEF Entered
    <3>6. visitor.enter /\ visitor.leave => OpenNodes(log) = NodesOf(Front(frames))
      BY <1>2, <1>3, EnteredIs DEF LeavesPaired
    <3>7. OpenAfter(CallNow("enter", result), NodesOf(Front(frames)))
            = Append(NodesOf(Front(frames)), frame.node)
      BY DEF OpenAfter, CallNow
    <3>8. LeavesPaired'
      BY <1>2, <1>5, <3>4, <3>5, <3>6, <3>7 DEF LeavesPaired
    <3> QED
      BY <1>3, <3>1, <3>3, <3>8
  <2> QED
    BY <2>1, <2>2
<1>7. WalkTypeOK(nodes)'
  BY <1>2, <1>3, <1>5, <1>6 DEF WalkTypeOK
<1> QED
  BY <1>5, <1>6, <1>7 DEF WalkInv

LEMMA HandleNodeInv ==
  ASSUME NEW nodes, Whole(nodes), WalkInv(nodes), HandleNode
  PROVE  WalkInv(nodes)'
<1> DEFINE has == frame.node.type \in visitor.nodes
<1>1. PICK result \in Answers(has) :
        /\ Note("handler", result)
        /\ \/ result = "break" /\ Unwind
           \/ result = "skip" /\ Goto("leave", <<>>) /\ UNCHANGED broken
           \/ /\ result \notin {"break", "skip"}
              /\ Goto("children", Children(frame.node))
              /\ UNCHANGED broken
  BY DEF HandleNode
<1>2. /\ Walking /\ frame.at = "handler" /\ visitor' = visitor /\ tree' = tree
      /\ WalkTypeOK(nodes) /\ OnPath(nodes) /\ BreakIsLast /\ ParentEncloses /\ LeavesPaired
  BY DEF HandleNode, WalkInv
<1>3. ~broken /\ tree # None
  BY <1>2 DEF WalkTypeOK, Walking
<1>4. result = "break" => frames' = <<>> /\ broken'
  BY <1>1 DEF Unwind
<1> HIDE DEF has
<1>5. /\ log' \in Seq(Call(nodes)) /\ BreakIsLast' /\ ParentEncloses'
      /\ ~has => log' = log
      /\ has => OpenNodes(log') = OpenAfter(CallNow("handler", result), OpenNodes(log))
  BY <1>1, <1>2, <1>4, NoteKeeps DEF Callback, Walking
<1>6. OpenNodes(log') = OpenNodes(log)
  BY <1>5 DEF OpenAfter, CallNow
<1>7. OnPath(nodes)' /\ (broken' => ~Walking') /\ LeavesPaired'
  <2>1. CASE result = "break" /\ Unwind
    BY <2>1, EmptySeq DEF Unwind, OnPath, Walking, LeavesPaired
  <2>2. CASE ~(result = "break" /\ Unwind)
    <3>1. Children(frame.node) \in Seq(ChildNodes(frame.node)) /\ <<>> \in Seq(ChildNodes(frame.node))
      BY <1>2, PathNodes, ChildrenBelow, EmptySeq DEF WalkTypeOK
    <3>2. PICK at \in {"children", "leave"}, todo \in Seq(ChildNodes(frame.node)) :
            Goto(at, todo) /\ broken' = broken
      BY <1>1, <2>2, <3>1
    <3>3. /\ OnPath(nodes)' /\ Walking' /\ Len(frames') = Len(frames) /\ frame'.at = at
          /\ \A i \in 1 .. Len(frames) : frames'[i].node = frames[i].node
      BY <1>2, <3>2, GotoKeepsPath
    <3>4. NodesOf(frames') = NodesOf(frames)
      <4>1. NodesOf(frames') = Append(NodesOf(Front(frames)), frame.node)
        BY <1>2, <3>3, EnteredGrows DEF OnPath
      <4>2. NodesOf(frames) = Append(NodesOf(Front(frames)), frame.node)
        BY <1>2, EnteredGrows DEF OnPath
      <4> QED
        BY <4>1, <4>2
    <3>5. Entered' = NodesOf(frames') /\ Entered = NodesOf(frames)
      BY <1>2, <3>3 DEF Entered
    <3>6. LeavesPaired'
      BY <1>2, <1>3, <1>6, <3>4, <3>5 DEF LeavesPaired
    <3> QED
      BY <1>3, <3>2, <3>3, <3>6
  <2> QED
    BY <2>1, <2>2
<1>8. WalkTypeOK(nodes)'
  BY <1>2, <1>3, <1>5, <1>7 DEF WalkTypeOK
<1> QED
  BY <1>5, <1>7, <1>8 DEF WalkInv

LEMMA VisitChildInv ==
  ASSUME NEW nodes, Whole(nodes), WalkInv(nodes), VisitChild
  PROVE  WalkInv(nodes)'
<1>1. /\ Walking /\ frame.at = "children" /\ frame.todo # <<>>
      /\ frames' = Append([frames EXCEPT ![Len(frames)].todo = Tail(@)],
                          Frame(Head(frame.todo), frame.node))
      /\ visitor' = visitor /\ tree' = tree /\ log' = log /\ broken' = broken
      /\ WalkTypeOK(nodes) /\ OnPath(nodes) /\ BreakIsLast /\ ParentEncloses /\ LeavesPaired
  BY DEF VisitChild, WalkInv
<1>2. ~broken /\ tree # None
  BY <1>1 DEF WalkTypeOK, Walking
<1>3. /\ OnPath(nodes)' /\ Walking' /\ Len(frames') = Len(frames) + 1 /\ frame'.at = "enter"
      /\ \A i \in 1 .. Len(frames) : frames'[i].node = frames[i].node
  BY <1>1, PushKeepsPath
<1>4. NodesOf(Front(frames)') = NodesOf(frames)
  <2> DEFINE n == Len(frames)
             rest == Front(frames)'
  <2>1. n \in Nat /\ frames \in Seq(FrameOf(nodes))
    BY <1>1, FrameFacts DEF OnPath
  <2>2. /\ rest \in Seq(FrameOf(nodes)) /\ Len(rest) = n
        /\ \A i \in 1 .. n : rest[i] = frames'[i]
    <3>1. frames' \in Seq(FrameOf(nodes)) /\ n \in 0 .. Len(frames') /\ Len(frames') - 1 = n
      BY <1>3, <2>1 DEF OnPath
    <3> QED
      BY <2>1, <3>1, SubSeqProperties DEF Front
  <2> HIDE DEF rest
  <2>3. \A i \in 1 .. n : rest[i].node = frames[i].node
    BY <1>3, <2>2
  <2>4. /\ NodesOf(rest) \in Open(nodes) /\ Len(NodesOf(rest)) = n
        /\ \A i \in 1 .. n : NodesOf(rest)[i] = rest[i].node
    BY <2>2, NodesOfType
  <2>5. NodesOf(frames) = NodesOf(rest)
    <3>1. \A i \in 1 .. n : NodesOf(rest)[i] = frames[i].node
      BY <2>3, <2>4
    <3> QED
      BY <2>1, <2>4, <3>1, SameNodes
  <2> QED
    BY <2>5 DEF rest
<1>5. Entered' = NodesOf(Front(frames)') /\ Entered = NodesOf(frames)
  BY <1>1, <1>3 DEF Entered
<1>6. LeavesPaired'
  BY <1>1, <1>2, <1>4, <1>5 DEF LeavesPaired
<1>7. BreakIsLast'
  BY <1>1 DEF BreakIsLast
<1>8. ParentEncloses' /\ WalkTypeOK(nodes)'
  BY <1>1, <1>2 DEF ParentEncloses, WalkTypeOK
<1> QED
  BY <1>3, <1>6, <1>7, <1>8 DEF WalkInv

LEMMA LeaveNodeInv ==
  ASSUME NEW nodes, Whole(nodes), WalkInv(nodes), LeaveNode
  PROVE  WalkInv(nodes)'
<1>1. PICK result \in Answers(visitor.leave) :
        /\ Note("leave", result)
        /\ \/ result = "break" /\ Unwind
           \/ result # "break" /\ frames' = Front(frames) /\ UNCHANGED broken
  BY DEF LeaveNode
<1>2. /\ Walking /\ frame.at # "enter" /\ visitor' = visitor /\ tree' = tree
      /\ WalkTypeOK(nodes) /\ OnPath(nodes) /\ BreakIsLast /\ ParentEncloses /\ LeavesPaired
  BY DEF LeaveNode, WalkInv
<1>3. ~broken /\ tree # None
  BY <1>2 DEF WalkTypeOK, Walking
<1>4. result = "break" => frames' = <<>> /\ broken'
  BY <1>1 DEF Unwind
<1>5. /\ log' \in Seq(Call(nodes)) /\ BreakIsLast' /\ ParentEncloses'
      /\ visitor.leave => OpenNodes(log') = OpenAfter(CallNow("leave", result), OpenNodes(log))
  BY <1>1, <1>2, <1>4, NoteKeeps DEF Callback, Walking
<1>6. OnPath(nodes)' /\ (broken' => ~Walking') /\ LeavesPaired'
  <2>1. CASE result = "break" /\ Unwind
    BY <2>1, EmptySeq DEF Unwind, OnPath, Walking, LeavesPaired
  <2>2. CASE frames' = Front(frames) /\ broken' = broken
    <3>1. /\ OnPath(nodes)' /\ Len(frames') = Len(frames) - 1
          /\ \A i \in 1 .. Len(frames') : frames'[i] = frames[i]
          /\ Walking' => frame'.at = "children"
      BY <1>2, <2>2, PopKeepsPath
    <3> DEFINE below == NodesOf(Front(frames))
    <3>2. NodesOf(frames) = Append(below, frame.node)
      BY <1>2, EnteredGrows DEF OnPath
    <3>3. below \in Open(nodes) /\ frame.node \in nodes \cup {None}
      BY <1>2, EnteredIs, NodesOfType, PathNodes
    <3>4. OpenAfter(CallNow("leave", result), Append(below, frame.node)) = below
      <4> DEFINE open == Append(below, frame.node)
                 call == CallNow("leave", result)
      <4>1. /\ open \in Open(nodes) /\ Len(open) = Len(below) + 1 /\ open[Len(below) + 1] = frame.node
            /\ \A i \in 1 .. Len(below) : open[i] = below[i]
        BY <3>3, AppendProperties DEF Open
      <4>2. Len(below) \in Nat /\ below \in Seq(nodes \cup {None}) /\ open \in Seq(nodes \cup {None})
        BY <3>3, <4>1, LenProperties DEF Open
      <4>3. call.callback = "leave" /\ call.node = frame.node
        BY DEF CallNow
      <4> HIDE DEF open, below, call
      <4>4. open # <<>> /\ Last(open) = frame.node
        BY <4>1, <4>2, EmptySeq DEF Last
      <4>5. /\ Front(open) \in Seq(nodes \cup {None}) /\ Len(Front(open)) = Len(below)
            /\ \A i \in 1 .. Len(below) : Front(open)[i] = open[i]
        BY <4>1, <4>2, SubSeqProperties DEF Front
      <4>6. Front(open) = below
        BY <4>1, <4>2, <4>5, SeqEqual
      <4>7. OpenAfter(call, open) = below
        BY <4>3, <4>4, <4>6 DEF OpenAfter
      <4> QED
        BY <4>7 DEF open, call
    <3>5. Entered' = below /\ Entered = NodesOf(frames)
      BY <1>2, <2>2, <3>1 DEF Entered
    <3>6. LeavesPaired'
      BY <1>2, <1>3, <1>5, <3>2, <3>4, <3>5 DEF LeavesPaired
    <3> QED
      BY <1>3, <2>2, <3>1, <3>6
  <2> QED
    BY <1>1, <2>1, <2>2
<1>7. WalkTypeOK(nodes)'
  BY <1>2, <1>3, <1>5, <1>6 DEF WalkTypeOK
<1> QED
  BY <1>5, <1>6, <1>7 DEF WalkInv

LEMMA traverseInv ==
  ASSUME NEW nodes, Whole(nodes), NEW node \in nodes, \A v \in Visitors(node) : KeysFit(v),
         WalkInv(nodes), traverse(node)
  PROVE  WalkInv(nodes)'
<1> DEFINE first == Frame(node, None)
<1>1. /\ frames = <<>> /\ log = <<>> /\ visitor' \in Visitors(node) /\ tree' = node
      /\ frames' = <<first>> /\ log' = <<>> /\ broken' = broken
      /\ log \in Seq(Call(nodes)) /\ LeavesPaired
  BY DEF traverse, WalkInv, WalkTypeOK
<1>2. /\ first \in FrameOf(nodes) /\ first.node = node /\ first.parent = None /\ first.at = "enter"
      /\ first.todo = <<>>
  BY EmptySeq DEF Frame, FrameOf
<1> HIDE DEF first
<1>3. /\ frames' \in Seq(FrameOf(nodes)) /\ Len(frames') = 1 /\ frames'[1] = first /\ DOMAIN frames' = {1}
      /\ frames' # <<>>
  BY <1>1, <1>2
<1>4. OnPath(nodes)' /\ Walking' /\ frame'.at = "enter"
  <2>1. <<>> \in Seq(ChildNodes(node))
    BY EmptySeq
  <2>2. frame' = first
    BY <1>3 DEF frame, Last
  <2>3. frames'[1].todo \in Seq(ChildNodes(frames'[1].node))
    BY <1>2, <1>3, <2>1
  <2>4. ~(1 < Len(frames')) /\ 2 .. Len(frames') = {}
    BY <1>3
  <2>5. OnPath(nodes)'
    BY <1>1, <1>2, <1>3, <2>3, <2>4 DEF OnPath
  <2> QED
    BY <1>2, <1>3, <2>2, <2>5 DEF Walking
<1>5. BreakIsLast' /\ ParentEncloses' /\ log' \in Seq(Call(nodes))
  BY <1>1 DEF BreakIsLast, ParentEncloses
<1>6. tree' # None /\ tree' \in nodes
  BY <1>1, KeysAssumption DEF Whole, IsNode, Tag
<1>7. LeavesPaired'
  <2>1. OpenNodes(<<>>) = <<>>
    <3>1. <<>> \in Seq(Call(nodes)) /\ Len(<<>>) = 0
      BY EmptySeq
    <3>2. \E open \in [0 .. Len(<<>>) -> Open(nodes)] :
            OpenNodes(<<>>) = open[Len(<<>>)] /\ open[0] = <<>>
      BY ONLY <3>1, OpenNodesRuns
    <3> QED
      BY ONLY <3>1, <3>2
  <2>2. Entered' = NodesOf(Front(frames)')
    BY <1>4 DEF Entered
  <2>3. Front(frames)' = <<>>
    BY <1>3, SubSeqEmpty DEF Front
  <2>4. NodesOf(<<>>) = <<>>
    <3>1. <<>> \in Seq(FrameOf(nodes)) /\ Len(<<>>) = 0
      BY EmptySeq
    <3>2. NodesOf(<<>>) \in Seq(nodes \cup {None}) /\ Len(NodesOf(<<>>)) = 0
      BY <3>1, NodesOfType DEF Open
    <3> QED
      BY <3>2, EmptySeq
  <2> QED
    BY <1>1, <2>1, <2>2, <2>3, <2>4 DEF LeavesPaired
<1>8. ~broken'
  BY <1>1 DEF traverse, WalkInv, WalkTypeOK
<1>9. WalkTypeOK(nodes)'
  BY <1>1, <1>5, <1>6, <1>8 DEF WalkTypeOK
<1> QED
  BY <1>4, <1>5, <1>7, <1>9 DEF WalkInv

LEMMA WalkInitInv ==
  ASSUME NEW nodes, WalkInit
  PROVE  WalkInv(nodes)
<1>1. frames = <<>> /\ log = <<>> /\ tree = None /\ ~broken /\ visitor.enter = FALSE /\ visitor.keys = <<>>
  BY DEF WalkInit, Plain
<1>2. KeysFit(visitor)
  BY <1>1 DEF KeysFit
<1>3. OnPath(nodes)
  BY <1>1, EmptySeq DEF OnPath, Walking
<1> QED
  BY <1>1, <1>2, <1>3, EmptySeq
  DEF WalkInv, WalkTypeOK, Walking, BreakIsLast, ParentEncloses, LeavesPaired

(* Walks over the nodes of whole trees, with visitors whose keys fit them. *)
Walks(nodes) == Whole(nodes) /\ \A node \in nodes : \A v \in Visitors(node) : KeysFit(v)

LEMMA WalkNextInv ==
  ASSUME NEW nodes, Walks(nodes), WalkInv(nodes),
         [(\E node \in nodes : traverse(node)) \/ WalkStep]_walkVars
  PROVE  WalkInv(nodes)'
<1>1. CASE \E node \in nodes : traverse(node)
  BY <1>1, traverseInv DEF Walks
<1>2. CASE WalkStep
  BY <1>2, EnterNodeInv, HandleNodeInv, VisitChildInv, LeaveNodeInv DEF WalkStep, Walks
<1>3. CASE UNCHANGED walkVars
  BY <1>3 DEF walkVars, WalkInv, WalkTypeOK, OnPath, BreakIsLast, ParentEncloses, LeavesPaired,
    Walking, Entered, frame
<1> QED
  BY <1>1, <1>2, <1>3
-----------------------------------------------------------------------------
(* The stack of every walk is a path of the tree, and no call of the       *)
(* visitor is out of place on it.                                          *)
THEOREM WalkInvariant ==
  ASSUME NEW nodes, Walks(nodes)
  PROVE  TraverseSpec(nodes) => []WalkInv(nodes)
<1>1. WalkInit => WalkInv(nodes)
  BY WalkInitInv
<1>2. WalkInv(nodes) /\ [(\E node \in nodes : traverse(node)) \/ WalkStep]_walkVars => WalkInv(nodes)'
  BY WalkNextInv
<1> QED
  BY <1>1, <1>2, PTL DEF TraverseSpec

(* Leave comes for what was entered, in reverse order, also around skipped *)
(* nodes, and every callback gets the nearest node around its own as its   *)
(* parent: for every tree, every visitor and all its answers.              *)
THEOREM CallsAlwaysNest ==
  ASSUME NEW nodes, Walks(nodes)
  PROVE  TraverseSpec(nodes) => []CallsNest
<1>1. WalkInv(nodes) => CallsNest
  BY DEF WalkInv, CallsNest
<1> QED
  BY <1>1, WalkInvariant, PTL

(* After a "break" the visitor is not called again, on no level.           *)
THEOREM BreakAlwaysLast ==
  ASSUME NEW nodes, Walks(nodes)
  PROVE  TraverseSpec(nodes) => []BreakIsLast
<1>1. WalkInv(nodes) => BreakIsLast
  BY DEF WalkInv
<1> QED
  BY <1>1, WalkInvariant, PTL
=============================================================================
