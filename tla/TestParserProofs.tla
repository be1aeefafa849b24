-------------------------- MODULE TestParserProofs --------------------------
(***************************************************************************)
(* Where the lines of a `.test` file go, for every file: proofs about      *)
(* parseTest, called with trivia and then without.                         *)
(***************************************************************************)
EXTENDS TestParserTwice, RecursionLemmas

(* What InOrder returns.                                                   *)
Increasing(s) == \A a, b \in 1 .. Len(s) : a < b => s[a] < s[b]

(* InOrder has the members of the set, in order.                           *)
LEMMA InOrderIs ==
  ASSUME NEW last \in Nat, NEW numbers, numbers \subseteq 1 .. last
  PROVE  /\ InOrder(numbers, last) \in Seq(numbers)
         /\ ToSet(InOrder(numbers, last)) = numbers
         /\ Increasing(InOrder(numbers, last))
<1> DEFINE seqs == [n \in 1 .. last |-> IF n \in numbers THEN <<n>> ELSE <<>>]
<1>1. /\ seqs \in Seq(Seq(numbers)) /\ Len(seqs) = last
      /\ \A n \in 1 .. last : seqs[n] = IF n \in numbers THEN <<n>> ELSE <<>>
  <2>1. \A n \in 1 .. last : (IF n \in numbers THEN <<n>> ELSE <<>>) \in Seq(numbers)
    OBVIOUS
  <2> QED
    BY <2>1
<1>2. InOrder(numbers, last) = FlattenSeq(seqs)
  BY DEF InOrder
<1> HIDE DEF seqs
<1> DEFINE IsIn(s) == \A a \in 1 .. Len(s) : s[a] \in numbers /\ s[a] \in Int
<1>a. \A s \in Seq(numbers) : Len(s) \in Nat /\ IsIn(s)
  <2>1. \A n \in numbers : n \in Int
    OBVIOUS
  <2> QED
    BY ONLY <2>1, LenProperties, ElementOfSeq
<1>b. \A s \in Seq(numbers) : \A n \in numbers :
        /\ s \o <<n>> = Append(s, n)
        /\ Len(Append(s, n)) = Len(s) + 1
        /\ \A a \in 1 .. Len(s) : Append(s, n)[a] = s[a]
        /\ Append(s, n)[Len(s) + 1] = n
  OBVIOUS
<1>3. ToSet(FlattenSeq(seqs)) = numbers
  <2>1. ToSet(FlattenSeq(seqs)) = UNION {ToSet(seqs[n]) : n \in 1 .. last}
    BY ONLY <1>1, FlattenedSet
  <2>2. \A n : ToSet(<<n>>) = {n}
    BY DEF ToSet
  <2>3. ToSet(<<>>) = {}
    BY DEF ToSet
  <2>4. \A n \in 1 .. last : ToSet(seqs[n]) = IF n \in numbers THEN {n} ELSE {}
    BY ONLY <1>1, <2>2, <2>3
  <2>5. \A n \in numbers : n \in 1 .. last
    OBVIOUS
  <2>6. ASSUME NEW k
        PROVE  k \in numbers <=> \E n \in 1 .. last : k \in ToSet(seqs[n])
    BY ONLY <2>4, <2>5
  <2> QED
    BY ONLY <2>1, <2>6
<1>4. PICK f : FlattensTo(f, seqs, numbers) /\ FlattenSeq(seqs) = f[last]
  BY <1>1, FlattenRuns
<1>5. /\ f \in [0 .. last -> Seq(numbers)] /\ f[0] = <<>>
      /\ \A n \in 1 .. last : f[n] = f[n - 1] \o seqs[n]
  BY <1>1, <1>4 DEF FlattensTo
<1> DEFINE T == {n \in 0 .. last : Increasing(f[n]) /\ \A a \in 1 .. Len(f[n]) : f[n][a] <= n}
<1>6. 0 \in T
  <2>1. Len(<<>>) = 0 /\ 0 \in 0 .. last
    OBVIOUS
  <2> QED
    BY <1>5, <2>1 DEF Increasing
<1>7. ASSUME NEW n \in 1 .. last, n - 1 \in T
      PROVE  n \in T
  <2>1. n - 1 \in 0 .. last /\ n \in 0 .. last
    OBVIOUS
  <2>2. f[n - 1] \in Seq(numbers) /\ f[n] = f[n - 1] \o seqs[n]
    <3> HIDE DEF T
    <3> QED
      BY <1>5, <2>1
  <2>3. Increasing(f[n - 1]) /\ \A a \in 1 .. Len(f[n - 1]) : f[n - 1][a] <= n - 1
    BY <1>7
  <2>4. CASE n \in numbers
    <3>1. f[n] = Append(f[n - 1], n)
      <4>1. seqs[n] = <<n>>
        BY ONLY <1>1, <2>4, n \in 1 .. last
      <4> QED
        BY ONLY <1>b, <2>2, <2>4, <4>1
    <3>2. /\ Len(f[n]) = Len(f[n - 1]) + 1
          /\ \A a \in 1 .. Len(f[n - 1]) : f[n][a] = f[n - 1][a] /\ f[n - 1][a] \in Int
          /\ f[n][Len(f[n - 1]) + 1] = n
          /\ Len(f[n - 1]) \in Nat
      <4>1. Len(f[n - 1]) \in Nat /\ IsIn(f[n - 1])
        BY ONLY <1>a, <2>2
      <4>2. /\ Len(f[n]) = Len(f[n - 1]) + 1
            /\ \A a \in 1 .. Len(f[n - 1]) : f[n][a] = f[n - 1][a]
            /\ f[n][Len(f[n - 1]) + 1] = n
        BY ONLY <1>b, <2>2, <2>4, <3>1
      <4> QED
        BY ONLY <4>1, <4>2
    <3>3. \A a \in 1 .. Len(f[n]) : a \in 1 .. Len(f[n - 1]) \/ a = Len(f[n - 1]) + 1
      BY ONLY <3>2
    <3>4. \A a \in 1 .. Len(f[n]) : f[n][a] <= n
      BY ONLY <2>3, <3>2, <3>3, n \in 1 .. last, last \in Nat
    <3>5. Increasing(f[n])
      <4> SUFFICES ASSUME NEW a \in 1 .. Len(f[n]), NEW b \in 1 .. Len(f[n]), a < b
                   PROVE  f[n][a] < f[n][b]
        BY DEF Increasing
      <4>1. a \in 1 .. Len(f[n - 1])
        BY <3>2, <3>3
      <4>2. CASE b \in 1 .. Len(f[n - 1])
        BY <2>3, <3>2, <4>1, <4>2 DEF Increasing
      <4>3. CASE b = Len(f[n - 1]) + 1
        <5>1. f[n][a] <= n - 1 /\ f[n][a] \in Int /\ f[n][b] = n
          BY <2>3, <3>2, <4>1, <4>3
        <5> QED
          BY <5>1
      <4> QED
        BY <3>3, <4>2, <4>3
    <3> QED
      BY <2>1, <3>4, <3>5
  <2>5. CASE n \notin numbers
    <3>1. f[n] = f[n - 1]
      BY <1>1, <2>2, <2>5, ConcatEmptySeq
    <3>2. \A a \in 1 .. Len(f[n - 1]) : f[n - 1][a] \in Int
      BY ONLY <1>a, <2>2
    <3>3. \A a \in 1 .. Len(f[n - 1]) : f[n - 1][a] <= n
      BY ONLY <2>3, <3>2, n \in 1 .. last, last \in Nat
    <3> QED
      BY <2>1, <2>3, <3>1, <3>3
  <2> QED
    BY <2>4, <2>5
<1>8. \A n \in 0 .. last : n \in T
  <2>1. \A n \in 1 .. last : n - 1 \in T => n \in T
    BY <1>7
  <2> HIDE DEF T
  <2> QED
    BY ONLY <1>6, <2>1, last \in Nat, InductionTo
<1>9. Increasing(f[last]) /\ f[last] \in Seq(numbers)
  <2>1. last \in 0 .. last
    OBVIOUS
  <2> QED
    BY <1>5, <1>8, <2>1
<1> QED
  BY <1>2, <1>3, <1>4, <1>9
-----------------------------------------------------------------------------
(* The lines of the file, as preprocess returns them, are in order, and    *)
(* none is missing but the comments when they are not wanted.              *)

LinesOK(source, trivia, ls) ==
  /\ ls \in Seq([text : RawLine, line : 1 .. Len(source)])
  /\ \A n \in 1 .. Len(ls) : /\ ls[n].line \in 1 .. Len(source)
                             /\ ls[n].text = source[ls[n].line]
                             /\ trivia \/ ~IsComment(ls[n].text)
  /\ \A m, n \in 1 .. Len(ls) : m < n => ls[m].line < ls[n].line
  /\ \A k \in 1 .. Len(source) :
       trivia \/ ~IsComment(source[k]) => \E n \in 1 .. Len(ls) : ls[n].line = k

(* preprocess returns such lines.                                          *)
LEMMA LinesAre ==
  ASSUME NEW source \in Seq(RawLine), NEW trivia \in BOOLEAN
  PROVE  LinesOK(source, trivia, preprocess(source, trivia))
<1> DEFINE wanted == {n \in DOMAIN source : trivia \/ ~IsComment(source[n])}
           kept == Kept(source, trivia)
           ls == preprocess(source, trivia)
<1>1. Len(source) \in Nat /\ DOMAIN source = 1 .. Len(source)
  BY LenProperties
<1>2. wanted \subseteq 1 .. Len(source)
  BY <1>1
<1>3. kept = InOrder(wanted, Len(source))
  BY DEF Kept
<1> HIDE DEF wanted
<1>4. kept \in Seq(wanted) /\ ToSet(kept) = wanted /\ Increasing(kept)
  BY ONLY <1>1, <1>2, <1>3, InOrderIs
<1> HIDE DEF kept
<1>5. ls = [n \in 1 .. Len(kept) |-> [text |-> source[kept[n]], line |-> kept[n]]]
  BY DEF preprocess, kept
<1>6. /\ Len(kept) \in Nat /\ DOMAIN kept = 1 .. Len(kept)
      /\ \A n \in 1 .. Len(kept) : kept[n] \in wanted
  BY <1>4, LenProperties, ElementOfSeq
<1>7. \A n \in 1 .. Len(kept) : kept[n] \in 1 .. Len(source) /\ source[kept[n]] \in RawLine
  <2>1. \A n \in 1 .. Len(source) : source[n] \in RawLine
    BY ElementOfSeq
  <2> QED
    BY <1>2, <1>6, <2>1
<1>8. /\ ls \in Seq([text : RawLine, line : 1 .. Len(source)])
      /\ Len(ls) = Len(kept)
      /\ \A n \in 1 .. Len(ls) : ls[n].text = source[kept[n]] /\ ls[n].line = kept[n]
  BY <1>5, <1>6, <1>7
<1> HIDE DEF ls
<1>9. \A n \in 1 .. Len(ls) : trivia \/ ~IsComment(source[kept[n]])
  BY <1>6, <1>8 DEF wanted
<1>10. ASSUME NEW k \in 1 .. Len(source), trivia \/ ~IsComment(source[k])
       PROVE  \E n \in 1 .. Len(ls) : ls[n].line = k
  <2>1. k \in ToSet(kept)
    BY <1>1, <1>4, <1>10 DEF wanted
  <2> QED
    BY <1>6, <1>8, <2>1 DEF ToSet
<1>11. \A m, n \in 1 .. Len(ls) : m < n => ls[m].line < ls[n].line
  BY <1>4, <1>8 DEF Increasing
<1>12. \A n \in 1 .. Len(ls) : /\ ls[n].line \in 1 .. Len(source)
                               /\ ls[n].text = source[ls[n].line]
                               /\ trivia \/ ~IsComment(ls[n].text)
  BY <1>7, <1>8, <1>9
<1> QED
  BY <1>8, <1>10, <1>11, <1>12 DEF LinesOK, ls

(* With trivia a line is where it is in the file.                          *)
LEMMA AllLines ==
  ASSUME NEW source \in Seq(RawLine), NEW ls, LinesOK(source, TRUE, ls)
  PROVE  Len(ls) = Len(source) /\ \A n \in 1 .. Len(ls) : ls[n].line = n
<1> DEFINE K == Len(ls)
           N == Len(source)
<1>1. /\ K \in Nat /\ N \in Nat
      /\ \A n \in 1 .. K : ls[n].line \in 1 .. N
      /\ \A m, n \in 1 .. K : m < n => ls[m].line < ls[n].line
      /\ \A k \in 1 .. N : \E n \in 1 .. K : ls[n].line = k
  BY LenProperties DEF LinesOK
<1> HIDE DEF K, N
<1> DEFINE T == {n \in 0 .. K : n = 0 \/ ls[n].line = n}
<1>2. ASSUME NEW n \in 1 .. K, n - 1 \in T
      PROVE  n \in T
  <2>1. n - 1 = 0 \/ ls[n - 1].line = n - 1
    BY <1>2
  <2>2. ls[n].line >= n
    BY <1>1, <2>1
  <2>3. n \in 1 .. N
    BY <1>1, <2>2
  <2>4. PICK m \in 1 .. K : ls[m].line = n
    BY <1>1, <2>3
  <2>5. m >= n
    <3>1. ~(m < n)
      <4>1. ASSUME m < n
            PROVE  FALSE
        <5>1. n - 1 # 0 /\ n - 1 \in 1 .. K
          BY <1>1, <4>1
        <5>2. m = n - 1 \/ m < n - 1
          BY <1>1, <4>1
        <5> QED
          BY <1>1, <2>1, <2>4, <5>1, <5>2
      <4> QED
        BY <4>1
    <3> QED
      BY <1>1, <3>1
  <2>6. ls[n].line <= n
    <3>1. m = n \/ n < m
      BY <1>1, <2>5
    <3> QED
      BY <1>1, <2>4, <3>1
  <2> QED
    BY <1>1, <2>2, <2>6
<1>3. \A n \in 0 .. K : n \in T
  <2>1. 0 \in T
    BY <1>1
  <2>2. \A n \in 1 .. K : n - 1 \in T => n \in T
    BY <1>2
  <2> HIDE DEF T
  <2> QED
    BY ONLY <1>1, <2>1, <2>2, InductionTo
<1>4. \A n \in 1 .. K : ls[n].line = n
  BY <1>1, <1>3
<1>5. K = N
  <2>1. K <= N
    BY <1>1, <1>4
  <2>2. ASSUME K < N
        PROVE  FALSE
    BY <1>1, <1>4, <2>2
  <2> QED
    BY <1>1, <2>1, <2>2
<1> QED
  BY <1>4, <1>5 DEF K, N
-----------------------------------------------------------------------------
(* Types *)

(* Types of fields: with trivia a list of lines, without none.             *)
Numbers == Seq(LineNumber)
Wanted  == IF emitTrivia THEN Numbers ELSE {None}

(* The nodes, as nodes.ts declares them.                                   *)
ConditionNode == [kind : {"skipif", "onlyif"}, line : LineNumber, comments : Wanted]
CommentNode   == [type : {"comment"}, line : LineNumber]
BlankNode     == [type : {"blank"}, line : LineNumber, count : Nat]
StatementNode ==
  [type : {"statement"}, line : LineNumber, conditions : Seq(ConditionNode), comments : Wanted,
   expect : {"ok", "error"}, sql : Numbers, bodyComments : Wanted]
ExpectedNode ==
  [kind : {"hash"}, line : LineNumber] \cup [kind : {"values"}, values : Numbers]
QueryNode ==
  [type : {"query"}, line : LineNumber, conditions : Seq(ConditionNode), comments : Wanted,
   types : {"T", "I", "R"}, sort : {"nosort", "rowsort", "valuesort"},
   label : STRING \cup {None}, sql : Numbers,
   bodyComments : Wanted, expected : ExpectedNode \cup {None}, resultComments : Wanted]
ControlNode ==
  [type : {"hash-threshold", "halt"}, line : LineNumber, conditions : Seq(ConditionNode),
   comments : Wanted]
Node == CommentNode \cup BlankNode \cup StatementNode \cup QueryNode \cup ControlNode

(* What parseTest is called with, and the lines it reads.                  *)
CallOK ==
  /\ file \in Seq(RawLine) /\ emitTrivia \in BOOLEAN
  /\ lines = preprocess(file, emitTrivia)

(* The locals of parseTest. A run of blank lines is open only with trivia, *)
(* between records, with no comment after it, and up to the position.      *)
TypeOK ==
  /\ CallOK
  /\ pc \in {"preamble", "modifiers", "returned"}
  /\ i \in 1 .. Len(lines) + 1
  /\ pc = "returned" => i = Len(lines) + 1
  /\ pending \in Numbers
  /\ blanks \in [start : Nat, count : Nat]
  /\ blanks.count > 0 => /\ emitTrivia /\ pc = "preamble" /\ pending = <<>>
                         /\ blanks.start \in LineNumber /\ blanks.start + blanks.count = i
  /\ conditions \in Seq(ConditionNode)
  /\ records \in Seq(Node)
  /\ errors \in Numbers

(* The first of a stretch that is in a set, or the end.                    *)
LEMMA FirstIn ==
  ASSUME NEW a \in Nat, NEW b \in Nat, a <= b, NEW T
  PROVE  \E n \in a .. b : (n < b => n \in T) /\ \A m \in a .. n - 1 : m \notin T
<1> DEFINE U == {n \in a .. b : (n = b) \/ (n \in T)}
<1>1. U \subseteq Nat /\ b \in U
  OBVIOUS
<1>2. PICK n \in U : \A k \in U : n <= k
  <2> HIDE DEF U
  <2> QED
    BY <1>1, LeastOf
<1>3. \A m \in a .. n - 1 : m \in a .. b /\ m # b /\ ~(n <= m)
  OBVIOUS
<1>4. \A m \in a .. n - 1 : m \notin T
  BY <1>2, <1>3
<1> QED
  BY <1>4

(* The lines of a call are those of its file, in order.                    *)
LEMMA CallLines ==
  ASSUME CallOK
  PROVE  /\ LinesOK(file, emitTrivia, lines)
         /\ Len(lines) \in Nat /\ Len(file) \in Nat
         /\ \A n \in 1 .. Len(lines) : /\ lines[n] \in [text : RawLine, line : LineNumber]
                                       /\ lines[n].line \in LineNumber
                                       /\ lines[n].text \in RawLine
                                       /\ lines[n].text = file[lines[n].line]
                                       /\ emitTrivia \/ ~IsComment(lines[n].text)
         /\ \A m, n \in 1 .. Len(lines) : m < n => lines[m].line < lines[n].line
         /\ emitTrivia => Len(lines) = Len(file) /\ \A n \in LineNumber : lines[n].line = n
<1>1. file \in Seq(RawLine) /\ emitTrivia \in BOOLEAN /\ lines = preprocess(file, emitTrivia)
  BY DEF CallOK
<1>2. LinesOK(file, emitTrivia, lines)
  BY ONLY <1>1, LinesAre
<1>3. /\ Len(lines) \in Nat /\ Len(file) \in Nat
      /\ \A n \in 1 .. Len(lines) : lines[n] \in [text : RawLine, line : LineNumber]
  BY ONLY <1>1, <1>2, LenProperties, ElementOfSeq DEF LinesOK, LineNumber
<1>4. emitTrivia => Len(lines) = Len(file) /\ \A n \in 1 .. Len(lines) : lines[n].line = n
  <2>1. CASE emitTrivia
    <3>1. LinesOK(file, TRUE, lines)
      BY <1>1, <1>2, <2>1
    <3> QED
      BY ONLY <1>1, <3>1, AllLines
  <2> QED
    BY <2>1
<1>5. \A n \in 1 .. Len(lines) : /\ lines[n].text = file[lines[n].line]
                                 /\ emitTrivia \/ ~IsComment(lines[n].text)
  BY ONLY <1>2 DEF LinesOK
<1>6. \A m, n \in 1 .. Len(lines) : m < n => lines[m].line < lines[n].line
  BY ONLY <1>2 DEF LinesOK
<1>7. \A n \in 1 .. Len(lines) : lines[n].line \in LineNumber /\ lines[n].text \in RawLine
  BY ONLY <1>3
<1>8. emitTrivia => Len(lines) = Len(file) /\ \A n \in LineNumber : lines[n].line = n
  BY ONLY <1>4 DEF LineNumber
<1> QED
  BY ONLY <1>2, <1>3, <1>5, <1>6, <1>7, <1>8

(* Where skipToBlank and the search for "----" stop.                       *)
LEMMA SkipToBlank ==
  ASSUME CallOK, NEW from \in 1 .. Len(lines) + 1
  PROVE  /\ skipToBlank(from) \in from .. Len(lines) + 1
         /\ skipToBlank(from) <= Len(lines) => IsBlank(lines[skipToBlank(from)].text)
         /\ \A m \in from .. skipToBlank(from) - 1 : ~IsBlank(lines[m].text)
<1>1. Len(lines) \in Nat
  BY CallLines
<1> DEFINE T == {n \in 1 .. Len(lines) : IsBlank(lines[n].text)}
<1>2. PICK n \in from .. Len(lines) + 1 :
        (n < Len(lines) + 1 => n \in T) /\ \A m \in from .. n - 1 : m \notin T
  <2>1. from \in Nat /\ Len(lines) + 1 \in Nat /\ from <= Len(lines) + 1
    BY <1>1
  <2> HIDE DEF T
  <2> QED
    BY ONLY <2>1, FirstIn
<1>3. n <= Len(lines) => IsBlank(lines[n].text)
  BY <1>1, <1>2
<1>4. \A m \in from .. n - 1 : ~IsBlank(lines[m].text)
  <2>1. \A m \in from .. n - 1 : m \in 1 .. Len(lines)
    BY <1>1, <1>2
  <2> QED
    BY <1>2, <2>1
<1> QED
  BY <1>3, <1>4 DEF skipToBlank

(* The search stops at a "----" or at the stop.                            *)
LEMMA EndOfSqlIs ==
  ASSUME NEW from \in Nat, NEW stop \in Nat, from <= stop
  PROVE  /\ EndOfSql(from, stop) \in from .. stop
         /\ EndOfSql(from, stop) < stop => IsSeparator(lines[EndOfSql(from, stop)].text)
         /\ \A m \in from .. EndOfSql(from, stop) - 1 : ~IsSeparator(lines[m].text)
<1> DEFINE T == {n \in from .. stop : IsSeparator(lines[n].text)}
<1>1. PICK n \in from .. stop : (n < stop => n \in T) /\ \A m \in from .. n - 1 : m \notin T
  <2> HIDE DEF T
  <2> QED
    BY ONLY from \in Nat, stop \in Nat, from <= stop, FirstIn
<1>2. \A m \in from .. n - 1 : ~IsSeparator(lines[m].text)
  <2>1. \A m \in from .. n - 1 : m \in from .. stop
    BY <1>1
  <2> QED
    BY <1>1, <2>1
<1> QED
  BY <1>1, <1>2 DEF EndOfSql

(* The texts and the comments between two positions.                       *)
LEMMA LineNumbersAre ==
  ASSUME CallOK, NEW last \in 0 .. Len(lines), NEW positions, positions \subseteq 1 .. last
  PROVE  /\ LineNumbers(positions, last) \in Numbers
         /\ ToSet(LineNumbers(positions, last)) = {lines[n].line : n \in positions}
         /\ Increasing(LineNumbers(positions, last))
<1> DEFINE kept == InOrder(positions, last)
           r == LineNumbers(positions, last)
<1>1. /\ Len(lines) \in Nat
      /\ \A n \in 1 .. Len(lines) : lines[n].line \in LineNumber
      /\ \A m, n \in 1 .. Len(lines) : m < n => lines[m].line < lines[n].line
  BY ONLY CallOK, CallLines
<1>2. kept \in Seq(positions) /\ ToSet(kept) = positions /\ Increasing(kept)
  <2>1. last \in Nat
    BY <1>1
  <2> QED
    BY ONLY <2>1, positions \subseteq 1 .. last, InOrderIs
<1>3. r = [n \in 1 .. Len(kept) |-> lines[kept[n]].line]
  BY DEF LineNumbers
<1> HIDE DEF kept, r
<1>4. /\ Len(kept) \in Nat /\ DOMAIN kept = 1 .. Len(kept)
      /\ \A n \in 1 .. Len(kept) : kept[n] \in positions
  BY <1>2, LenProperties, ElementOfSeq
<1>5. \A n \in 1 .. Len(kept) : kept[n] \in 1 .. Len(lines)
  <2>1. \A n \in positions : n \in 1 .. Len(lines)
    BY <1>1
  <2> QED
    BY ONLY <1>4, <2>1
<1>6. r \in Numbers /\ Len(r) = Len(kept) /\ DOMAIN r = 1 .. Len(kept)
  BY <1>1, <1>3, <1>4, <1>5 DEF Numbers
<1>7. Increasing(r)
  BY <1>1, <1>2, <1>3, <1>5, <1>6 DEF Increasing
<1>8. ToSet(r) = {lines[n].line : n \in positions}
  <2>1. ToSet(r) = {lines[kept[n]].line : n \in 1 .. Len(kept)}
    BY <1>3, <1>6 DEF ToSet
  <2>2. positions = {kept[n] : n \in 1 .. Len(kept)}
    BY <1>2, <1>4 DEF ToSet
  <2> QED
    BY ONLY <2>1, <2>2
<1> QED
  BY <1>6, <1>7, <1>8 DEF r

(* What Texts and CommentsAmong return.                                    *)
LEMMA TextsAre ==
  ASSUME CallOK, NEW first \in Nat \ {0}, NEW last \in 0 .. Len(lines)
  PROVE  /\ Texts(first, last) \in Numbers /\ CommentsAmong(first, last) \in Numbers
         /\ Increasing(Texts(first, last)) /\ Increasing(CommentsAmong(first, last))
         /\ ToSet(Texts(first, last)) =
              {lines[n].line : n \in {m \in first .. last : ~IsComment(lines[m].text)}}
         /\ ToSet(CommentsAmong(first, last)) =
              {lines[n].line : n \in {m \in first .. last : IsComment(lines[m].text)}}
<1> DEFINE P == {m \in first .. last : ~IsComment(lines[m].text)}
           Q == {m \in first .. last : IsComment(lines[m].text)}
<1>1. P \subseteq 1 .. last /\ Q \subseteq 1 .. last
  OBVIOUS
<1>2. Texts(first, last) = LineNumbers(P, last) /\ CommentsAmong(first, last) = LineNumbers(Q, last)
  BY DEF Texts, CommentsAmong
<1> HIDE DEF P, Q
<1>3. /\ LineNumbers(P, last) \in Numbers /\ Increasing(LineNumbers(P, last))
      /\ ToSet(LineNumbers(P, last)) = {lines[n].line : n \in P}
  BY ONLY CallOK, last \in 0 .. Len(lines), <1>1, LineNumbersAre
<1>4. /\ LineNumbers(Q, last) \in Numbers /\ Increasing(LineNumbers(Q, last))
      /\ ToSet(LineNumbers(Q, last)) = {lines[n].line : n \in Q}
  BY ONLY CallOK, last \in 0 .. Len(lines), <1>1, LineNumbersAre
<1> QED
  BY <1>2, <1>3, <1>4 DEF P, Q

(* A word, or none.                                                        *)
LEMMA WordIs ==
  ASSUME NEW raw \in RawLine, NEW n \in 1 .. 4
  PROVE  WordOf(raw, n) \in STRING \cup {None}
<1>1. raw.words \in Seq(STRING)
  BY DEF RawLine
<1>2. n <= Len(raw.words) => raw.words[n] \in STRING
  BY <1>1, LenProperties, ElementOfSeq
<1> QED
  BY <1>2 DEF WordOf

(* What is typed before a step is of the same type after it.               *)
LEMMA SameTypes ==
  ASSUME UNCHANGED call
  PROVE  /\ file' = file /\ emitTrivia' = emitTrivia /\ lines' = lines
         /\ LineNumber' = LineNumber /\ Numbers' = Numbers /\ Wanted' = Wanted
         /\ ConditionNode' = ConditionNode /\ Node' = Node
         /\ CallOK => CallOK'
  BY DEF call, LineNumber, Numbers, Wanted, ConditionNode, Node, CommentNode, BlankNode,
         StatementNode, ExpectedNode, QueryNode, ControlNode, CallOK

(* No step changes what parseTest was called with.                         *)
LEMMA StepKeepsCall ==
  ASSUME ParseNext
  PROVE  UNCHANGED call
  BY DEF ParseNext, Preamble, Modifiers, Record, BlankLine, CommentLine, EndPreamble, ReturnResult,
         ModifierComment, NoEngine, Modifier, NoRecord, MalformedHeader, Statement, Query, Control,
         ReadsHeader

(* The line at the position.                                               *)
LEMMA HereIs ==
  ASSUME TypeOK, More
  PROVE  /\ i \in 1 .. Len(lines) /\ Len(lines) \in Nat
         /\ lines[i].line \in LineNumber /\ Here \in RawLine
         /\ Here = file[lines[i].line]
         /\ i + 1 \in 1 .. Len(lines) + 1
         /\ \A n \in 1 .. 4 : Word(n) \in STRING \cup {None}
         /\ emitTrivia => lines[i].line = i
<1>1. CallOK /\ i \in 1 .. Len(lines) + 1 /\ i <= Len(lines)
  BY DEF TypeOK, More
<1>2. /\ Len(lines) \in Nat
      /\ \A n \in 1 .. Len(lines) : /\ lines[n].line \in LineNumber
                                   /\ lines[n].text \in RawLine
                                   /\ lines[n].text = file[lines[n].line]
      /\ emitTrivia => Len(lines) = Len(file) /\ \A n \in LineNumber : lines[n].line = n
  BY ONLY <1>1, CallLines
<1>3. i \in 1 .. Len(lines) /\ i + 1 \in 1 .. Len(lines) + 1
  BY ONLY <1>1, <1>2
<1>4. /\ lines[i].line \in LineNumber /\ lines[i].text \in RawLine
      /\ lines[i].text = file[lines[i].line]
  BY ONLY <1>2, <1>3
<1>5. \A n \in 1 .. 4 : WordOf(lines[i].text, n) \in STRING \cup {None}
  BY ONLY <1>4, WordIs
<1>6. emitTrivia => lines[i].line = i
  BY ONLY <1>2, <1>3 DEF LineNumber
<1> QED
  BY <1>2, <1>3, <1>4, <1>5, <1>6 DEF Here, Word

(* The nodes a step adds.                                                  *)
LEMMA CommentNodes ==
  ASSUME pending \in Numbers
  PROVE  /\ WithPending \in Seq(Node) /\ Len(WithPending) = Len(pending)
         /\ \A n \in 1 .. Len(pending) : WithPending[n] = Comment(pending[n])
<1>1. Len(pending) \in Nat /\ \A n \in 1 .. Len(pending) : pending[n] \in LineNumber
  BY LenProperties, ElementOfSeq DEF Numbers
<1>2. \A n \in LineNumber : Comment(n) \in Node
  BY DEF Comment, Node, CommentNode
<1> QED
  BY <1>1, <1>2 DEF WithPending

(* A run of blank lines becomes a node.                                    *)
LEMMA BlankRuns ==
  ASSUME TypeOK
  PROVE  WithBlankRun \in Seq(Node)
<1>1. records \in Seq(Node)
  BY DEF TypeOK
<1>2. CASE blanks.count > 0
  <2>1. BlankRun(blanks) \in Node
    BY <1>2 DEF TypeOK, BlankRun, Node, BlankNode
  <2> QED
    BY <1>1, <1>2, <2>1 DEF WithBlankRun
<1> QED
  BY <1>1, <1>2 DEF WithBlankRun

(* Comments are kept if they are wanted.                                   *)
LEMMA TriviaIs ==
  ASSUME NEW s \in Numbers, emitTrivia \in BOOLEAN
  PROVE  Trivia(s) \in Wanted
  BY DEF Trivia, Wanted

(* What a header is followed by.                                           *)
LEMMA BodyIs ==
  ASSUME TypeOK, More, NEW stop, stop = skipToBlank(i + 1)
  PROVE  /\ stop \in i + 1 .. Len(lines) + 1
         /\ stop <= Len(lines) => IsBlank(lines[stop].text)
         /\ \A m \in i + 1 .. stop - 1 : ~IsBlank(lines[m].text)
         /\ Len(lines) \in Nat /\ i \in 1 .. Len(lines)
<1>1. CallOK /\ i + 1 \in 1 .. Len(lines) + 1 /\ Len(lines) \in Nat /\ i \in 1 .. Len(lines)
  BY HereIs DEF TypeOK
<1> QED
  BY ONLY <1>1, stop = skipToBlank(i + 1), SkipToBlank

(* The fields a body is parsed into.                                       *)
LEMMA PartIs ==
  ASSUME CallOK, NEW first \in Nat \ {0}, NEW last \in 0 .. Len(lines)
  PROVE  /\ Texts(first, last) \in Numbers
         /\ Trivia(CommentsAmong(first, last)) \in Wanted
  BY TextsAre, TriviaIs DEF CallOK

(* Results are a hash or values.                                           *)
LEMMA ExpectedIs ==
  ASSUME CallOK, NEW first \in Nat \ {0}, NEW last \in 0 .. Len(lines)
  PROVE  parseExpected(first, last) \in ExpectedNode
<1>1. Texts(first, last) \in Seq(LineNumber)
  BY TextsAre DEF Numbers
<1>2. Len(Texts(first, last)) = 1 => Texts(first, last)[1] \in LineNumber
  BY <1>1
<1> QED
  BY <1>1, <1>2 DEF parseExpected, ExpectedNode, Numbers

(* The state is of its type after every step.                              *)
LEMMA TypeStep ==
  ASSUME TypeOK, ParseNext
  PROVE  TypeOK'
<1> USE DEF InPreamble, InModifiers
<1>1. UNCHANGED call
  BY StepKeepsCall
<1>2. /\ file' = file /\ emitTrivia' = emitTrivia /\ lines' = lines
      /\ LineNumber' = LineNumber /\ Numbers' = Numbers
      /\ ConditionNode' = ConditionNode /\ Node' = Node
      /\ CallOK'
  BY <1>1, SameTypes DEF TypeOK
<1>3. /\ CallOK /\ emitTrivia \in BOOLEAN
      /\ pc \in {"preamble", "modifiers", "returned"}
      /\ i \in 1 .. Len(lines) + 1
      /\ pc = "returned" => i = Len(lines) + 1
      /\ pending \in Numbers
      /\ blanks \in [start : Nat, count : Nat]
      /\ blanks.count > 0 => /\ emitTrivia /\ pc = "preamble" /\ pending = <<>>
                             /\ blanks.start \in LineNumber /\ blanks.start + blanks.count = i
      /\ conditions \in Seq(ConditionNode)
      /\ records \in Seq(Node)
      /\ errors \in Numbers
  BY DEF TypeOK, CallOK
<1>4. Len(lines) \in Nat /\ Len(file) \in Nat
  BY ONLY <1>3, CallLines
<1>5. /\ WithPending \in Seq(Node) /\ WithBlankRun \in Seq(Node)
      /\ records \o WithPending \in Seq(Node) /\ WithBlankRun \o WithPending \in Seq(Node)
  <2>1. WithPending \in Seq(Node) /\ WithBlankRun \in Seq(Node)
    BY <1>3, CommentNodes, BlankRuns
  <2> QED
    BY ONLY <1>3, <2>1, ConcatProperties
<1>6. NoBlanks \in [start : Nat, count : Nat] /\ ~(NoBlanks.count > 0)
  BY DEF NoBlanks
<1>7. <<>> \in Numbers /\ <<>> \in Seq(ConditionNode)
  BY EmptySeq DEF Numbers
<1>8. More => /\ i \in 1 .. Len(lines) /\ lines[i].line \in LineNumber
              /\ i + 1 \in 1 .. Len(lines) + 1
              /\ \A n \in 1 .. 4 : Word(n) \in STRING \cup {None}
              /\ emitTrivia => lines[i].line = i
  BY HereIs
<1>9. /\ More => Append(pending, lines[i].line) \in Numbers
      /\ More => Append(errors, lines[i].line) \in Numbers
  BY ONLY <1>3, <1>8, AppendProperties DEF Numbers
<1>10. CASE BlankLine
  <2>1. More /\ pc = "preamble" /\ i' = i + 1 /\ UNCHANGED <<pc, conditions, errors>>
    BY <1>10 DEF BlankLine
  <2>2. CASE emitTrivia
    <3>1. /\ records' = records \o WithPending /\ pending' = <<>>
          /\ blanks' = [start |-> IF blanks.count = 0 THEN lines[i].line ELSE blanks.start,
                        count |-> blanks.count + 1]
      BY <1>10, <2>2 DEF BlankLine, flushPendingAsTopLevel
    <3>2. /\ blanks' \in [start : Nat, count : Nat]
          /\ blanks'.start \in LineNumber /\ blanks'.start + blanks'.count = i'
      <4>1. LineNumber \subseteq Nat
        BY DEF LineNumber
      <4>2. CASE blanks.count = 0
        <5>1. blanks' = [start |-> i, count |-> 1] /\ i \in LineNumber
          BY ONLY <1>8, <2>1, <2>2, <3>1, <4>2
        <5> QED
          BY ONLY <2>1, <4>1, <5>1
      <4>3. CASE blanks.count > 0
        <5>1. blanks' = [start |-> blanks.start, count |-> blanks.count + 1]
          BY ONLY <1>3, <3>1, <4>3
        <5>2. blanks.count \in Nat /\ blanks.start \in LineNumber /\ blanks.start + blanks.count = i
          BY ONLY <1>3, <4>3
        <5>3. blanks.start \in Nat
          BY ONLY <4>1, <5>2
        <5>4. blanks'.start = blanks.start /\ blanks'.count = blanks.count + 1
          BY ONLY <5>1
        <5>5. blanks.start + (blanks.count + 1) = i + 1
          BY ONLY <5>2, <5>3
        <5> QED
          BY ONLY <2>1, <5>1, <5>2, <5>3, <5>4, <5>5
      <4>4. blanks.count \in Nat
        BY ONLY <1>3
      <4> QED
        BY ONLY <4>2, <4>3, <4>4
    <3> QED
      BY ONLY <1>2, <1>3, <1>5, <1>7, <1>8, <2>1, <2>2, <3>1, <3>2 DEF TypeOK
  <2>3. CASE ~emitTrivia
    <3>1. UNCHANGED <<records, pending, blanks>>
      BY <1>10, <2>3 DEF BlankLine
    <3> QED
      BY ONLY <1>2, <1>3, <1>8, <2>1, <2>3, <3>1 DEF TypeOK
  <2> QED
    BY <2>2, <2>3
<1>11. CASE CommentLine
  <2>1. /\ More /\ pc = "preamble" /\ i' = i + 1 /\ UNCHANGED <<pc, conditions, errors>>
        /\ records' = WithBlankRun /\ blanks' = NoBlanks
        /\ pending' = Append(pending, lines[i].line)
    BY <1>11 DEF CommentLine, flushBlankRun
  <2> QED
    BY ONLY <1>2, <1>3, <1>5, <1>6, <1>8, <1>9, <2>1 DEF TypeOK
<1>12. CASE EndPreamble
  <2>1. /\ pc' = "modifiers" /\ conditions' = <<>> /\ UNCHANGED <<i, pending, errors>>
        /\ records' = WithBlankRun /\ blanks' = NoBlanks
    BY <1>12 DEF EndPreamble, flushBlankRun
  <2> QED
    BY ONLY <1>2, <1>3, <1>5, <1>6, <1>7, <2>1 DEF TypeOK
<1>13. CASE ReturnResult
  <2>1. /\ ~More /\ pc' = "returned" /\ pending' = <<>> /\ UNCHANGED <<i, conditions, errors>>
        /\ records' = WithBlankRun \o WithPending /\ blanks' = NoBlanks
    BY <1>13 DEF ReturnResult
  <2>2. i = Len(lines) + 1
    BY ONLY <1>3, <1>4, <2>1 DEF More
  <2> QED
    BY ONLY <1>2, <1>3, <1>5, <1>6, <1>7, <2>1, <2>2 DEF TypeOK
<1>14. CASE ModifierComment
  <2>1. /\ More /\ pc = "modifiers" /\ i' = i + 1
        /\ UNCHANGED <<pc, blanks, conditions, records, errors>>
        /\ pending' = Append(pending, lines[i].line)
    BY <1>14 DEF ModifierComment
  <2> QED
    BY ONLY <1>2, <1>3, <1>8, <1>9, <2>1 DEF TypeOK
<1>15. CASE NoEngine
  <2>1. /\ More /\ pc = "modifiers" /\ i' = i + 1
        /\ UNCHANGED <<pc, pending, blanks, conditions, records>>
        /\ errors' = Append(errors, lines[i].line)
    BY <1>15 DEF NoEngine, err
  <2> QED
    BY ONLY <1>2, <1>3, <1>8, <1>9, <2>1 DEF TypeOK
<1>16. CASE Modifier
  <2> DEFINE c == [kind |-> Word(1), line |-> lines[i].line, comments |-> Trivia(pending)]
  <2>1. /\ More /\ pc = "modifiers" /\ i' = i + 1 /\ pending' = <<>>
        /\ UNCHANGED <<pc, blanks, records, errors>>
        /\ conditions' = Append(conditions, c)
        /\ IsModifier(Here)
    BY <1>16 DEF Modifier
  <2>2. c \in ConditionNode
    <3>1. Word(1) \in {"skipif", "onlyif"}
      <4>1. Word(1) = "skipif" \/ Word(1) = "onlyif"
        BY ONLY <2>1 DEF IsModifier, Word
      <4> QED
        BY ONLY <4>1
    <3>2. Trivia(pending) \in Wanted
      BY ONLY <1>3, TriviaIs
    <3> QED
      BY <1>8, <2>1, <3>1, <3>2 DEF ConditionNode
  <2> HIDE DEF c
  <2>3. Append(conditions, c) \in Seq(ConditionNode)
    BY ONLY <1>3, <2>2, AppendProperties
  <2> QED
    BY ONLY <1>2, <1>3, <1>7, <1>8, <2>1, <2>3 DEF TypeOK
<1>17. CASE NoRecord
  <2>1. /\ pc = "modifiers" /\ pc' = "preamble" /\ UNCHANGED <<i, blanks, conditions>>
        /\ records' = records \o WithPending /\ pending' = <<>>
        /\ errors' = errors \/ (conditions # <<>> /\ errors' = Append(errors, conditions[Len(conditions)].line))
    BY <1>17 DEF NoRecord, flushPendingAsTopLevel, err
  <2>2. errors' \in Numbers
    <3>1. CASE conditions # <<>> /\ errors' = Append(errors, conditions[Len(conditions)].line)
      <4>1. Len(conditions) \in 1 .. Len(conditions)
        BY ONLY <1>3, <3>1, LenProperties, EmptySeq
      <4>2. conditions[Len(conditions)] \in ConditionNode
        BY ONLY <1>3, <4>1, ElementOfSeq
      <4>3. conditions[Len(conditions)].line \in LineNumber
        BY ONLY <4>2 DEF ConditionNode
      <4> QED
        BY ONLY <1>3, <3>1, <4>3, AppendProperties DEF Numbers
    <3> QED
      BY ONLY <1>3, <2>1, <3>1
  <2> QED
    BY ONLY <1>2, <1>3, <1>5, <1>7, <2>1, <2>2 DEF TypeOK
<1>18. ASSUME MalformedHeader \/ Statement \/ Query \/ Control
       PROVE  TypeOK'
  <2> DEFINE stop == skipToBlank(i + 1)
             separator == EndOfSql(i + 1, stop)
             statement ==
               [type |-> "statement", line |-> lines[i].line,
                conditions |-> conditions, comments |-> Trivia(pending),
                expect |-> Word(2), sql |-> Texts(i + 1, stop - 1),
                bodyComments |-> Trivia(CommentsAmong(i + 1, stop - 1))]
             query ==
               [type |-> "query", line |-> lines[i].line,
                conditions |-> conditions, comments |-> Trivia(pending),
                types |-> Word(2), sort |-> IF Word(3) = None THEN "nosort" ELSE Word(3),
                label |-> Word(4), sql |-> Texts(i + 1, separator - 1),
                bodyComments |-> Trivia(CommentsAmong(i + 1, separator - 1)),
                expected |-> IF separator = stop THEN None
                             ELSE parseExpected(separator + 1, stop - 1),
                resultComments |-> Trivia(CommentsAmong(separator + 1, stop - 1))]
             control ==
               [type |-> Word(1), line |-> lines[i].line,
                conditions |-> conditions, comments |-> Trivia(pending)]
  <2>1. /\ More /\ pc = "modifiers" /\ pc' = "preamble" /\ pending' = <<>>
        /\ UNCHANGED <<blanks, conditions>>
    BY <1>18 DEF MalformedHeader, Statement, Query, Control, ReadsHeader, AtHeader
  <2>2. /\ stop \in i + 1 .. Len(lines) + 1
        /\ i \in 1 .. Len(lines)
    BY ONLY TypeOK, <2>1, BodyIs
  <2>3. Trivia(pending) \in Wanted
    BY ONLY <1>3, TriviaIs
  <2>4. CASE MalformedHeader
    <3>1. i' = stop /\ records' = records /\ errors' = Append(errors, lines[i].line)
      BY <2>4 DEF MalformedHeader, err
    <3>2. i' \in 1 .. Len(lines) + 1
      BY ONLY <1>4, <2>2, <3>1
    <3> QED
      BY ONLY <1>2, <1>3, <1>7, <1>9, <2>1, <3>1, <3>2 DEF TypeOK
  <2>5. ASSUME NEW node \in Node, records' = Append(records, node), i' \in 1 .. Len(lines) + 1,
               UNCHANGED errors
        PROVE  TypeOK'
    <3>1. Append(records, node) \in Seq(Node)
      BY ONLY <1>3, <2>5, AppendProperties
    <3> QED
      BY ONLY <1>2, <1>3, <1>7, <2>1, <2>5, <3>1 DEF TypeOK
  <2>6. CASE Statement
    <3>1. i' = stop /\ records' = Append(records, statement) /\ UNCHANGED errors
          /\ Word(1) = "statement" /\ ~Malformed(Here)
      BY <2>6 DEF Statement
    <3>2. Word(2) \in {"ok", "error"}
      <4>1. Word(2) = "ok" \/ Word(2) = "error"
        BY ONLY <3>1 DEF Malformed, Word
      <4> QED
        BY ONLY <4>1
    <3>3. Texts(i + 1, stop - 1) \in Numbers /\ Trivia(CommentsAmong(i + 1, stop - 1)) \in Wanted
      <4>1. i + 1 \in Nat \ {0} /\ stop - 1 \in 0 .. Len(lines)
        BY ONLY <1>4, <2>2
      <4> QED
        BY ONLY <1>3, <4>1, PartIs
    <3>4. statement \in Node
      <4> HIDE DEF stop
      <4> QED
        BY ONLY <1>3, <1>8, <2>1, <2>3, <3>2, <3>3 DEF Node, StatementNode
    <3>5. i' \in 1 .. Len(lines) + 1
      BY ONLY <1>4, <2>2, <3>1
    <3> HIDE DEF statement
    <3> QED
      BY ONLY <2>5, <3>1, <3>4, <3>5
  <2>7. CASE Query
    <3>1. i' = stop /\ records' = Append(records, query) /\ UNCHANGED errors
          /\ Word(1) = "query" /\ ~Malformed(Here)
      BY <2>7 DEF Query
    <3>2. /\ Word(2) \in {"T", "I", "R"}
          /\ (IF Word(3) = None THEN "nosort" ELSE Word(3)) \in {"nosort", "rowsort", "valuesort"}
      <4>1. /\ Word(2) = "T" \/ Word(2) = "I" \/ Word(2) = "R"
            /\ Word(3) = None \/ Word(3) = "nosort" \/ Word(3) = "rowsort" \/ Word(3) = "valuesort"
        BY ONLY <3>1 DEF Malformed, Word
      <4> QED
        BY ONLY <4>1
    <3> HIDE DEF stop
    <3>3. separator \in i + 1 .. stop
      <4>1. i + 1 \in Nat /\ stop \in Nat /\ i + 1 <= stop
        BY ONLY <1>4, <2>2
      <4> QED
        BY ONLY <4>1, EndOfSqlIs
    <3> HIDE DEF separator
    <3>4. /\ Texts(i + 1, separator - 1) \in Numbers
          /\ Trivia(CommentsAmong(i + 1, separator - 1)) \in Wanted
      <4>1. i + 1 \in Nat \ {0} /\ separator - 1 \in 0 .. Len(lines)
        BY ONLY <1>4, <2>2, <3>3
      <4> QED
        BY ONLY <1>3, <4>1, PartIs
    <3>5. /\ parseExpected(separator + 1, stop - 1) \in ExpectedNode
          /\ Trivia(CommentsAmong(separator + 1, stop - 1)) \in Wanted
      <4>1. separator + 1 \in Nat \ {0} /\ stop - 1 \in 0 .. Len(lines)
        BY ONLY <1>4, <2>2, <3>3
      <4> QED
        BY ONLY <1>3, <4>1, PartIs, ExpectedIs
    <3>6. query \in Node
      <4>1. query \in QueryNode
        BY ONLY <1>3, <1>8, <2>1, <2>3, <3>2, <3>4, <3>5 DEF QueryNode
      <4> QED
        BY ONLY <4>1 DEF Node
    <3>7. i' \in 1 .. Len(lines) + 1
      BY ONLY <1>4, <2>2, <3>1
    <3> HIDE DEF query
    <3> QED
      BY ONLY <2>5, <3>1, <3>6, <3>7
  <2>8. CASE Control
    <3>1. i' = i + 1 /\ records' = Append(records, control) /\ UNCHANGED errors
          /\ Word(1) \in {"hash-threshold", "halt"}
      BY <2>8 DEF Control, IsControl, Word
    <3>2. control \in Node
      BY ONLY <1>3, <1>8, <2>1, <2>3, <3>1 DEF Node, ControlNode
    <3>3. i' \in 1 .. Len(lines) + 1
      BY ONLY <1>8, <2>1, <3>1
    <3> HIDE DEF control
    <3> QED
      BY ONLY <2>5, <3>1, <3>2, <3>3
  <2> QED
    BY <1>18, <2>4, <2>6, <2>7, <2>8
<1> QED
  BY <1>10, <1>11, <1>12, <1>13, <1>14, <1>15, <1>16, <1>17, <1>18
     DEF ParseNext, Preamble, Modifiers, Record
-----------------------------------------------------------------------------
(* Order *)

(* The lines of a node, and of a condition.                                *)
LinesIn(node) == ToSet(LinesOf(node))
LinesOfCondition(c) == OrNone(c.comments) \o <<c.line>>
Precedes(A, B) == \A a \in A, b \in B : a < b

(* The number of the line at a position.                                   *)
LineAt(n) == IF n <= Len(lines) THEN lines[n].line ELSE Len(file) + 1

(* The lines that wait.                                                    *)
ConditionLines ==
  IF pc = "modifiers"
  THEN UNION {ToSet(LinesOfCondition(conditions[n])) : n \in 1 .. Len(conditions)}
  ELSE {}
BlankLines == blanks.start .. blanks.start + blanks.count - 1
Held == ConditionLines \cup ToSet(pending) \cup BlankLines

(* Nodes in order, before a set of lines; each of a line once.             *)
RecordsBefore(nodes, front) ==
  /\ \A n \in 1 .. Len(nodes) : /\ LinesOf(nodes[n]) \in Seq(Nat) /\ IsInjective(LinesOf(nodes[n]))
                                /\ Precedes(LinesIn(nodes[n]), front)
  /\ \A m, n \in 1 .. Len(nodes) : m < n => Precedes(LinesIn(nodes[m]), LinesIn(nodes[n]))

(* The modifiers of the record that is read, with their comments, are in   *)
(* order.                                                                  *)
ConditionsInOrder ==
  /\ \A n \in 1 .. Len(conditions) : Increasing(LinesOfCondition(conditions[n]))
  /\ \A m, n \in 1 .. Len(conditions) : m < n =>
       Precedes(ToSet(LinesOfCondition(conditions[m])), ToSet(LinesOfCondition(conditions[n])))

(* What is in records is before what waits, and that before the position;  *)
(* modifiers wait before the comments below them.                          *)
OrderOK ==
  /\ RecordsBefore(records, Held \cup {LineAt(i)})
  /\ Precedes(Held, {LineAt(i)})
  /\ Precedes(ConditionLines, ToSet(pending))
  /\ Increasing(pending)
  /\ pc = "modifiers" => ConditionsInOrder

(* Lines in order are different lines.                                     *)
LEMMA IncreasingInjective ==
  ASSUME NEW s \in Seq(Int), Increasing(s)
  PROVE  IsInjective(s)
<1>1. DOMAIN s = 1 .. Len(s) /\ Len(s) \in Nat /\ \A n \in 1 .. Len(s) : s[n] \in Int
  BY LenProperties, ElementOfSeq
<1>2. \A a, b \in 1 .. Len(s) : s[a] = s[b] => ~(a < b) /\ ~(b < a)
  BY <1>1 DEF Increasing
<1> QED
  BY <1>1, <1>2 DEF IsInjective

(* Numbers of lines are numbers.                                           *)
LEMMA NumbersAre ==
  ASSUME TypeOK
  PROVE  /\ LineNumber \subseteq Nat \ {0}
         /\ \A s \in Numbers : /\ s \in Seq(Int) /\ s \in Seq(Nat)
                             /\ ToSet(s) \subseteq LineNumber
                             /\ Len(s) \in Nat
                             /\ \A n \in 1 .. Len(s) : s[n] \in LineNumber /\ s[n] \in ToSet(s)
<1>1. Len(file) \in Nat
  BY CallLines DEF TypeOK
<1>2. LineNumber \subseteq Nat \ {0}
  BY <1>1 DEF LineNumber
<1>3. ASSUME NEW s \in Seq(LineNumber)
      PROVE  /\ s \in Seq(Int) /\ s \in Seq(Nat)
             /\ ToSet(s) \subseteq LineNumber
             /\ Len(s) \in Nat
             /\ \A n \in 1 .. Len(s) : s[n] \in LineNumber /\ s[n] \in ToSet(s)
  <2>1. Len(s) \in Nat /\ DOMAIN s = 1 .. Len(s) /\ \A n \in 1 .. Len(s) : s[n] \in LineNumber
    BY LenProperties, ElementOfSeq
  <2>2. ToSet(s) \subseteq LineNumber /\ \A n \in 1 .. Len(s) : s[n] \in ToSet(s)
    BY <2>1 DEF ToSet
  <2>3. s \in [1 .. Len(s) -> LineNumber]
    BY <2>1, SeqDef
  <2>4. s \in [1 .. Len(s) -> Int] /\ s \in [1 .. Len(s) -> Nat]
    <3>1. \A n \in LineNumber : n \in Nat /\ n \in Int
      BY ONLY <1>2
    <3>2. \A n \in 1 .. Len(s) : s[n] \in Nat /\ s[n] \in Int
      BY ONLY <2>1, <3>1
    <3> QED
      BY ONLY <2>3, <3>2
  <2>5. s \in Seq(Int) /\ s \in Seq(Nat)
    BY ONLY <2>1, <2>4, SeqDef
  <2> QED
    BY <2>1, <2>2, <2>5
<1> QED
  BY <1>2, <1>3 DEF Numbers

(* Two sequences with nothing in common, one after the other.              *)
LEMMA Joined ==
  ASSUME NEW S, NEW s \in Seq(S), NEW t \in Seq(S),
         IsInjective(s), IsInjective(t), ToSet(s) \cap ToSet(t) = {}
  PROVE  s \o t \in Seq(S) /\ IsInjective(s \o t) /\ ToSet(s \o t) = ToSet(s) \cup ToSet(t)
<1>1. s \o t \in Seq(S)
  BY ConcatProperties
<1>2. IsInjective(s \o t)
  BY ConcatInjective
<1>3. ToSet(s \o t) = ToSet(s) \cup ToSet(t)
  BY ConcatSet
<1> QED
  BY <1>1, <1>2, <1>3

(* A sequence of one line.                                                 *)
LEMMA OneLine ==
  ASSUME NEW S, NEW n \in S
  PROVE  <<n>> \in Seq(S) /\ IsInjective(<<n>>) /\ ToSet(<<n>>) = {n}
  BY DEF IsInjective, ToSet

(* A sequence of none.                                                     *)
LEMMA NoLine ==
  ASSUME NEW S
  PROVE  <<>> \in Seq(S) /\ IsInjective(<<>>) /\ ToSet(<<>>) = {}
  BY DEF IsInjective, ToSet

(* Trivia is kept as it is, or there is none.                              *)
LEMMA WantedIs ==
  ASSUME TypeOK
  PROVE  /\ \A s \in Numbers : s # None /\ OrNone(Trivia(s)) = IF emitTrivia THEN s ELSE <<>>
         /\ \A s \in Wanted : OrNone(s) \in Numbers
         /\ OrNone(None) = <<>>
<1>1. \A s \in Numbers : s # None
  BY NumbersAre, FilesAssumption
<1>2. OrNone(None) = <<>> /\ \A s \in Numbers : OrNone(s) = s
  BY <1>1 DEF OrNone
<1>3. <<>> \in Numbers
  BY EmptySeq DEF Numbers
<1>4. \A s \in Wanted : s \in Numbers \/ s = None
  BY DEF Wanted
<1>5. \A s \in Wanted : OrNone(s) \in Numbers
  BY ONLY <1>2, <1>3, <1>4
<1>6. emitTrivia \in BOOLEAN
  BY DEF TypeOK, CallOK
<1> QED
  BY ONLY <1>1, <1>2, <1>5, <1>6 DEF Trivia

(* A condition has lines of the file.                                      *)
LEMMA ConditionLinesAre ==
  ASSUME TypeOK, NEW n \in 1 .. Len(conditions)
  PROVE  /\ conditions[n] \in ConditionNode
         /\ LinesOfCondition(conditions[n]) \in Numbers
<1>1. conditions[n] \in ConditionNode
  BY LenProperties, ElementOfSeq DEF TypeOK
<1>2. conditions[n].comments \in Wanted /\ conditions[n].line \in LineNumber
  BY ONLY <1>1 DEF ConditionNode
<1>3. OrNone(conditions[n].comments) \in Numbers
  BY ONLY <1>2, TypeOK, WantedIs
<1>4. LinesOfCondition(conditions[n]) \in Numbers
  BY ONLY <1>2, <1>3, OneLine, ConcatProperties DEF LinesOfCondition, Numbers
<1> QED
  BY ONLY <1>1, <1>4

(* The lines of modifiers, and of what waits for the header.               *)
ModifierLines == FlattenSeq([n \in 1 .. Len(conditions) |-> LinesOfCondition(conditions[n])])
HeadLines == (ModifierLines \o OrNone(Trivia(pending))) \o <<lines[i].line>>

(* The lines of modifiers, one after the other.                            *)
LEMMA ModifierLinesAre ==
  ASSUME TypeOK, ConditionsInOrder, pc = "modifiers"
  PROVE  /\ ModifierLines \in Numbers /\ IsInjective(ModifierLines)
         /\ ToSet(ModifierLines) = ConditionLines
<1> DEFINE seqs == [n \in 1 .. Len(conditions) |-> LinesOfCondition(conditions[n])]
<1>1. Len(conditions) \in Nat
  BY LenProperties DEF TypeOK
<1>2. \A n \in 1 .. Len(conditions) : LinesOfCondition(conditions[n]) \in Numbers
  BY ConditionLinesAre
<1>3. /\ seqs \in Seq(Seq(LineNumber)) /\ Len(seqs) = Len(conditions)
      /\ \A n \in 1 .. Len(conditions) : seqs[n] = LinesOfCondition(conditions[n])
  BY <1>1, <1>2 DEF Numbers
<1> HIDE DEF seqs
<1>4. \A n \in 1 .. Len(seqs) : IsInjective(seqs[n])
  <2>1. \A s \in Numbers : Increasing(s) => IsInjective(s)
    BY NumbersAre, IncreasingInjective
  <2> QED
    BY <1>2, <1>3, <2>1 DEF ConditionsInOrder
<1>5. \A m, n \in 1 .. Len(seqs) : m < n => ToSet(seqs[m]) \cap ToSet(seqs[n]) = {}
  <2> SUFFICES ASSUME NEW m \in 1 .. Len(seqs), NEW n \in 1 .. Len(seqs), m < n,
                      NEW k \in ToSet(seqs[m]), k \in ToSet(seqs[n])
               PROVE  FALSE
    OBVIOUS
  <2>1. Precedes(ToSet(seqs[m]), ToSet(seqs[n]))
    BY <1>3 DEF ConditionsInOrder
  <2>2. k < k
    BY <2>1 DEF Precedes
  <2>3. k \in Int
    BY <1>2, <1>3, NumbersAre
  <2> QED
    BY <2>2, <2>3
<1>6. FlattenSeq(seqs) \in Seq(LineNumber)
  BY ONLY <1>3, FlattenType
<1>7. IsInjective(FlattenSeq(seqs))
  BY ONLY <1>3, <1>4, <1>5, FlattenInjective
<1>8. ToSet(FlattenSeq(seqs)) = UNION {ToSet(seqs[n]) : n \in 1 .. Len(seqs)}
  BY ONLY <1>3, FlattenedSet
<1>9. ToSet(FlattenSeq(seqs)) = ConditionLines
  BY <1>3, <1>8 DEF ConditionLines
<1>10. ModifierLines = FlattenSeq(seqs)
  BY DEF ModifierLines, seqs
<1> QED
  BY <1>6, <1>7, <1>9, <1>10 DEF Numbers

(* Every line that waits is a line, and before the position.               *)
LEMMA HeldLines ==
  ASSUME TypeOK
  PROVE  /\ ConditionLines \subseteq LineNumber /\ ToSet(pending) \subseteq LineNumber
         /\ BlankLines \subseteq LineNumber
<1>1. ToSet(pending) \subseteq LineNumber
  BY NumbersAre DEF TypeOK
<1>2. ConditionLines \subseteq LineNumber
  <2>1. \A n \in 1 .. Len(conditions) : ToSet(LinesOfCondition(conditions[n])) \subseteq LineNumber
    BY ConditionLinesAre, NumbersAre
  <2> QED
    BY <2>1 DEF ConditionLines
<1>3. BlankLines \subseteq LineNumber
  <2>1. blanks.count \in Nat /\ blanks.start \in Nat
    BY DEF TypeOK
  <2>2. CASE blanks.count = 0
    BY <2>1, <2>2 DEF BlankLines
  <2>3. CASE blanks.count > 0
    <3>1. /\ emitTrivia /\ CallOK /\ blanks.start \in LineNumber /\ blanks.start + blanks.count = i
          /\ i \in 1 .. Len(lines) + 1
      BY <2>3 DEF TypeOK
    <3>2. Len(lines) = Len(file) /\ Len(file) \in Nat
      BY ONLY <3>1, CallLines
    <3> QED
      BY <2>1, <3>1, <3>2 DEF BlankLines, LineNumber
  <2> QED
    BY <2>1, <2>2, <2>3
<1> QED
  BY <1>1, <1>2, <1>3

(* What waits for the header, and the header, are each there once.         *)
LEMMA HeadLinesAre ==
  ASSUME TypeOK, OrderOK, pc = "modifiers", More
  PROVE  /\ HeadLines \in Numbers /\ IsInjective(HeadLines)
         /\ ToSet(HeadLines) = ConditionLines \cup (IF emitTrivia THEN ToSet(pending) ELSE {})
                                \cup {lines[i].line}
<1> DEFINE w == OrNone(Trivia(pending))
<1>1. /\ ModifierLines \in Seq(LineNumber) /\ IsInjective(ModifierLines)
      /\ ToSet(ModifierLines) = ConditionLines
  BY ModifierLinesAre DEF OrderOK, Numbers
<1>2. w = IF emitTrivia THEN pending ELSE <<>>
  BY WantedIs DEF TypeOK
<1>3. /\ w \in Seq(LineNumber) /\ IsInjective(w)
      /\ ToSet(w) = IF emitTrivia THEN ToSet(pending) ELSE {}
  <2>1. pending \in Numbers /\ pending \in Seq(Int) /\ Increasing(pending) /\ emitTrivia \in BOOLEAN
    BY NumbersAre DEF TypeOK, OrderOK, CallOK
  <2>2. IsInjective(pending)
    BY ONLY <2>1, IncreasingInjective
  <2>3. <<>> \in Seq(LineNumber) /\ IsInjective(<<>>) /\ ToSet(<<>>) = {}
    BY ONLY NoLine
  <2> QED
    BY ONLY <1>2, <2>1, <2>2, <2>3 DEF Numbers
<1> HIDE DEF w
<1>4. /\ ConditionLines \subseteq LineNumber /\ ToSet(pending) \subseteq LineNumber
      /\ LineNumber \subseteq Nat \ {0}
  BY HeldLines, NumbersAre
<1>5. lines[i].line \in LineNumber
  BY HereIs
<1>6. LineAt(i) = lines[i].line
  BY DEF LineAt, More
<1>7. ToSet(ModifierLines) \cap ToSet(w) = {}
  <2>1. \A a \in ConditionLines, b \in ToSet(pending) : a < b
    BY DEF OrderOK, Precedes
  <2>2. \A a \in ConditionLines : a \in Int /\ a \notin ToSet(pending)
    BY ONLY <1>4, <2>1
  <2> QED
    BY ONLY <1>1, <1>3, <2>2
<1>8. /\ ModifierLines \o w \in Seq(LineNumber) /\ IsInjective(ModifierLines \o w)
      /\ ToSet(ModifierLines \o w) = ToSet(ModifierLines) \cup ToSet(w)
  BY ONLY <1>1, <1>3, <1>7, Joined
<1> DEFINE head == ModifierLines \o w
           last == <<lines[i].line>>
<1>9. head \in Seq(LineNumber) /\ IsInjective(head) /\ ToSet(head) = ToSet(ModifierLines) \cup ToSet(w)
  BY ONLY <1>8
<1>10. last \in Seq(LineNumber) /\ IsInjective(last) /\ ToSet(last) = {lines[i].line}
  BY ONLY <1>5, OneLine
<1>11. HeadLines = head \o last
  BY DEF HeadLines, w
<1> HIDE DEF head, last
<1>12. ToSet(head) \cap ToSet(last) = {}
  <2>1. Precedes(Held, {LineAt(i)})
    BY DEF OrderOK
  <2>2. \A a \in ConditionLines \cup ToSet(pending) : a < lines[i].line /\ a \in Int
    BY ONLY <1>4, <1>6, <2>1 DEF Precedes, Held
  <2>3. lines[i].line \notin ConditionLines \cup ToSet(pending)
    BY ONLY <2>2
  <2> QED
    BY ONLY <1>1, <1>3, <1>9, <1>10, <2>3
<1>13. /\ head \o last \in Seq(LineNumber) /\ IsInjective(head \o last)
       /\ ToSet(head \o last) = ToSet(head) \cup ToSet(last)
  BY ONLY <1>9, <1>10, <1>12, Joined
<1> QED
  BY ONLY <1>1, <1>3, <1>9, <1>10, <1>11, <1>13 DEF Numbers

(* The lines of a body: the texts and, if wanted, the comments.            *)
LinesBetween(a, b) == {lines[n].line : n \in a .. b}
(* The lines of results.                                                   *)
ResultLines(expected) ==
  IF expected = None THEN <<>>
  ELSE IF expected.kind = "hash" THEN <<expected.line>> ELSE expected.values

(* A body has every line between two positions once: as a text, or as a    *)
(* comment if trivia are wanted.                                           *)
LEMMA BodyLines ==
  ASSUME TypeOK, NEW first \in Nat \ {0}, NEW last \in 0 .. Len(lines),
         NEW texts, NEW comments,
         texts = Texts(first, last), comments = OrNone(Trivia(CommentsAmong(first, last)))
  PROVE  /\ texts \in Numbers /\ comments \in Numbers
         /\ IsInjective(texts) /\ IsInjective(comments)
         /\ ToSet(texts) \cap ToSet(comments) = {}
         /\ ToSet(texts) \cup ToSet(comments) \subseteq LinesBetween(first, last)
         /\ emitTrivia => LinesBetween(first, last) \subseteq ToSet(texts) \cup ToSet(comments)
<1> DEFINE C == CommentsAmong(first, last)
           P == {m \in first .. last : ~IsComment(lines[m].text)}
           Q == {m \in first .. last : IsComment(lines[m].text)}
<1>1. CallOK /\ emitTrivia \in BOOLEAN
  BY DEF TypeOK, CallOK
<1>2. /\ texts \in Numbers /\ C \in Numbers /\ Increasing(texts) /\ Increasing(C)
      /\ ToSet(texts) = {lines[n].line : n \in P} /\ ToSet(C) = {lines[n].line : n \in Q}
  BY ONLY <1>1, TextsAre, first \in Nat \ {0}, last \in 0 .. Len(lines), texts = Texts(first, last)
<1> HIDE DEF C
<1>3. IsInjective(texts) /\ IsInjective(C)
  <2>1. texts \in Seq(Int) /\ C \in Seq(Int)
    BY ONLY TypeOK, <1>2, NumbersAre
  <2> QED
    BY ONLY <1>2, <2>1, IncreasingInjective
<1>4. comments = IF emitTrivia THEN C ELSE <<>>
  BY <1>2, WantedIs DEF C
<1>5. <<>> \in Numbers /\ IsInjective(<<>>) /\ ToSet(<<>>) = {}
  BY ONLY NoLine DEF Numbers
<1>6. P \cap Q = {} /\ P \cup Q = first .. last
  OBVIOUS
<1>7. \A m, n \in first .. last : lines[m].line = lines[n].line => m = n
  <2>1. Len(lines) \in Nat /\ \A n \in 1 .. Len(lines) : lines[n].line \in LineNumber
    BY ONLY <1>1, CallLines
  <2>2. \A m, n \in 1 .. Len(lines) : m < n => lines[m].line < lines[n].line
    BY ONLY <1>1, CallLines
  <2>3. \A n \in LineNumber : n \in Int
    BY NumbersAre
  <2>4. \A m \in first .. last : m \in 1 .. Len(lines)
    BY ONLY <2>1, first \in Nat \ {0}, last \in 0 .. Len(lines)
  <2> SUFFICES ASSUME NEW m \in first .. last, NEW n \in first .. last, m # n
               PROVE  lines[m].line # lines[n].line
    OBVIOUS
  <2>5. lines[m].line \in Int /\ lines[n].line \in Int
    BY ONLY <2>1, <2>3, <2>4, m \in first .. last, n \in first .. last
  <2>6. m < n \/ n < m
    BY ONLY <2>1, <2>4, m # n, m \in first .. last, n \in first .. last
  <2> QED
    BY ONLY <2>2, <2>4, <2>5, <2>6
<1>8. ToSet(texts) \cap ToSet(C) = {}
  BY ONLY <1>2, <1>6, <1>7
<1>9. ToSet(texts) \cup ToSet(C) = LinesBetween(first, last)
  BY ONLY <1>2, <1>6 DEF LinesBetween
<1> QED
  BY ONLY <1>1, <1>2, <1>3, <1>4, <1>5, <1>8, <1>9

(* The lines of results are their texts.                                   *)
LEMMA ResultsAre ==
  ASSUME TypeOK, NEW first \in Nat \ {0}, NEW last \in 0 .. Len(lines)
  PROVE  ResultLines(parseExpected(first, last)) = Texts(first, last)
<1> DEFINE texts == Texts(first, last)
           expected == parseExpected(first, last)
<1>1. texts \in Numbers
  BY TextsAre DEF TypeOK
<1>2. /\ texts \in Seq(LineNumber) /\ texts \in Seq(Nat)
      /\ Len(texts) \in Nat /\ \A n \in 1 .. Len(texts) : texts[n] \in Nat
  <2>1. \A n \in LineNumber : n \in Nat
    BY NumbersAre
  <2> QED
    BY <1>1, <2>1, NumbersAre DEF Numbers
<1>3. expected = IF Len(texts) = 1 /\ IsHashLine(file[texts[1]])
                 THEN [kind |-> "hash", line |-> texts[1]]
                 ELSE [kind |-> "values", values |-> texts]
  BY DEF parseExpected
<1> HIDE DEF texts, expected
<1>4. CASE Len(texts) = 1 /\ IsHashLine(file[texts[1]])
  <2>1. texts[1] \in Nat
    BY <1>2, <1>4
  <2>2. expected = [kind |-> "hash", line |-> texts[1]]
    BY <1>3, <1>4
  <2>3. expected # None
    BY ONLY <2>1, <2>2, FilesAssumption
  <2>4. ResultLines(expected) = <<texts[1]>>
    BY ONLY <2>2, <2>3 DEF ResultLines
  <2>5. <<texts[1]>> = texts
    BY ONLY <1>2, <1>4
  <2> QED
    BY <2>4, <2>5 DEF texts, expected
<1>5. CASE ~(Len(texts) = 1 /\ IsHashLine(file[texts[1]]))
  <2>1. expected = [kind |-> "values", values |-> texts]
    BY <1>3, <1>5
  <2>2. expected # None
    BY ONLY <1>2, <2>1, FilesAssumption
  <2>3. ResultLines(expected) = texts
    BY ONLY <2>1, <2>2 DEF ResultLines
  <2> QED
    BY <2>3 DEF texts, expected
<1> QED
  BY <1>4, <1>5

(* The lines of two stretches, one after the other, are not the same.      *)
LEMMA BetweenApart ==
  ASSUME CallOK, NEW a \in Nat \ {0}, NEW b \in 0 .. Len(lines),
         NEW c \in Nat \ {0}, NEW d \in 0 .. Len(lines), b < c
  PROVE  \A m \in LinesBetween(a, b), n \in LinesBetween(c, d) : m < n
<1>1. Len(lines) \in Nat /\ \A m, n \in 1 .. Len(lines) : m < n => lines[m].line < lines[n].line
  BY CallLines
<1>2. ASSUME NEW m \in a .. b, NEW n \in c .. d
      PROVE  lines[m].line < lines[n].line
  BY <1>1
<1> QED
  BY ONLY <1>2 DEF LinesBetween

(* A record takes what waits for its header, the header and its body: each *)
(* line once, and with trivia all of them but a "----".                    *)
TakenBy(node) ==
  /\ node \in Node /\ IsRecord(node)
  /\ node.line = lines[i].line /\ node.conditions = conditions
  /\ node.comments = Trivia(pending)
  /\ LinesOf(node) \in Numbers /\ IsInjective(LinesOf(node))
  /\ LinesIn(node) \subseteq ConditionLines \cup ToSet(pending) \cup LinesBetween(i, i' - 1)
  /\ node.line \in LinesIn(node)
  /\ emitTrivia =>
       \A n \in ConditionLines \cup ToSet(pending) \cup LinesBetween(i, i' - 1) :
         n \in LinesIn(node) \/ IsSeparator(file[n])

(* A head and the body below it have each line once.                       *)
LEMMA HeadAndBody ==
  ASSUME TypeOK, OrderOK, pc = "modifiers", More, NEW last \in i .. Len(lines),
         NEW body \in Numbers, NEW all, IsInjective(body), ToSet(body) \subseteq LinesBetween(i + 1, last),
         all = HeadLines \o body
  PROVE  /\ all \in Numbers /\ IsInjective(all)
         /\ ToSet(all) \subseteq ConditionLines \cup ToSet(pending) \cup LinesBetween(i, last)
         /\ lines[i].line \in ToSet(all)
         /\ emitTrivia => ToSet(all) = ConditionLines \cup ToSet(pending) \cup {lines[i].line} \cup ToSet(body)
<1>1. /\ HeadLines \in Numbers /\ IsInjective(HeadLines)
      /\ ToSet(HeadLines) = ConditionLines \cup (IF emitTrivia THEN ToSet(pending) ELSE {})
                             \cup {lines[i].line}
  BY ONLY TypeOK, OrderOK, pc = "modifiers", More, HeadLinesAre
<1>2. /\ CallOK /\ i \in 1 .. Len(lines) /\ Len(lines) \in Nat
      /\ lines[i].line \in LineNumber
  BY HereIs DEF TypeOK
<1>3. \A k \in LineNumber : k \in Int
  BY NumbersAre
<1>4. lines[i].line \in LinesBetween(i, i)
  BY ONLY <1>2 DEF LinesBetween
<1>5. \A n \in LinesBetween(i + 1, last) : lines[i].line < n
  <2>1. \A m \in LinesBetween(i, i), n \in LinesBetween(i + 1, last) : m < n
    <3>1. /\ i \in Nat \ {0} /\ i \in 0 .. Len(lines) /\ i + 1 \in Nat \ {0} /\ last \in 0 .. Len(lines)
          /\ i < i + 1
      BY ONLY <1>2, last \in i .. Len(lines)
    <3> QED
      BY ONLY <1>2, <3>1, BetweenApart
  <2> QED
    BY ONLY <1>4, <2>1
<1>6. \A n \in ToSet(HeadLines) : n <= lines[i].line /\ n \in Int
  <2>1. Precedes(Held, {LineAt(i)}) /\ LineAt(i) = lines[i].line
    BY DEF OrderOK, LineAt, More
  <2>2. \A n \in ConditionLines \cup ToSet(pending) : n < lines[i].line
    BY ONLY <2>1 DEF Precedes, Held
  <2>3. \A n \in ConditionLines \cup ToSet(pending) : n \in LineNumber
    BY HeldLines
  <2> QED
    BY ONLY <1>1, <1>2, <1>3, <2>2, <2>3
<1>7. ToSet(HeadLines) \cap ToSet(body) = {}
  <2>1. \A n \in ToSet(body) : lines[i].line < n
    BY ONLY <1>5, ToSet(body) \subseteq LinesBetween(i + 1, last)
  <2>2. lines[i].line \in Int
    BY ONLY <1>2, <1>3
  <2> QED
    BY ONLY <1>6, <2>1, <2>2
<1>8. /\ all \in Numbers /\ IsInjective(all) /\ ToSet(all) = ToSet(HeadLines) \cup ToSet(body)
  BY ONLY <1>1, <1>7, body \in Numbers, IsInjective(body), all = HeadLines \o body, Joined DEF Numbers
<1>9. lines[i].line \in LinesBetween(i, last) /\ LinesBetween(i + 1, last) \subseteq LinesBetween(i, last)
  <2>1. i \in i .. last /\ \A n \in i + 1 .. last : n \in i .. last
    BY ONLY <1>2, last \in i .. Len(lines)
  <2> QED
    BY ONLY <2>1 DEF LinesBetween
<1> QED
  BY ONLY <1>1, <1>8, <1>9, ToSet(body) \subseteq LinesBetween(i + 1, last)

(* A header that is read makes a record of all that belongs to it.         *)
LEMMA HeaderRecord ==
  ASSUME TypeOK, OrderOK, Statement \/ Query \/ Control
  PROVE  /\ \E node : records' = Append(records, node) /\ TakenBy(node)
         /\ More /\ pc = "modifiers" /\ pc' = "preamble" /\ pending' = <<>>
         /\ UNCHANGED <<call, blanks, conditions, errors>>
         /\ i' \in i + 1 .. Len(lines) + 1
         /\ i' = IF IsControl(Here) THEN i + 1 ELSE skipToBlank(i + 1)
         /\ ~Malformed(Here) /\ AtHeader
<1> DEFINE stop == skipToBlank(i + 1)
           separator == EndOfSql(i + 1, stop)
           statement ==
             [type |-> "statement", line |-> lines[i].line,
              conditions |-> conditions, comments |-> Trivia(pending),
              expect |-> Word(2), sql |-> Texts(i + 1, stop - 1),
              bodyComments |-> Trivia(CommentsAmong(i + 1, stop - 1))]
           query ==
             [type |-> "query", line |-> lines[i].line,
              conditions |-> conditions, comments |-> Trivia(pending),
              types |-> Word(2), sort |-> IF Word(3) = None THEN "nosort" ELSE Word(3),
              label |-> Word(4), sql |-> Texts(i + 1, separator - 1),
              bodyComments |-> Trivia(CommentsAmong(i + 1, separator - 1)),
              expected |-> IF separator = stop THEN None
                           ELSE parseExpected(separator + 1, stop - 1),
              resultComments |-> Trivia(CommentsAmong(separator + 1, stop - 1))]
           control ==
             [type |-> Word(1), line |-> lines[i].line,
              conditions |-> conditions, comments |-> Trivia(pending)]
<1>1. /\ More /\ pc = "modifiers" /\ pc' = "preamble" /\ pending' = <<>>
      /\ UNCHANGED <<call, blanks, conditions, errors>>
      /\ ~Malformed(Here) /\ AtHeader
  BY DEF Statement, Query, Control, ReadsHeader, AtHeader, InModifiers
<1>2. /\ CallOK /\ i \in 1 .. Len(lines) /\ Len(lines) \in Nat
      /\ lines[i].line \in LineNumber
  BY <1>1, HereIs DEF TypeOK
<1>3. stop \in i + 1 .. Len(lines) + 1
  BY ONLY TypeOK, <1>1, BodyIs
<1>4. TypeOK'
  BY TypeStep DEF ParseNext, Record
<1>5. ASSUME NEW node, records' = Append(records, node)
      PROVE  node \in Node
  <2>1. records' \in Seq(Node) /\ records \in Seq(Node)
    BY <1>1, <1>4, SameTypes DEF TypeOK
  <2>2. Len(records') = Len(records) + 1 /\ records'[Len(records) + 1] = node /\ Len(records) \in Nat
    BY ONLY <1>5, <2>1, LenProperties, AppendProperties
  <2>3. Len(records) + 1 \in 1 .. Len(records')
    BY ONLY <2>2
  <2> QED
    BY ONLY <2>1, <2>2, <2>3, ElementOfSeq
<1> DEFINE S == ConditionLines \cup ToSet(pending)
<1>6. ASSUME NEW node, records' = Append(records, node), node.type \notin {"comment", "blank"},
             node.line = lines[i].line, node.conditions = conditions, node.comments = Trivia(pending),
             NEW body \in Numbers, IsInjective(body), ToSet(body) \subseteq LinesBetween(i + 1, i' - 1),
             LinesOf(node) = HeadLines \o body, i' \in i + 1 .. Len(lines) + 1,
             emitTrivia => \A n \in LinesBetween(i + 1, i' - 1) : n \in ToSet(body) \/ IsSeparator(file[n])
      PROVE  TakenBy(node)
  <2>1. i' - 1 \in i .. Len(lines)
    BY ONLY <1>2, <1>6
  <2>2. /\ LinesOf(node) \in Numbers /\ IsInjective(LinesOf(node))
        /\ ToSet(LinesOf(node)) \subseteq S \cup LinesBetween(i, i' - 1)
        /\ lines[i].line \in ToSet(LinesOf(node))
        /\ emitTrivia => ToSet(LinesOf(node)) = S \cup {lines[i].line} \cup ToSet(body)
    BY ONLY TypeOK, OrderOK, <1>1, <1>6, <2>1, HeadAndBody
  <2>3. \A n \in LinesBetween(i, i' - 1) : n = lines[i].line \/ n \in LinesBetween(i + 1, i' - 1)
    <3>1. \A n \in i .. i' - 1 : n = i \/ n \in i + 1 .. i' - 1
      BY ONLY <1>2, <2>1
    <3> QED
      BY ONLY <3>1 DEF LinesBetween
  <2>4. emitTrivia => \A n \in S \cup LinesBetween(i, i' - 1) :
                        n \in ToSet(LinesOf(node)) \/ IsSeparator(file[n])
    BY ONLY <1>6, <2>2, <2>3
  <2>5. node \in Node
    BY <1>5, <1>6
  <2> QED
    BY ONLY <1>6, <2>2, <2>4, <2>5 DEF TakenBy, IsRecord, LinesIn
<1> HIDE DEF S
<1>7. CASE Statement
  <2> DEFINE texts == Texts(i + 1, stop - 1)
             comments == OrNone(Trivia(CommentsAmong(i + 1, stop - 1)))
             body == texts \o comments
  <2>1. i' = stop /\ records' = Append(records, statement) /\ Word(1) = "statement"
    BY <1>7 DEF Statement
  <2>2. ~IsControl(Here)
    BY ONLY <2>1 DEF IsControl, Word
  <2>3. i + 1 \in Nat \ {0} /\ stop - 1 \in 0 .. Len(lines)
    BY ONLY <1>2, <1>3
  <2>4. /\ texts \in Numbers /\ comments \in Numbers
        /\ IsInjective(texts) /\ IsInjective(comments)
        /\ ToSet(texts) \cap ToSet(comments) = {}
        /\ ToSet(texts) \cup ToSet(comments) \subseteq LinesBetween(i + 1, stop - 1)
        /\ emitTrivia => LinesBetween(i + 1, stop - 1) \subseteq ToSet(texts) \cup ToSet(comments)
    BY ONLY TypeOK, <2>3, BodyLines
  <2>5. LinesOf(statement) = (HeadLines \o body) \o <<>>
    BY DEF LinesOf, HeadLines, ModifierLines, LinesOfCondition
  <2>6. /\ statement.type = "statement" /\ statement.line = lines[i].line
        /\ statement.conditions = conditions /\ statement.comments = Trivia(pending)
    OBVIOUS
  <2> HIDE DEF statement, texts, comments
  <2>7. body \in Numbers /\ IsInjective(body) /\ ToSet(body) = ToSet(texts) \cup ToSet(comments)
    BY ONLY <2>4, Joined DEF Numbers
  <2> HIDE DEF body, stop
  <2>8. LinesOf(statement) = HeadLines \o body
    <3>1. HeadLines \in Numbers
      BY <1>1, HeadLinesAre
    <3>2. HeadLines \o body \in Seq(LineNumber)
      BY ONLY <2>7, <3>1, ConcatProperties DEF Numbers
    <3> QED
      BY ONLY <2>5, <3>2, ConcatEmptySeq
  <2>9. TakenBy(statement)
    BY ONLY <1>3, <1>6, <2>1, <2>4, <2>6, <2>7, <2>8
  <2> QED
    BY <1>1, <1>3, <2>1, <2>2, <2>9 DEF stop
<1>8. CASE Query
  <2> DEFINE texts == Texts(i + 1, separator - 1)
             comments == OrNone(Trivia(CommentsAmong(i + 1, separator - 1)))
             sqlLines == texts \o comments
             more == OrNone(Trivia(CommentsAmong(separator + 1, stop - 1)))
             expected == IF separator = stop THEN None ELSE parseExpected(separator + 1, stop - 1)
             values == ResultLines(expected)
             results == more \o values
             body == sqlLines \o results
  <2>1. i' = stop /\ records' = Append(records, query) /\ Word(1) = "query"
    BY <1>8 DEF Query
  <2>2. ~IsControl(Here)
    BY ONLY <2>1 DEF IsControl, Word
  <2>3. /\ separator \in i + 1 .. stop
        /\ separator < stop => IsSeparator(lines[separator].text)
    <3>1. i + 1 \in Nat /\ stop \in Nat /\ i + 1 <= stop
      BY ONLY <1>2, <1>3
    <3> QED
      BY ONLY <3>1, EndOfSqlIs
  <2>4. LinesOf(query) = (HeadLines \o sqlLines) \o results
    BY DEF LinesOf, HeadLines, ModifierLines, LinesOfCondition, ResultLines
  <2>5. /\ query.type = "query" /\ query.line = lines[i].line
        /\ query.conditions = conditions /\ query.comments = Trivia(pending)
    OBVIOUS
  <2> HIDE DEF query, separator, stop
  <2>6. /\ i + 1 \in Nat \ {0} /\ separator - 1 \in 0 .. Len(lines)
        /\ separator + 1 \in Nat \ {0} /\ stop - 1 \in 0 .. Len(lines)
        /\ separator - 1 < separator + 1
    BY ONLY <1>2, <1>3, <2>3
  <2>7. /\ texts \in Numbers /\ comments \in Numbers
        /\ IsInjective(texts) /\ IsInjective(comments)
        /\ ToSet(texts) \cap ToSet(comments) = {}
        /\ ToSet(texts) \cup ToSet(comments) \subseteq LinesBetween(i + 1, separator - 1)
        /\ emitTrivia => LinesBetween(i + 1, separator - 1) \subseteq ToSet(texts) \cup ToSet(comments)
    BY ONLY TypeOK, <2>6, BodyLines
  <2>8. /\ more \in Numbers /\ values \in Numbers
        /\ IsInjective(more) /\ IsInjective(values)
        /\ ToSet(values) \cap ToSet(more) = {}
        /\ ToSet(values) \cup ToSet(more) \subseteq LinesBetween(separator + 1, stop - 1)
        /\ emitTrivia => LinesBetween(separator + 1, stop - 1) \subseteq ToSet(values) \cup ToSet(more)
    <3> DEFINE all == Texts(separator + 1, stop - 1)
    <3>1. /\ all \in Numbers /\ more \in Numbers
          /\ IsInjective(all) /\ IsInjective(more)
          /\ ToSet(all) \cap ToSet(more) = {}
          /\ ToSet(all) \cup ToSet(more) \subseteq LinesBetween(separator + 1, stop - 1)
          /\ emitTrivia => LinesBetween(separator + 1, stop - 1) \subseteq ToSet(all) \cup ToSet(more)
      BY ONLY TypeOK, <2>6, BodyLines
    <3> HIDE DEF more
    <3>2. CASE separator # stop
      <4>1. values = all
        BY ONLY TypeOK, <2>6, <3>2, ResultsAre
      <4> QED
        BY ONLY <3>1, <4>1
    <3>3. CASE separator = stop
      <4>1. values = <<>>
        BY ONLY <3>3 DEF ResultLines
      <4>2. values \in Numbers /\ IsInjective(values) /\ ToSet(values) = {}
        BY ONLY <4>1, NoLine DEF Numbers
      <4>3. LinesBetween(separator + 1, stop - 1) = {}
        BY ONLY <1>2, <1>3, <2>3, <3>3 DEF LinesBetween
      <4> HIDE DEF values
      <4> QED
        BY ONLY <3>1, <4>2, <4>3
    <3> QED
      BY ONLY <3>2, <3>3
  <2>9. LinesBetween(i + 1, stop - 1) \subseteq
          LinesBetween(i + 1, separator - 1) \cup LinesBetween(separator + 1, stop - 1)
            \cup {n \in {lines[separator].line} : separator < stop}
    <3>1. \A n \in i + 1 .. stop - 1 :
            \/ n \in i + 1 .. separator - 1
            \/ n \in separator + 1 .. stop - 1
            \/ n = separator /\ separator < stop
      BY ONLY <1>2, <1>3, <2>3
    <3> QED
      BY ONLY <3>1 DEF LinesBetween
  <2>10. /\ LinesBetween(i + 1, separator - 1) \subseteq LinesBetween(i + 1, stop - 1)
         /\ LinesBetween(separator + 1, stop - 1) \subseteq LinesBetween(i + 1, stop - 1)
    <3>1. /\ \A n \in i + 1 .. separator - 1 : n \in i + 1 .. stop - 1
          /\ \A n \in separator + 1 .. stop - 1 : n \in i + 1 .. stop - 1
      BY ONLY <1>2, <1>3, <2>3
    <3> QED
      BY ONLY <3>1 DEF LinesBetween
  <2>11. separator < stop => IsSeparator(file[lines[separator].line])
    <3>1. separator < stop => separator \in 1 .. Len(lines)
      BY ONLY <1>2, <1>3, <2>3
    <3>2. \A n \in 1 .. Len(lines) : lines[n].text = file[lines[n].line]
      BY ONLY <1>2, CallLines
    <3> QED
      BY ONLY <2>3, <3>1, <3>2
  <2>12. \A m \in LinesBetween(i + 1, separator - 1), n \in LinesBetween(separator + 1, stop - 1) : m < n
    BY ONLY <1>2, <2>6, BetweenApart
  <2> HIDE DEF texts, comments, more, values
  <2>13. sqlLines \in Numbers /\ IsInjective(sqlLines) /\ ToSet(sqlLines) = ToSet(texts) \cup ToSet(comments)
    BY ONLY <2>7, Joined DEF Numbers
  <2>14. results \in Numbers /\ IsInjective(results) /\ ToSet(results) = ToSet(more) \cup ToSet(values)
    BY ONLY <2>8, Joined DEF Numbers
  <2> HIDE DEF sqlLines, results
  <2>15. ToSet(sqlLines) \cap ToSet(results) = {}
    <3>1. \A n \in Numbers : ToSet(n) \subseteq LineNumber
      BY NumbersAre
    <3>2. \A n \in LineNumber : n \in Int
      BY NumbersAre
    <3>3. \A m \in ToSet(sqlLines), n \in ToSet(results) : m < n
      BY ONLY <2>7, <2>8, <2>12, <2>13, <2>14
    <3> QED
      BY ONLY <2>13, <2>14, <3>1, <3>2, <3>3
  <2>16. body \in Numbers /\ IsInjective(body) /\ ToSet(body) = ToSet(sqlLines) \cup ToSet(results)
    BY ONLY <2>13, <2>14, <2>15, Joined DEF Numbers
  <2>17. LinesOf(query) = HeadLines \o body
    <3>1. HeadLines \in Numbers
      BY <1>1, HeadLinesAre
    <3>2. ASSUME NEW a \in Seq(LineNumber), NEW b \in Seq(LineNumber), NEW c \in Seq(LineNumber)
          PROVE  (a \o b) \o c = a \o (b \o c)
      OBVIOUS
    <3> QED
      BY ONLY <2>4, <2>13, <2>14, <3>1, <3>2 DEF Numbers
  <2> HIDE DEF body
  <2>18. ToSet(body) \subseteq LinesBetween(i + 1, stop - 1)
    BY ONLY <2>7, <2>8, <2>10, <2>13, <2>14, <2>16
  <2>19. emitTrivia => \A n \in LinesBetween(i + 1, stop - 1) : n \in ToSet(body) \/ IsSeparator(file[n])
    BY ONLY <2>7, <2>8, <2>9, <2>11, <2>13, <2>14, <2>16
  <2>20. TakenBy(query)
    BY ONLY <1>3, <1>6, <2>1, <2>5, <2>16, <2>17, <2>18, <2>19
  <2> QED
    BY <1>1, <1>3, <2>1, <2>2, <2>20 DEF stop
<1>9. CASE Control
  <2>1. i' = i + 1 /\ records' = Append(records, control) /\ IsControl(Here)
        /\ (Word(1) = "hash-threshold" \/ Word(1) = "halt")
    BY <1>9 DEF Control, IsControl, Word
  <2>2. LinesOf(control) = (HeadLines \o <<>>) \o <<>>
    BY <2>1 DEF LinesOf, HeadLines, ModifierLines, LinesOfCondition
  <2>3. /\ control.type \notin {"comment", "blank"} /\ control.line = lines[i].line
        /\ control.conditions = conditions /\ control.comments = Trivia(pending)
    BY <2>1
  <2> HIDE DEF control
  <2>4. LinesOf(control) = HeadLines \o <<>>
    <3>1. HeadLines \in Numbers
      BY <1>1, HeadLinesAre
    <3> QED
      BY ONLY <2>2, <3>1, ConcatEmptySeq DEF Numbers
  <2>5. <<>> \in Numbers /\ IsInjective(<<>>) /\ ToSet(<<>>) = {}
    BY ONLY NoLine DEF Numbers
  <2>6. i' \in i + 1 .. Len(lines) + 1
    BY ONLY <1>2, <2>1
  <2>7. LinesBetween(i + 1, i' - 1) = {}
    BY ONLY <1>2, <2>1 DEF LinesBetween
  <2>8. TakenBy(control)
    BY ONLY <1>6, <2>1, <2>3, <2>4, <2>5, <2>6, <2>7
  <2> QED
    BY <1>1, <2>1, <2>6, <2>8
<1> QED
  BY <1>7, <1>8, <1>9

(* What is before a set of lines is before what comes later.               *)
Later(A, B) == B \subseteq Nat /\ \A b \in B : \E a \in A : a <= b

(* What is before a set is before what comes later.                        *)
LEMMA BeforeLater ==
  ASSUME NEW nodes, NEW A, NEW B, RecordsBefore(nodes, A), A \subseteq Nat, Later(A, B)
  PROVE  RecordsBefore(nodes, B)
<1>1. ASSUME NEW n \in 1 .. Len(nodes), NEW k \in LinesIn(nodes[n]), NEW b \in B
      PROVE  k < b
  <2>1. PICK a \in A : a <= b
    BY DEF Later
  <2>2. k < a
    BY DEF RecordsBefore, Precedes
  <2>3. k \in Nat
    <3>1. LinesOf(nodes[n]) \in Seq(Nat)
      BY DEF RecordsBefore
    <3>2. ToSet(LinesOf(nodes[n])) \subseteq Nat
      BY ONLY <3>1, LenProperties, ElementOfSeq DEF ToSet
    <3> QED
      BY <3>2 DEF LinesIn
  <2>4. a \in Nat /\ b \in Nat
    BY DEF Later
  <2> QED
    BY ONLY <2>1, <2>2, <2>3, <2>4
<1> QED
  BY <1>1 DEF RecordsBefore, Precedes

(* A part of a set comes no sooner than the set.                           *)
LEMMA LaterIn ==
  ASSUME NEW A, NEW B, A \subseteq Nat, B \subseteq A
  PROVE  Later(A, B)
<1>1. \A b \in B : b \in A /\ b \in Nat
  OBVIOUS
<1>2. \A b \in Nat : b <= b
  OBVIOUS
<1> QED
  BY <1>1, <1>2 DEF Later

(* Nodes in order, and more of them after these.                           *)
LEMMA BeforeConcat ==
  ASSUME NEW S, NEW nodes \in Seq(S), NEW more \in Seq(S), NEW A, NEW B,
         RecordsBefore(nodes, A), RecordsBefore(more, B), A \subseteq Nat, Later(A, B),
         \A n \in 1 .. Len(more) : Later(A, LinesIn(more[n]))
  PROVE  RecordsBefore(nodes \o more, B)
<1> DEFINE all == nodes \o more
           M == Len(nodes)
           N == Len(more)
<1>1. /\ M \in Nat /\ N \in Nat /\ Len(all) = M + N
      /\ \A n \in 1 .. M : all[n] = nodes[n]
      /\ \A n \in 1 .. N : all[M + n] = more[n]
  BY LenProperties, ConcatProperties
<1>2. \A n \in 1 .. M + N :
        \/ n \in 1 .. M /\ all[n] = nodes[n]
        \/ n - M \in 1 .. N /\ all[n] = more[n - M]
  <2>1. \A n \in 1 .. M + N : n \in 1 .. M \/ (n - M \in 1 .. N /\ M + (n - M) = n)
    BY ONLY <1>1
  <2> HIDE DEF all, M, N
  <2>2. ASSUME NEW n \in 1 .. M + N
        PROVE  (n \in 1 .. M /\ all[n] = nodes[n]) \/ (n - M \in 1 .. N /\ all[n] = more[n - M])
    <3>1. CASE n \in 1 .. M
      BY ONLY <1>1, <3>1
    <3>2. CASE n - M \in 1 .. N /\ M + (n - M) = n
      <4>1. all[M + (n - M)] = more[n - M]
        BY ONLY <1>1, <3>2
      <4> QED
        BY ONLY <3>2, <4>1
    <3> QED
      BY <2>1, <3>1, <3>2
  <2> QED
    BY ONLY <2>2
<1>3. RecordsBefore(nodes, B)
  BY BeforeLater
<1>4. \A n \in 1 .. N : RecordsBefore(nodes, LinesIn(more[n]))
  BY BeforeLater
<1> HIDE DEF all, M, N
<1>5. \A n \in 1 .. M + N :
        /\ LinesOf(all[n]) \in Seq(Nat) /\ IsInjective(LinesOf(all[n]))
        /\ Precedes(LinesIn(all[n]), B)
  BY <1>2, <1>3 DEF RecordsBefore, M, N
<1>6. ASSUME NEW m \in 1 .. M + N, NEW n \in 1 .. M + N, m < n
      PROVE  Precedes(LinesIn(all[m]), LinesIn(all[n]))
  <2>1. CASE n \in 1 .. M /\ all[n] = nodes[n]
    <3>1. m \in 1 .. M /\ all[m] = nodes[m]
      BY ONLY <1>1, <1>6, <2>1
    <3> QED
      BY ONLY <1>3, <1>6, <2>1, <3>1 DEF RecordsBefore, M
  <2>2. CASE n - M \in 1 .. N /\ all[n] = more[n - M]
    <3>1. CASE m \in 1 .. M /\ all[m] = nodes[m]
      BY ONLY <1>4, <2>2, <3>1 DEF RecordsBefore, M
    <3>2. CASE m - M \in 1 .. N /\ all[m] = more[m - M]
      <4>1. m - M < n - M
        BY ONLY <1>1, <1>6
      <4> QED
        BY ONLY RecordsBefore(more, B), <2>2, <3>2, <4>1 DEF RecordsBefore, N
    <3> QED
      BY <1>2, <3>1, <3>2
  <2> QED
    BY <1>2, <2>1, <2>2
<1> QED
  BY <1>1, <1>5, <1>6 DEF RecordsBefore, all

(* The lines a comment, and a run of blank lines, are made of.             *)
LEMMA CommentLines ==
  ASSUME NEW n \in Nat
  PROVE  /\ LinesOf(Comment(n)) \in Seq(Nat) /\ IsInjective(LinesOf(Comment(n)))
         /\ LinesIn(Comment(n)) = {n}
<1>1. LinesOf(Comment(n)) = <<n>>
  BY DEF LinesOf, Comment
<1> QED
  BY ONLY <1>1, OneLine, n \in Nat DEF LinesIn

(* A run of blank lines has the lines of the run.                          *)
LEMMA BlankLinesOf ==
  ASSUME NEW run \in [start : Nat, count : Nat], NEW node, node = BlankRun(run)
  PROVE  /\ LinesOf(node) \in Seq(Nat) /\ IsInjective(LinesOf(node))
         /\ LinesIn(node) = run.start .. run.start + run.count - 1
<1>1. LinesOf(node) = [n \in 1 .. run.count |-> run.start + n - 1]
  BY DEF LinesOf, BlankRun
<1>2. run.count \in Nat /\ run.start \in Nat
  OBVIOUS
<1>3. LinesOf(node) \in Seq(Nat) /\ DOMAIN LinesOf(node) = 1 .. run.count
  BY ONLY <1>1, <1>2
<1>4. IsInjective(LinesOf(node))
  BY ONLY <1>1, <1>2 DEF IsInjective
<1>5. ToSet(LinesOf(node)) = {run.start + n - 1 : n \in 1 .. run.count}
  BY ONLY <1>1 DEF ToSet
<1>6. {run.start + n - 1 : n \in 1 .. run.count} = run.start .. run.start + run.count - 1
  <2>1. \A k \in run.start .. run.start + run.count - 1 :
          k - run.start + 1 \in 1 .. run.count /\ run.start + (k - run.start + 1) - 1 = k
    BY ONLY <1>2
  <2>2. \A n \in 1 .. run.count : run.start + n - 1 \in run.start .. run.start + run.count - 1
    BY ONLY <1>2
  <2> QED
    BY ONLY <2>1, <2>2
<1> QED
  BY ONLY <1>3, <1>4, <1>5, <1>6 DEF LinesIn

(* Positions and what waits are numbers, and grow with the lines.          *)
LEMMA FrontIs ==
  ASSUME TypeOK
  PROVE  /\ Held \subseteq Nat
         /\ \A n \in 1 .. Len(lines) + 1 : LineAt(n) \in Nat
         /\ \A m, n \in 1 .. Len(lines) + 1 : m < n => LineAt(m) < LineAt(n)
         /\ Len(lines) \in Nat /\ i \in 1 .. Len(lines) + 1
         /\ emitTrivia => \A n \in 1 .. Len(lines) + 1 : LineAt(n) = n
<1>1. /\ Len(lines) \in Nat /\ Len(file) \in Nat /\ i \in 1 .. Len(lines) + 1
      /\ \A n \in 1 .. Len(lines) : lines[n].line \in LineNumber
      /\ \A m, n \in 1 .. Len(lines) : m < n => lines[m].line < lines[n].line
      /\ emitTrivia => Len(lines) = Len(file) /\ \A n \in LineNumber : lines[n].line = n
  BY CallLines DEF TypeOK
<1>2. \A n \in LineNumber : n \in Nat /\ n < Len(file) + 1
  BY ONLY <1>1 DEF LineNumber
<1>3. \A n \in 1 .. Len(lines) + 1 :
        \/ n \in 1 .. Len(lines) /\ n <= Len(lines) /\ LineAt(n) = lines[n].line
        \/ n = Len(lines) + 1 /\ LineAt(n) = Len(file) + 1
  BY ONLY <1>1 DEF LineAt
<1>4. \A n \in 1 .. Len(lines) + 1 : LineAt(n) \in Nat
  BY ONLY <1>1, <1>2, <1>3
<1>5. \A m, n \in 1 .. Len(lines) + 1 : m < n => LineAt(m) < LineAt(n)
  <2> SUFFICES ASSUME NEW m \in 1 .. Len(lines) + 1, NEW n \in 1 .. Len(lines) + 1, m < n
               PROVE  LineAt(m) < LineAt(n)
    OBVIOUS
  <2>1. m \in 1 .. Len(lines) /\ LineAt(m) = lines[m].line
    BY ONLY <1>1, <1>3, m < n, m \in 1 .. Len(lines) + 1, n \in 1 .. Len(lines) + 1
  <2>2. CASE n \in 1 .. Len(lines) /\ LineAt(n) = lines[n].line
    BY ONLY <1>1, <2>1, <2>2, m < n
  <2>3. CASE LineAt(n) = Len(file) + 1
    BY ONLY <1>1, <1>2, <2>1, <2>3
  <2> QED
    BY ONLY <1>3, <2>2, <2>3, n \in 1 .. Len(lines) + 1
<1>6. Held \subseteq Nat
  <2>1. Held \subseteq LineNumber
    BY HeldLines DEF Held
  <2> QED
    BY ONLY <1>2, <2>1
<1>7. emitTrivia => \A n \in 1 .. Len(lines) + 1 : LineAt(n) = n
  BY ONLY <1>1, <1>3 DEF LineNumber
<1> QED
  BY ONLY <1>1, <1>4, <1>5, <1>6, <1>7

(* The run of blank lines, and the comments, that a step makes records of. *)
LEMMA BlankRunBefore ==
  ASSUME TypeOK, OrderOK, pc = "preamble"
  PROVE  RecordsBefore(WithBlankRun, ToSet(pending) \cup {LineAt(i)})
<1> DEFINE A == Held \cup {LineAt(i)}
           B == ToSet(pending) \cup {LineAt(i)}
<1>1. A \subseteq Nat /\ B \subseteq A
  BY FrontIs DEF Held
<1>2. Later(A, B)
  BY ONLY <1>1, LaterIn
<1>3. RecordsBefore(records, A) /\ Precedes(Held, {LineAt(i)})
  BY DEF OrderOK
<1>4. CASE blanks.count = 0
  <2>1. WithBlankRun = records
    BY <1>4 DEF WithBlankRun
  <2> HIDE DEF A, B
  <2> QED
    BY <1>1, <1>2, <1>3, <2>1, BeforeLater DEF B
<1>5. CASE blanks.count > 0
  <2> DEFINE node == BlankRun(blanks)
             more == <<node>>
  <2>1. blanks \in [start : Nat, count : Nat] /\ pending = <<>> /\ records \in Seq(Node)
    BY <1>5 DEF TypeOK
  <2>2. node \in Node
    BY <1>5 DEF TypeOK, BlankRun, Node, BlankNode
  <2> HIDE DEF node
  <2>3. /\ LinesOf(node) \in Seq(Nat) /\ IsInjective(LinesOf(node))
        /\ LinesIn(node) = BlankLines
    BY ONLY <2>1, BlankLinesOf DEF node, BlankLines
  <2>4. B = {LineAt(i)}
    BY ONLY <2>1 DEF ToSet
  <2>5. Precedes(BlankLines, B)
    BY ONLY <1>3, <2>4 DEF Precedes, Held
  <2> HIDE DEF A, B
  <2>6. more \in Seq(Node) /\ Len(more) = 1 /\ more[1] = node
    BY ONLY <2>2
  <2>7. RecordsBefore(more, B)
    BY ONLY <2>3, <2>5, <2>6 DEF RecordsBefore
  <2>8. Later(A, LinesIn(node))
    <3>1. BlankLines \subseteq A
      BY DEF A, Held
    <3> QED
      BY ONLY <1>1, <2>3, <3>1, LaterIn
  <2>9. \A n \in 1 .. Len(more) : Later(A, LinesIn(more[n]))
    BY ONLY <2>6, <2>8
  <2> HIDE DEF more
  <2>10. RecordsBefore(records \o more, B)
    BY ONLY <1>1, <1>2, <1>3, <2>1, <2>6, <2>7, <2>9, BeforeConcat
  <2>11. WithBlankRun = records \o more
    <3>1. WithBlankRun = Append(records, node)
      BY <1>5 DEF WithBlankRun, node
    <3>2. Append(records, node) = records \o <<node>>
      BY ONLY <2>1, <2>2
    <3> QED
      BY ONLY <3>1, <3>2 DEF more
  <2> QED
    BY <2>10, <2>11 DEF B
<1>6. blanks.count \in Nat
  BY DEF TypeOK
<1> QED
  BY ONLY <1>4, <1>5, <1>6

(* Comments that are flushed come before what is left.                     *)
LEMMA PendingBefore ==
  ASSUME TypeOK, OrderOK, NEW nodes \in Seq(Node), NEW A, NEW B, A \subseteq Nat,
         RecordsBefore(nodes, A), ToSet(pending) \subseteq A, Later(A, B),
         Precedes(ToSet(pending), B)
  PROVE  RecordsBefore(nodes \o WithPending, B)
<1> DEFINE more == WithPending
<1>1. pending \in Numbers /\ Increasing(pending)
  BY DEF TypeOK, OrderOK
<1>2. /\ more \in Seq(Node) /\ Len(more) = Len(pending)
      /\ \A n \in 1 .. Len(pending) : more[n] = Comment(pending[n])
  BY <1>1, CommentNodes
<1>3. \A n \in 1 .. Len(pending) : pending[n] \in Nat /\ pending[n] \in ToSet(pending)
  <2>1. \A n \in 1 .. Len(pending) : pending[n] \in LineNumber /\ pending[n] \in ToSet(pending)
    BY <1>1, NumbersAre
  <2>2. \A n \in LineNumber : n \in Nat
    BY NumbersAre
  <2> QED
    BY ONLY <2>1, <2>2
<1> HIDE DEF more
<1>4. \A n \in 1 .. Len(more) :
        /\ LinesOf(more[n]) \in Seq(Nat) /\ IsInjective(LinesOf(more[n]))
        /\ LinesIn(more[n]) = {pending[n]}
  BY ONLY <1>2, <1>3, CommentLines
<1>5. RecordsBefore(more, B)
  <2>1. \A n \in 1 .. Len(more) : Precedes(LinesIn(more[n]), B)
    <3> SUFFICES ASSUME NEW n \in 1 .. Len(more)
                 PROVE  Precedes(LinesIn(more[n]), B)
      OBVIOUS
    <3>1. n \in 1 .. Len(pending)
      BY ONLY <1>2
    <3>2. pending[n] \in ToSet(pending) /\ LinesIn(more[n]) = {pending[n]}
      BY ONLY <1>3, <1>4, <3>1, n \in 1 .. Len(more)
    <3> QED
      BY ONLY <3>2, Precedes(ToSet(pending), B) DEF Precedes
  <2>2. \A m, n \in 1 .. Len(more) : m < n => Precedes(LinesIn(more[m]), LinesIn(more[n]))
    <3> SUFFICES ASSUME NEW m \in 1 .. Len(more), NEW n \in 1 .. Len(more), m < n
                 PROVE  Precedes(LinesIn(more[m]), LinesIn(more[n]))
      OBVIOUS
    <3>1. m \in 1 .. Len(pending) /\ n \in 1 .. Len(pending)
      BY ONLY <1>2
    <3>2. pending[m] < pending[n]
      BY ONLY <1>1, <3>1, m < n DEF Increasing
    <3>3. LinesIn(more[m]) = {pending[m]} /\ LinesIn(more[n]) = {pending[n]}
      BY ONLY <1>4
    <3> QED
      BY ONLY <3>2, <3>3 DEF Precedes
  <2> QED
    BY ONLY <1>4, <2>1, <2>2 DEF RecordsBefore
<1>6. \A n \in 1 .. Len(more) : Later(A, LinesIn(more[n]))
  <2> SUFFICES ASSUME NEW n \in 1 .. Len(more)
               PROVE  Later(A, LinesIn(more[n]))
    OBVIOUS
  <2>1. n \in 1 .. Len(pending)
    BY ONLY <1>2
  <2>2. pending[n] \in ToSet(pending) /\ LinesIn(more[n]) = {pending[n]}
    BY ONLY <1>3, <1>4, <2>1, n \in 1 .. Len(more)
  <2>3. LinesIn(more[n]) \subseteq A
    BY ONLY <2>2, ToSet(pending) \subseteq A
  <2> QED
    BY ONLY <2>3, A \subseteq Nat, LaterIn
<1>7. RecordsBefore(nodes \o more, B)
  BY ONLY nodes \in Seq(Node), A \subseteq Nat, RecordsBefore(nodes, A), Later(A, B),
          <1>2, <1>5, <1>6, BeforeConcat
<1> QED
  BY <1>7 DEF more

(* What is in a set, or after a member of it, comes no sooner.             *)
LEMMA LaterOrNext ==
  ASSUME NEW A, NEW B, NEW x \in A, A \subseteq Nat, \A b \in B : b \in A \/ (b \in Nat /\ x <= b)
  PROVE  Later(A, B)
<1>1. \A a \in A : a \in Nat /\ a <= a
  OBVIOUS
<1>2. \A b \in B : b \in Nat /\ \E a \in A : a <= b
  BY <1>1
<1> QED
  BY <1>2 DEF Later

(* A greater number at the end keeps the order.                            *)
LEMMA AppendIncreasing ==
  ASSUME NEW s \in Seq(Nat), NEW n \in Nat, Increasing(s), \A k \in ToSet(s) : k < n
  PROVE  Increasing(Append(s, n)) /\ ToSet(Append(s, n)) = ToSet(s) \cup {n}
<1> DEFINE t == Append(s, n)
           N == Len(s)
<1>1. /\ N \in Nat /\ Len(t) = N + 1 /\ DOMAIN s = 1 .. N /\ DOMAIN t = 1 .. N + 1
      /\ \A k \in 1 .. N : t[k] = s[k]
      /\ t[N + 1] = n
  BY LenProperties, AppendProperties
<1>2. \A k \in 1 .. N + 1 : k \in 1 .. N \/ k = N + 1
  BY ONLY <1>1
<1>3. \A k \in 1 .. N : k \in 1 .. N + 1
  BY ONLY <1>1
<1> HIDE DEF t, N
<1>4. \A k \in 1 .. N : s[k] \in ToSet(s)
  BY ONLY <1>1 DEF ToSet
<1>5. Increasing(t)
  <2>1. ASSUME NEW a \in 1 .. N + 1, NEW b \in 1 .. N + 1, a < b
        PROVE  t[a] < t[b]
    <3>1. a \in 1 .. N
      BY ONLY <1>1, <2>1
    <3>2. CASE b \in 1 .. N
      BY ONLY <1>1, <2>1, <3>1, <3>2, Increasing(s) DEF Increasing, N
    <3>3. CASE b = N + 1
      BY ONLY <1>1, <1>4, <3>1, <3>3, \A k \in ToSet(s) : k < n
    <3> QED
      BY ONLY <1>2, <2>1, <3>2, <3>3
  <2>2. \A a, b \in 1 .. N + 1 : a < b => t[a] < t[b]
    BY ONLY <2>1
  <2>3. 1 .. Len(t) = 1 .. N + 1
    BY ONLY <1>1
  <2> QED
    BY ONLY <2>2, <2>3 DEF Increasing
<1>6. ToSet(t) = ToSet(s) \cup {n}
  <2>1. ToSet(t) \subseteq ToSet(s) \cup {n}
    BY ONLY <1>1, <1>2, <1>4 DEF ToSet
  <2>2. ToSet(s) \subseteq ToSet(t)
    BY ONLY <1>1, <1>3 DEF ToSet
  <2>3. n \in ToSet(t)
    <3>1. N + 1 \in 1 .. N + 1
      BY ONLY <1>1
    <3> QED
      BY ONLY <1>1, <3>1 DEF ToSet
  <2> QED
    BY ONLY <2>1, <2>2, <2>3
<1> QED
  BY <1>5, <1>6 DEF t

(* A comment that is read is below those that wait.                        *)
LEMMA PendingAppended ==
  ASSUME TypeOK, OrderOK, More
  PROVE  /\ Increasing(Append(pending, lines[i].line))
         /\ ToSet(Append(pending, lines[i].line)) = ToSet(pending) \cup {LineAt(i)}
<1>1. pending \in Seq(Nat) /\ Increasing(pending)
  BY NumbersAre DEF TypeOK, OrderOK
<1>2. LineAt(i) = lines[i].line /\ LineAt(i) \in Nat
  <2>1. LineAt(i) \in Nat
    BY FrontIs
  <2> QED
    BY <2>1 DEF LineAt, More
<1>3. \A k \in ToSet(pending) : k < LineAt(i)
  BY DEF OrderOK, Precedes, Held
<1> QED
  BY ONLY <1>1, <1>2, <1>3, AppendIncreasing

(* A run of none.                                                          *)
LEMMA NoBlankLines ==
  ASSUME blanks \in [start : Nat, count : Nat], ~(blanks.count > 0)
  PROVE  BlankLines = {}
<1>1. blanks.start \in Nat /\ blanks.count = 0
  OBVIOUS
<1> QED
  BY ONLY <1>1 DEF BlankLines

(* A modifier takes the comments above it with it.                         *)
LEMMA ModifierTaken ==
  ASSUME TypeOK, OrderOK, pc = "modifiers", Modifier
  PROVE  /\ ConditionsInOrder'
         /\ ConditionLines' = ConditionLines \cup (IF emitTrivia THEN ToSet(pending) ELSE {}) \cup {LineAt(i)}
<1> DEFINE c == [kind |-> Word(1), line |-> lines[i].line, comments |-> Trivia(pending)]
           w == OrNone(Trivia(pending))
           N == Len(conditions)
<1>1. /\ More /\ pc' = "modifiers" /\ conditions' = Append(conditions, c)
  BY DEF Modifier
<1>2. conditions \in Seq(ConditionNode)
  BY DEF TypeOK
<1>3. LineAt(i) = lines[i].line /\ LineAt(i) \in Nat
  <2>1. LineAt(i) \in Nat
    BY FrontIs
  <2> QED
    BY <1>1, <2>1 DEF LineAt, More
<1>4. LinesOfCondition(c) = w \o <<LineAt(i)>>
  BY <1>3 DEF LinesOfCondition
<1>5. w = IF emitTrivia THEN pending ELSE <<>>
  BY WantedIs DEF TypeOK
<1>6. emitTrivia \in BOOLEAN /\ pending \in Seq(Nat) /\ Increasing(pending)
  BY NumbersAre DEF TypeOK, OrderOK, CallOK
<1>7. \A k \in ToSet(pending) : k < LineAt(i)
  BY DEF OrderOK, Precedes, Held
<1> HIDE DEF c, w
<1>8. /\ w \in Seq(Nat) /\ Increasing(w)
      /\ ToSet(w) = IF emitTrivia THEN ToSet(pending) ELSE {}
      /\ \A k \in ToSet(w) : k < LineAt(i)
  <2>1. <<>> \in Seq(Nat) /\ Increasing(<<>>) /\ ToSet(<<>>) = {}
    BY EmptySeq DEF Increasing, ToSet
  <2> QED
    BY ONLY <1>5, <1>6, <1>7, <2>1
<1>9. w \o <<LineAt(i)>> = Append(w, LineAt(i))
  BY ONLY <1>3, <1>8
<1>10. /\ Increasing(LinesOfCondition(c))
       /\ ToSet(LinesOfCondition(c)) = (IF emitTrivia THEN ToSet(pending) ELSE {}) \cup {LineAt(i)}
  <2>1. LineAt(i) \in Nat
    BY ONLY <1>3
  <2>2. /\ Increasing(Append(w, LineAt(i)))
        /\ ToSet(Append(w, LineAt(i))) = ToSet(w) \cup {LineAt(i)}
    BY ONLY <1>8, <2>1, AppendIncreasing
  <2> QED
    BY ONLY <1>4, <1>8, <1>9, <2>2
<1>11. /\ N \in Nat /\ Len(conditions') = N + 1 /\ conditions'[N + 1] = c
       /\ \A n \in 1 .. N : conditions'[n] = conditions[n]
  <2>1. c \in ConditionNode
    <3>1. TypeOK'
      BY TypeStep DEF ParseNext, Modifiers
    <3>2. conditions' \in Seq(ConditionNode)
      <4>1. ConditionNode' = ConditionNode
        BY SameTypes DEF Modifier
      <4> QED
        BY <3>1, <4>1 DEF TypeOK
    <3>3. Len(conditions') = Len(conditions) + 1 /\ conditions'[Len(conditions) + 1] = c
          /\ Len(conditions) \in Nat
      BY ONLY <1>1, <1>2, <3>2, LenProperties, AppendProperties
    <3>4. Len(conditions) + 1 \in 1 .. Len(conditions')
      BY ONLY <3>3
    <3> QED
      BY ONLY <3>2, <3>3, <3>4, ElementOfSeq
  <2> QED
    BY ONLY <1>1, <1>2, <2>1, LenProperties, AppendProperties
<1>12. ConditionsInOrder /\ ConditionLines = UNION {ToSet(LinesOfCondition(conditions[n])) : n \in 1 .. N}
  BY DEF OrderOK, ConditionLines
<1> HIDE DEF N
<1>13. \A n \in 1 .. N + 1 : n \in 1 .. N \/ n = N + 1
  BY ONLY <1>11
<1>14. ConditionsInOrder'
  <2>1. \A n \in 1 .. N + 1 : Increasing(LinesOfCondition(conditions'[n]))
    BY ONLY <1>10, <1>11, <1>12, <1>13 DEF ConditionsInOrder, N
  <2>2. ASSUME NEW m \in 1 .. N + 1, NEW n \in 1 .. N + 1, m < n
        PROVE  Precedes(ToSet(LinesOfCondition(conditions'[m])), ToSet(LinesOfCondition(conditions'[n])))
    <3>1. m \in 1 .. N /\ conditions'[m] = conditions[m]
      BY ONLY <1>11, <2>2
    <3>2. CASE n \in 1 .. N
      BY ONLY <1>11, <1>12, <2>2, <3>1, <3>2 DEF ConditionsInOrder, N
    <3>3. CASE n = N + 1
      <4>1. ToSet(LinesOfCondition(conditions[m])) \subseteq ConditionLines
        BY ONLY <1>12, <3>1
      <4>2. Precedes(ConditionLines, ToSet(pending)) /\ Precedes(ConditionLines, {LineAt(i)})
        BY DEF OrderOK, Precedes, Held
      <4>3. \A b \in ToSet(LinesOfCondition(conditions'[n])) : b \in ToSet(pending) \/ b = LineAt(i)
        BY ONLY <1>6, <1>10, <1>11, <3>3
      <4> QED
        BY ONLY <3>1, <4>1, <4>2, <4>3 DEF Precedes
    <3> QED
      BY ONLY <1>13, <2>2, <3>2, <3>3
  <2> QED
    BY ONLY <1>11, <2>1, <2>2 DEF ConditionsInOrder, LinesOfCondition, OrNone, Increasing, Precedes
<1>15. ConditionLines' = UNION {ToSet(LinesOfCondition(conditions'[n])) : n \in 1 .. N + 1}
  BY ONLY <1>1, <1>11 DEF ConditionLines, LinesOfCondition, OrNone
<1>16. 1 .. N + 1 = 1 .. N \cup {N + 1}
  BY ONLY <1>11
<1>17. ConditionLines' = ConditionLines \cup ToSet(LinesOfCondition(c))
  <2>1. \A n \in 1 .. N : LinesOfCondition(conditions'[n]) = LinesOfCondition(conditions[n])
    BY ONLY <1>11
  <2>2. LinesOfCondition(conditions'[N + 1]) = LinesOfCondition(c)
    BY ONLY <1>11
  <2> QED
    BY ONLY <1>12, <1>15, <1>16, <2>1, <2>2
<1> QED
  BY ONLY <1>10, <1>14, <1>17

(* A blank line extends the run.                                           *)
LEMMA BlankTaken ==
  ASSUME TypeOK, BlankLine, emitTrivia
  PROVE  BlankLines' = BlankLines \cup {i}
<1>1. /\ blanks' = [start |-> IF blanks.count = 0 THEN lines[i].line ELSE blanks.start,
                    count |-> blanks.count + 1]
      /\ More
  BY DEF BlankLine
<1>2. lines[i].line = i
  BY <1>1, HereIs
<1>3. BlankLines' = blanks'.start .. blanks'.start + blanks'.count - 1
  BY DEF BlankLines
<1>4. /\ blanks.start \in Nat /\ blanks.count \in Nat /\ i \in Nat
      /\ blanks \in [start : Nat, count : Nat]
  BY DEF TypeOK
<1>5. CASE blanks.count = 0
  <2>1. blanks'.start = i /\ blanks'.count = 1
    BY ONLY <1>1, <1>2, <1>5
  <2>2. BlankLines = {}
    BY ONLY <1>4, <1>5, NoBlankLines
  <2> QED
    BY ONLY <1>3, <1>4, <2>1, <2>2
<1>6. CASE blanks.count > 0
  <2>1. blanks'.start = blanks.start /\ blanks'.count = blanks.count + 1
    BY ONLY <1>1, <1>4, <1>6
  <2>2. blanks.start + blanks.count = i
    BY <1>6 DEF TypeOK
  <2>3. BlankLines = blanks.start .. i - 1 /\ BlankLines' = blanks.start .. i
    BY ONLY <1>3, <1>4, <2>1, <2>2 DEF BlankLines
  <2>4. blanks.start .. i = blanks.start .. i - 1 \cup {i}
    BY ONLY <1>4, <1>6, <2>2
  <2> QED
    BY ONLY <2>3, <2>4
<1> QED
  BY ONLY <1>4, <1>5, <1>6

(* Every step keeps the order.                                             *)
LEMMA OrderStep ==
  ASSUME TypeOK, OrderOK, ParseNext
  PROVE  OrderOK'
<1> USE DEF InPreamble, InModifiers
<1> DEFINE x == LineAt(i)
           y == LineAt(i')
           A == Held \cup {x}
           P == ToSet(pending)
<1>1. TypeOK' /\ file' = file /\ lines' = lines /\ emitTrivia' = emitTrivia
  BY TypeStep, StepKeepsCall, SameTypes
<1>2. /\ LineAt(i)' = y
      /\ Len(lines) \in Nat /\ i \in 1 .. Len(lines) + 1 /\ i' \in 1 .. Len(lines) + 1
      /\ records \in Seq(Node) /\ blanks \in [start : Nat, count : Nat]
      /\ blanks' \in [start : Nat, count : Nat] /\ pending \in Numbers
      /\ emitTrivia \in BOOLEAN
      /\ blanks.count > 0 => emitTrivia /\ pc = "preamble" /\ pending = <<>>
  BY <1>1, FrontIs DEF LineAt, TypeOK, CallOK
<1>3. x \in Nat /\ y \in Nat /\ A \subseteq Nat /\ (i' > i => x < y) /\ (i' = i => x = y)
  <2>1. /\ Held \subseteq Nat /\ \A n \in 1 .. Len(lines) + 1 : LineAt(n) \in Nat
        /\ \A m, n \in 1 .. Len(lines) + 1 : m < n => LineAt(m) < LineAt(n)
    BY FrontIs
  <2>2. i' > i <=> i < i'
    BY ONLY <1>2
  <2> QED
    BY ONLY <1>2, <2>1, <2>2
<1>4. /\ RecordsBefore(records, A) /\ Precedes(Held, {x})
      /\ Precedes(ConditionLines, P) /\ Increasing(pending)
      /\ pc = "modifiers" => ConditionsInOrder
  BY DEF OrderOK
<1>5. /\ P \subseteq A /\ ConditionLines \subseteq A /\ BlankLines \subseteq A /\ x \in A
      /\ \A k \in P \cup ConditionLines \cup BlankLines : k < x /\ k \in Nat
  <2>1. \A k \in Held : k \in A /\ k < x
    BY ONLY <1>4 DEF Precedes
  <2> QED
    BY ONLY <1>3, <2>1 DEF Held
<1>6. pc = "modifiers" => ~(blanks.count > 0) /\ BlankLines = {}
  BY <1>2, NoBlankLines
<1>7. pc # "modifiers" => ConditionLines = {}
  BY DEF ConditionLines
<1>8. ToSet(<<>>) = {} /\ Increasing(<<>>)
  BY DEF ToSet, Increasing
<1>9. OrderOK' <=> /\ RecordsBefore(records', ConditionLines' \cup ToSet(pending') \cup BlankLines' \cup {y})
                   /\ Precedes(ConditionLines' \cup ToSet(pending') \cup BlankLines', {y})
                   /\ Precedes(ConditionLines', ToSet(pending'))
                   /\ Increasing(pending')
                   /\ pc' = "modifiers" => ConditionsInOrder'
  <2>1. Held' = ConditionLines' \cup ToSet(pending') \cup BlankLines'
    BY DEF Held, ToSet
  <2>2. RecordsBefore(records, Held \cup {LineAt(i)})' <=> RecordsBefore(records', Held' \cup {y})
    BY ONLY <1>2 DEF RecordsBefore, Precedes, LinesIn, LinesOf, OrNone, ToSet
  <2>3. Precedes(Held, {LineAt(i)})' <=> Precedes(Held', {y})
    BY ONLY <1>2 DEF Precedes
  <2>4. Precedes(ConditionLines, ToSet(pending))' <=> Precedes(ConditionLines', ToSet(pending'))
    BY ONLY TRUE DEF Precedes, ToSet
  <2>5. Increasing(pending)' <=> Increasing(pending')
    BY ONLY TRUE DEF Increasing
  <2>6. OrderOK' <=> /\ RecordsBefore(records, Held \cup {LineAt(i)})'
                     /\ Precedes(Held, {LineAt(i)})'
                     /\ Precedes(ConditionLines, ToSet(pending))'
                     /\ Increasing(pending)'
                     /\ pc' = "modifiers" => ConditionsInOrder'
    BY ONLY TRUE DEF OrderOK
  <2> QED
    BY ONLY <2>1, <2>2, <2>3, <2>4, <2>5, <2>6
<1> HIDE DEF x, y, A, P
<1>10. \A B : (\A b \in B : b \in A \/ (b \in Nat /\ x <= b)) => Later(A, B)
  BY ONLY <1>3, <1>5, LaterOrNext
<1>11. More => Increasing(Append(pending, lines[i].line)) /\ ToSet(Append(pending, lines[i].line)) = P \cup {x}
  BY PendingAppended DEF P, x
<1>12. pc' # "modifiers" => ConditionLines' = {}
  BY DEF ConditionLines
<1>13. ~(blanks'.count > 0) => BlankLines' = {}
  <2>1. ~(blanks'.count > 0) => blanks'.count = 0 /\ blanks'.start \in Nat
    BY ONLY <1>2
  <2>2. BlankLines' = blanks'.start .. blanks'.start + blanks'.count - 1
    BY DEF BlankLines
  <2> QED
    BY ONLY <2>1, <2>2
<1>14. ~(NoBlanks.count > 0)
  BY DEF NoBlanks
<1>15. UNCHANGED <<pc, conditions>> => ConditionLines' = ConditionLines /\ (ConditionsInOrder => ConditionsInOrder')
  <2>1. ASSUME UNCHANGED <<pc, conditions>> PROVE ConditionLines' = ConditionLines
    BY ONLY <2>1 DEF ConditionLines, LinesOfCondition, OrNone, ToSet
  <2>2. ASSUME UNCHANGED <<pc, conditions>>, ConditionsInOrder PROVE ConditionsInOrder'
    <3>1. conditions' = conditions
      BY ONLY <2>2
    <3>2. ASSUME NEW n \in 1 .. Len(conditions')
          PROVE  Increasing(LinesOfCondition(conditions'[n]))
      BY ONLY <2>2, <3>1, <3>2, n \in 1 .. Len(conditions') DEF ConditionsInOrder
    <3>3. ASSUME NEW m \in 1 .. Len(conditions'), NEW n \in 1 .. Len(conditions'), m < n
          PROVE  Precedes(ToSet(LinesOfCondition(conditions'[m])), ToSet(LinesOfCondition(conditions'[n])))
      BY ONLY <2>2, <3>1, <3>3, m \in 1 .. Len(conditions'), n \in 1 .. Len(conditions')
         DEF ConditionsInOrder
    <3> QED
      BY ONLY <3>2, <3>3 DEF ConditionsInOrder, LinesOfCondition, OrNone, ToSet, Increasing, Precedes
  <2> QED
    BY ONLY <2>1, <2>2
<1>16. UNCHANGED blanks => BlankLines' = BlankLines
  BY DEF BlankLines
<1>17. CASE BlankLine
  <2>1. More /\ pc = "preamble" /\ pc' = "preamble" /\ i' = i + 1 /\ UNCHANGED conditions
    BY <1>17 DEF BlankLine
  <2>2. x < y
    BY ONLY <1>2, <1>3, <2>1
  <2>3. CASE emitTrivia
    <3>1. /\ records' = records \o WithPending /\ pending' = <<>>
          /\ blanks' = [start |-> IF blanks.count = 0 THEN lines[i].line ELSE blanks.start,
                        count |-> blanks.count + 1]
      BY <1>17, <2>3 DEF BlankLine, flushPendingAsTopLevel
    <3>2. x = i /\ lines[i].line = i /\ x = lines[i].line
      BY <2>1, <2>3, HereIs DEF x, LineAt, More
    <3>3. BlankLines' = BlankLines \cup {x}
      BY ONLY TypeOK, <1>17, <2>3, <3>2, BlankTaken
    <3> DEFINE B == BlankLines' \cup {y}
    <3>4. Later(A, B)
      <4>1. \A b \in B : b \in A \/ (b \in Nat /\ x <= b)
        BY ONLY <1>3, <1>5, <2>2, <3>3
      <4> QED
        BY ONLY <1>10, <4>1
    <3>5. Precedes(P, B)
      <4>1. \A p \in P : p < x /\ p \in Nat /\ p < y
        BY ONLY <1>3, <1>5, <2>2
      <4>2. P = {} \/ BlankLines = {}
        <5>1. CASE blanks.count > 0
          <6>1. pending = <<>>
            BY ONLY <1>2, <5>1
          <6> QED
            BY ONLY <1>8, <6>1 DEF P
        <5>2. CASE ~(blanks.count > 0)
          BY <1>2, <5>2, NoBlankLines
        <5> QED
          BY ONLY <5>1, <5>2
      <4> QED
        BY ONLY <3>3, <4>1, <4>2 DEF Precedes
    <3>6. RecordsBefore(records', B)
      <4> HIDE DEF B
      <4>1. P = ToSet(pending)
        BY DEF P
      <4>2. RecordsBefore(records \o WithPending, B)
        BY ONLY TypeOK, OrderOK, <1>2, <1>3, <1>4, <1>5, <3>4, <3>5, <4>1, PendingBefore
      <4> QED
        BY ONLY <3>1, <4>2
    <3>7. Precedes(BlankLines', {y})
      BY ONLY <1>3, <1>5, <2>2, <3>3 DEF Precedes
    <3>8. ConditionLines' = {} /\ ToSet(pending') = {} /\ Increasing(pending')
      BY ONLY <1>8, <1>12, <2>1, <3>1
    <3>9. ConditionLines' \cup ToSet(pending') \cup BlankLines' \cup {y} = B
      BY ONLY <3>8
    <3>10. ConditionLines' \cup ToSet(pending') \cup BlankLines' = BlankLines'
      BY ONLY <3>8
    <3>11. Precedes(ConditionLines', ToSet(pending'))
      BY ONLY <3>8 DEF Precedes
    <3> HIDE DEF B
    <3> QED
      BY ONLY <1>9, <2>1, <3>6, <3>7, <3>8, <3>9, <3>10, <3>11
  <2>4. CASE ~emitTrivia
    <3>1. UNCHANGED <<records, pending, blanks>>
      BY <1>17, <2>4 DEF BlankLine
    <3>2. /\ ConditionLines' = {} /\ ConditionLines = {} /\ BlankLines' = BlankLines
          /\ ToSet(pending') = P
      BY ONLY <1>7, <1>12, <1>16, <2>1, <3>1 DEF P
    <3> DEFINE B == P \cup BlankLines \cup {y}
    <3>3. Later(A, B)
      <4>1. \A b \in B : b \in A \/ (b \in Nat /\ x <= b)
        BY ONLY <1>3, <1>5, <2>2
      <4> QED
        BY ONLY <1>10, <4>1
    <3>4. RecordsBefore(records', B)
      <4> HIDE DEF B
      <4> QED
        BY ONLY <1>3, <1>4, <3>1, <3>3, BeforeLater
    <3>5. Precedes(P \cup BlankLines, {y})
      BY ONLY <1>3, <1>5, <2>2 DEF Precedes
    <3>6. Precedes(ConditionLines', ToSet(pending'))
      BY ONLY <3>2 DEF Precedes
    <3>7. /\ ConditionLines' \cup ToSet(pending') \cup BlankLines' \cup {y} = B
          /\ ConditionLines' \cup ToSet(pending') \cup BlankLines' = P \cup BlankLines
      BY ONLY <3>2
    <3> HIDE DEF B
    <3> QED
      BY ONLY <1>4, <1>9, <2>1, <3>1, <3>4, <3>5, <3>6, <3>7
  <2> QED
    BY ONLY <1>2, <2>3, <2>4
<1>18. CASE CommentLine
  <2>1. /\ More /\ pc = "preamble" /\ pc' = "preamble" /\ i' = i + 1
        /\ records' = WithBlankRun /\ blanks' = NoBlanks
        /\ pending' = Append(pending, lines[i].line)
    BY <1>18 DEF CommentLine, flushBlankRun
  <2>2. x < y
    BY ONLY <1>2, <1>3, <2>1
  <2>3. /\ ConditionLines' = {} /\ BlankLines' = {} /\ ToSet(pending') = P \cup {x}
        /\ Increasing(pending')
    BY ONLY <1>11, <1>12, <1>13, <1>14, <2>1
  <2> DEFINE B == P \cup {x} \cup {y}
  <2>4. RecordsBefore(records', B)
    <3>1. RecordsBefore(WithBlankRun, P \cup {x})
      BY <2>1, BlankRunBefore DEF P, x
    <3>2. P \cup {x} \subseteq Nat
      BY ONLY <1>3, <1>5
    <3>3. Later(P \cup {x}, B)
      <4>1. \A b \in B : b \in P \cup {x} \/ (b \in Nat /\ x <= b)
        BY ONLY <1>3, <2>2
      <4>2. x \in P \cup {x}
        OBVIOUS
      <4> HIDE DEF B
      <4> QED
        BY ONLY <3>2, <4>1, <4>2, LaterOrNext
    <3> HIDE DEF B
    <3> QED
      BY ONLY <2>1, <3>1, <3>2, <3>3, BeforeLater
  <2>5. Precedes(P \cup {x}, {y})
    BY ONLY <1>3, <1>5, <2>2 DEF Precedes
  <2>6. Precedes(ConditionLines', ToSet(pending'))
    BY ONLY <2>3 DEF Precedes
  <2>7. /\ ConditionLines' \cup ToSet(pending') \cup BlankLines' \cup {y} = B
        /\ ConditionLines' \cup ToSet(pending') \cup BlankLines' = P \cup {x}
    BY ONLY <2>3
  <2> HIDE DEF B
  <2> QED
    BY ONLY <1>9, <2>1, <2>3, <2>4, <2>5, <2>6, <2>7
<1>19. CASE EndPreamble
  <2>1. /\ More /\ pc = "preamble" /\ pc' = "modifiers" /\ conditions' = <<>> /\ UNCHANGED <<i, pending>>
        /\ records' = WithBlankRun /\ blanks' = NoBlanks
    BY <1>19 DEF EndPreamble, flushBlankRun
  <2>2. x = y
    BY ONLY <1>3, <2>1
  <2>3. ConditionLines' = {} /\ ConditionsInOrder'
    BY ONLY <2>1 DEF ConditionLines, ConditionsInOrder
  <2>4. BlankLines' = {} /\ ToSet(pending') = P /\ Increasing(pending')
    BY ONLY <1>4, <1>13, <1>14, <2>1 DEF P
  <2>5. RecordsBefore(records', P \cup {y})
    BY <2>1, <2>2, BlankRunBefore DEF P, x
  <2>6. Precedes(P, {y})
    BY ONLY <1>5, <2>2 DEF Precedes
  <2>7. Precedes(ConditionLines', ToSet(pending'))
    BY ONLY <2>3 DEF Precedes
  <2>8. /\ ConditionLines' \cup ToSet(pending') \cup BlankLines' \cup {y} = P \cup {y}
        /\ ConditionLines' \cup ToSet(pending') \cup BlankLines' = P
    BY ONLY <2>3, <2>4
  <2> QED
    BY ONLY <1>9, <2>3, <2>4, <2>5, <2>6, <2>7, <2>8
<1>20. ASSUME pc' # "modifiers", pending' = <<>>, ~(blanks'.count > 0), RecordsBefore(records', {y})
       PROVE  OrderOK'
  <2>1. /\ ConditionLines' = {} /\ BlankLines' = {} /\ ToSet(pending') = {}
        /\ Increasing(pending')
    BY ONLY <1>8, <1>12, <1>13, <1>20
  <2>2. Precedes({}, {y}) /\ Precedes({}, {})
    BY DEF Precedes
  <2>3. /\ ConditionLines' \cup ToSet(pending') \cup BlankLines' \cup {y} = {y}
        /\ ConditionLines' \cup ToSet(pending') \cup BlankLines' = {}
    BY ONLY <2>1
  <2> QED
    BY ONLY <1>9, <1>20, <2>1, <2>2, <2>3
<1>21. CASE ReturnResult
  <2>1. /\ pc = "preamble" /\ pc' = "returned" /\ pending' = <<>> /\ UNCHANGED i
        /\ records' = WithBlankRun \o WithPending /\ blanks' = NoBlanks
    BY <1>21 DEF ReturnResult
  <2>2. x = y
    BY ONLY <1>3, <2>1
  <2>3. WithBlankRun \in Seq(Node)
    BY BlankRuns
  <2>4. RecordsBefore(WithBlankRun, P \cup {y})
    BY <2>1, <2>2, BlankRunBefore DEF P, x
  <2>5. P \cup {y} \subseteq Nat /\ Later(P \cup {y}, {y}) /\ Precedes(P, {y})
    <3>1. P \cup {y} \subseteq Nat /\ Precedes(P, {y})
      BY ONLY <1>3, <1>5, <2>2 DEF Precedes
    <3>2. {y} \subseteq P \cup {y}
      OBVIOUS
    <3> QED
      BY ONLY <3>1, <3>2, LaterIn
  <2>6. RecordsBefore(WithBlankRun \o WithPending, {y})
    <3>1. ToSet(pending) \subseteq P \cup {y} /\ Precedes(ToSet(pending), {y})
      BY <2>5 DEF P
    <3> QED
      BY ONLY TypeOK, OrderOK, <2>3, <2>4, <2>5, <3>1, PendingBefore
  <2> QED
    BY ONLY <1>14, <1>20, <2>1, <2>6
<1>22. CASE ModifierComment \/ NoEngine
  <2>1. /\ More /\ pc = "modifiers" /\ i' = i + 1 /\ UNCHANGED <<pc, blanks, conditions, records>>
        /\ pending' = Append(pending, lines[i].line) \/ pending' = pending
    BY <1>22 DEF ModifierComment, NoEngine
  <2>2. x < y
    BY ONLY <1>2, <1>3, <2>1
  <2>3. /\ ConditionLines' = ConditionLines /\ ConditionsInOrder' /\ BlankLines' = {}
        /\ Increasing(pending') /\ ToSet(pending') \subseteq P \cup {x}
    BY ONLY <1>4, <1>6, <1>11, <1>15, <1>16, <2>1 DEF P
  <2> DEFINE B == ConditionLines' \cup ToSet(pending') \cup BlankLines' \cup {y}
  <2>4. Later(A, B)
    <3>1. \A b \in B : b \in A \/ (b \in Nat /\ x <= b)
      BY ONLY <1>3, <1>5, <2>2, <2>3
    <3> QED
      BY ONLY <1>10, <3>1
  <2>5. RecordsBefore(records', B)
    <3> HIDE DEF B
    <3> QED
      BY ONLY <1>3, <1>4, <2>1, <2>4, BeforeLater
  <2>6. Precedes(ConditionLines' \cup ToSet(pending') \cup BlankLines', {y})
    BY ONLY <1>3, <1>5, <2>2, <2>3 DEF Precedes
  <2>7. Precedes(ConditionLines', ToSet(pending'))
    BY ONLY <1>4, <1>5, <2>3 DEF Precedes
  <2> QED
    BY ONLY <1>9, <2>1, <2>3, <2>5, <2>6, <2>7
<1>23. CASE Modifier
  <2>1. /\ More /\ pc = "modifiers" /\ pc' = "modifiers" /\ i' = i + 1 /\ pending' = <<>>
        /\ UNCHANGED <<blanks, records>>
    BY <1>23 DEF Modifier
  <2>2. x < y
    BY ONLY <1>2, <1>3, <2>1
  <2>3. /\ ConditionsInOrder'
        /\ ConditionLines' = ConditionLines \cup (IF emitTrivia THEN P ELSE {}) \cup {x}
    BY <1>23, <2>1, ModifierTaken DEF P, x
  <2>4. BlankLines' = {} /\ ToSet(pending') = {} /\ Increasing(pending')
    BY ONLY <1>6, <1>8, <1>16, <2>1
  <2> DEFINE B == ConditionLines' \cup ToSet(pending') \cup BlankLines' \cup {y}
  <2>5. Later(A, B)
    <3>1. \A b \in B : b \in A \/ (b \in Nat /\ x <= b)
      BY ONLY <1>2, <1>3, <1>5, <2>2, <2>3, <2>4
    <3> QED
      BY ONLY <1>10, <3>1
  <2>6. RecordsBefore(records', B)
    <3> HIDE DEF B
    <3> QED
      BY ONLY <1>3, <1>4, <2>1, <2>5, BeforeLater
  <2>7. Precedes(ConditionLines' \cup ToSet(pending') \cup BlankLines', {y})
    BY ONLY <1>2, <1>3, <1>5, <2>2, <2>3, <2>4 DEF Precedes
  <2>8. Precedes(ConditionLines', ToSet(pending'))
    BY ONLY <2>4 DEF Precedes
  <2> QED
    BY ONLY <1>9, <2>3, <2>4, <2>6, <2>7, <2>8
<1>24. Later(A, {y}) /\ Precedes(P, {y})
  <2>1. i <= i'
    BY <1>2, BodyIs, HereIs
       DEF ParseNext, Preamble, Modifiers, Record, BlankLine, CommentLine, EndPreamble, ReturnResult,
           ModifierComment, NoEngine, Modifier, NoRecord, MalformedHeader, Statement, Query, Control,
           ReadsHeader, AtHeader
  <2>2. x <= y
    <3>1. i' = i \/ i' > i
      BY ONLY <1>2, <2>1
    <3> QED
      BY ONLY <1>3, <3>1
  <2>3. Precedes(P, {y})
    BY ONLY <1>3, <1>5, <2>2 DEF Precedes
  <2>4. \A b \in {y} : b \in A \/ (b \in Nat /\ x <= b)
    BY ONLY <1>3, <2>2
  <2> QED
    BY ONLY <1>10, <2>3, <2>4
<1>25. CASE NoRecord
  <2>1. /\ pc = "modifiers" /\ pc' = "preamble" /\ UNCHANGED blanks
        /\ records' = records \o WithPending /\ pending' = <<>>
    BY <1>25 DEF NoRecord, flushPendingAsTopLevel
  <2>2. P = ToSet(pending)
    BY DEF P
  <2>3. RecordsBefore(records \o WithPending, {y})
    BY ONLY TypeOK, OrderOK, <1>2, <1>3, <1>4, <1>5, <1>24, <2>2, PendingBefore
  <2>4. ~(blanks'.count > 0) /\ pc' # "modifiers"
    BY ONLY <1>6, <2>1
  <2> QED
    BY ONLY <1>20, <2>1, <2>3, <2>4
<1>26. CASE MalformedHeader
  <2>1. /\ pc = "modifiers" /\ pc' = "preamble" /\ UNCHANGED blanks
        /\ records' = records /\ pending' = <<>>
    BY <1>26 DEF MalformedHeader, ReadsHeader, AtHeader
  <2>2. RecordsBefore(records', {y})
    BY ONLY <1>3, <1>4, <1>24, <2>1, BeforeLater
  <2>3. ~(blanks'.count > 0) /\ pc' # "modifiers"
    BY ONLY <1>6, <2>1
  <2> QED
    BY ONLY <1>20, <2>1, <2>2, <2>3
<1>27. CASE Statement \/ Query \/ Control
  <2>1. /\ \E node : records' = Append(records, node) /\ TakenBy(node)
        /\ More /\ pc = "modifiers" /\ pc' = "preamble" /\ pending' = <<>>
        /\ UNCHANGED <<call, blanks, conditions, errors>>
        /\ i' \in i + 1 .. Len(lines) + 1
    BY <1>27, HeaderRecord
  <2>2. PICK node : records' = Append(records, node) /\ TakenBy(node)
    BY ONLY <2>1
  <2>3. /\ node \in Node /\ LinesOf(node) \in Numbers /\ IsInjective(LinesOf(node))
        /\ LinesIn(node) \subseteq ConditionLines \cup P \cup LinesBetween(i, i' - 1)
    BY ONLY <2>2 DEF TakenBy, P
  <2>4. \A k \in LinesBetween(i, i' - 1) : k \in Nat /\ x <= k /\ k < y
    <3>1. PICK j \in i + 1 .. Len(lines) + 1 : j = i'
      BY ONLY <2>1
    <3>2. j \in 1 .. Len(lines) + 1 /\ LineAt(j) = y
      BY ONLY <1>2, <3>1, j \in i + 1 .. Len(lines) + 1 DEF y
    <3>3. ASSUME NEW n, n \in i .. j - 1
          PROVE  lines[n].line \in Nat /\ x <= lines[n].line /\ lines[n].line < y
      <4>1. n \in 1 .. Len(lines) + 1 /\ n < j /\ (n = i \/ i < n) /\ n <= Len(lines)
        BY ONLY <1>2, <3>2, <3>3
      <4>2. LineAt(n) = lines[n].line
        BY ONLY <4>1 DEF LineAt
      <4>3. LineAt(n) \in Nat /\ LineAt(n) < y /\ (n = i => x = LineAt(n)) /\ (i < n => x < LineAt(n))
        <5>1. /\ \A k \in 1 .. Len(lines) + 1 : LineAt(k) \in Nat
              /\ \A k, m \in 1 .. Len(lines) + 1 : k < m => LineAt(k) < LineAt(m)
          BY FrontIs
        <5> QED
          BY ONLY <1>2, <3>2, <4>1, <5>1 DEF x
      <4> QED
        BY ONLY <1>3, <4>1, <4>2, <4>3
    <3>4. \A k \in LinesBetween(i, j - 1) : k \in Nat /\ x <= k /\ k < y
      BY ONLY <3>3 DEF LinesBetween
    <3> QED
      BY ONLY <3>1, <3>4
  <2>5. \A k \in LinesIn(node) : (k \in A \/ (k \in Nat /\ x <= k)) /\ k < y
    <3>1. x < y
      BY ONLY <1>2, <1>3, <2>1
    <3>2. \A k \in ConditionLines \cup P : k \in A /\ k < y
      BY ONLY <1>3, <1>5, <3>1
    <3> QED
      BY ONLY <2>3, <2>4, <3>2
  <2>6. Later(A, LinesIn(node))
    BY ONLY <1>10, <2>5
  <2> DEFINE more == <<node>>
  <2>7. more \in Seq(Node) /\ Len(more) = 1 /\ more[1] = node
    BY ONLY <2>3
  <2>8. Append(records, node) = records \o more
    BY ONLY <1>2, <2>3
  <2>9. LinesOf(node) \in Seq(Nat)
    BY <2>3, NumbersAre
  <2>10. Precedes(LinesIn(node), {y})
    BY ONLY <2>5 DEF Precedes
  <2> HIDE DEF more
  <2>11. RecordsBefore(more, {y})
    BY ONLY <2>3, <2>7, <2>9, <2>10 DEF RecordsBefore
  <2>12. \A n \in 1 .. Len(more) : Later(A, LinesIn(more[n]))
    BY ONLY <2>6, <2>7
  <2>13. RecordsBefore(records \o more, {y})
    BY ONLY <1>2, <1>3, <1>4, <1>24, <2>7, <2>11, <2>12, BeforeConcat
  <2>14. ~(blanks'.count > 0) /\ pc' # "modifiers" /\ RecordsBefore(records', {y})
    BY ONLY <1>6, <2>1, <2>2, <2>8, <2>13
  <2> QED
    BY ONLY <1>20, <2>1, <2>14
<1> QED
  BY <1>17, <1>18, <1>19, <1>21, <1>22, <1>23, <1>25, <1>26, <1>27
     DEF ParseNext, Preamble, Modifiers, Record
-----------------------------------------------------------------------------
(* Attachment *)

(* A line that does not come between a comment and what it is attached to, *)
(* and a comment with a blank line or the end after such lines.            *)
Clean(n) == IsComment(file[n]) \/ (IsModifier(file[n]) /\ WordOf(file[n], 2) = None)
Reaches(n, line) == n < line /\ \A m \in n + 1 .. line - 1 : Clean(m)
Free(n) ==
  \A m \in n + 1 .. Len(file) :
    (\A k \in n + 1 .. m - 1 : Clean(k)) /\ ~Clean(m) => IsBlank(file[m])

Reach(comments, line) == \A n \in ToSet(comments) : Reaches(n, line)
Attached(record) ==
  IF record.type = "comment" THEN Free(record.line)
  ELSE IsRecord(record) =>
         /\ Reach(record.comments, record.line)
         /\ \A k \in 1 .. Len(record.conditions) :
              Reach(record.conditions[k].comments, record.conditions[k].line)

AttachedOK == emitTrivia =>
  /\ Reach(pending, i)
  /\ pc = "modifiers" => \A k \in 1 .. Len(conditions) :
                           Reach(conditions[k].comments, conditions[k].line)
  /\ \A k \in 1 .. Len(records) : Attached(records[k])

(* What the line at the position is, with trivia.                          *)
LEMMA HereClean ==
  ASSUME TypeOK, emitTrivia
  PROVE  /\ Len(lines) = Len(file) /\ Len(file) \in Nat
         /\ \A n \in 1 .. Len(file) : lines[n].text = file[n] /\ lines[n].line = n
         /\ More => /\ i \in 1 .. Len(file) /\ Here = file[i] /\ lines[i].line = i
                    /\ IsComment(Here) => Clean(i)
                    /\ IsModifier(Here) /\ Word(2) = None => Clean(i)
         /\ \A n \in 1 .. Len(file) : IsBlank(file[n]) => ~Clean(n) /\ ~IsModifier(file[n])
<1>1. CallOK /\ emitTrivia /\ i \in 1 .. Len(lines) + 1
  BY DEF TypeOK
<1>2. /\ Len(lines) \in Nat /\ Len(file) \in Nat /\ Len(lines) = Len(file)
      /\ \A n \in LineNumber : lines[n].line = n
      /\ \A n \in 1 .. Len(lines) : lines[n].text = file[lines[n].line]
  BY ONLY <1>1, CallLines
<1>3. \A n \in 1 .. Len(file) : lines[n].text = file[n] /\ lines[n].line = n
  BY ONLY <1>2 DEF LineNumber
<1>4. More => i \in 1 .. Len(file) /\ Here = file[i] /\ lines[i].line = i
  BY ONLY <1>1, <1>2, <1>3 DEF More, Here
<1>5. More => /\ IsComment(Here) => Clean(i)
              /\ IsModifier(Here) /\ Word(2) = None => Clean(i)
  BY ONLY <1>4 DEF Clean, Word
<1>6. ASSUME NEW n \in 1 .. Len(file), IsBlank(file[n])
      PROVE  ~Clean(n) /\ ~IsModifier(file[n])
  <2>1. file[n].words = <<>> /\ Len(file[n].words) = 0
    BY ONLY <1>6 DEF IsBlank
  <2>2. WordOf(file[n], 1) = None
    BY ONLY <2>1 DEF WordOf
  <2>3. ~IsModifier(file[n])
    BY ONLY <2>2, FilesAssumption DEF IsModifier
  <2>4. ~IsComment(file[n])
    BY ONLY <2>1 DEF IsComment
  <2> QED
    BY ONLY <2>3, <2>4 DEF Clean
<1> QED
  BY ONLY <1>2, <1>3, <1>4, <1>5, <1>6

(* At a blank line, and at the end, what waits is above no command.        *)
LEMMA PendingFree ==
  ASSUME TypeOK, emitTrivia, Reach(pending, i), More => IsBlank(Here)
  PROVE  \A n \in ToSet(pending) : Free(n)
<1>1. /\ Len(lines) = Len(file) /\ Len(file) \in Nat
      /\ More => /\ i \in 1 .. Len(file) /\ Here = file[i]
      /\ \A n \in 1 .. Len(file) : IsBlank(file[n]) => ~Clean(n)
      /\ i \in 1 .. Len(lines) + 1
  BY HereClean DEF TypeOK
<1> SUFFICES ASSUME NEW n \in ToSet(pending), NEW m \in n + 1 .. Len(file),
                    \A k \in n + 1 .. m - 1 : Clean(k), ~Clean(m)
             PROVE  IsBlank(file[m])
  BY DEF Free
<1>2. n \in LineNumber
  BY HeldLines
<1>3. n \in Nat /\ n < i /\ \A k \in n + 1 .. i - 1 : Clean(k)
  BY <1>2, NumbersAre DEF Reach, Reaches
<1>4. ~(m < i)
  BY ONLY <1>1, <1>3, m \in n + 1 .. Len(file), ~Clean(m)
<1>5. CASE More
  <2>1. ~(i < m)
    BY ONLY <1>1, <1>3, <1>5, m \in n + 1 .. Len(file), \A k \in n + 1 .. m - 1 : Clean(k),
            More => IsBlank(Here)
  <2>2. m = i
    BY ONLY <1>1, <1>3, <1>4, <2>1, m \in n + 1 .. Len(file)
  <2> QED
    BY ONLY <1>1, <1>5, <2>2, More => IsBlank(Here)
<1>6. CASE ~More
  BY <1>1, <1>3, <1>4, <1>6 DEF More
<1> QED
  BY ONLY <1>5, <1>6

(* A member of two sequences, one after the other, is of one of them.      *)
LEMMA InConcat ==
  ASSUME NEW S, NEW nodes \in Seq(S), NEW more \in Seq(S)
  PROVE  \A k \in 1 .. Len(nodes \o more) :
           \/ \E n \in 1 .. Len(nodes) : (nodes \o more)[k] = nodes[n]
           \/ \E n \in 1 .. Len(more) : (nodes \o more)[k] = more[n]
<1> DEFINE all == nodes \o more
           M == Len(nodes)
           N == Len(more)
<1>1. /\ M \in Nat /\ N \in Nat /\ Len(all) = M + N
      /\ \A n \in 1 .. M : all[n] = nodes[n]
      /\ \A n \in 1 .. N : all[M + n] = more[n]
  BY LenProperties, ConcatProperties
<1> SUFFICES ASSUME NEW k \in 1 .. Len(all)
             PROVE  \/ \E n \in 1 .. M : all[k] = nodes[n]
                    \/ \E n \in 1 .. N : all[k] = more[n]
  OBVIOUS
<1> HIDE DEF all, M, N
<1>2. CASE k <= M
  BY ONLY <1>1, <1>2, k \in 1 .. Len(all)
<1>3. CASE ~(k <= M)
  <2>1. k - M \in 1 .. N /\ k = M + (k - M)
    BY ONLY <1>1, <1>3, k \in 1 .. Len(all)
  <2> QED
    BY ONLY <1>1, <2>1
<1> QED
  BY ONLY <1>2, <1>3

(* The comments that wait become records of their own.                     *)
LEMMA FreeComments ==
  ASSUME TypeOK, \A n \in ToSet(pending) : Free(n), NEW nodes \in Seq(Node),
         \A k \in 1 .. Len(nodes) : Attached(nodes[k])
  PROVE  \A k \in 1 .. Len(nodes \o WithPending) : Attached((nodes \o WithPending)[k])
<1>1. /\ WithPending \in Seq(Node) /\ Len(WithPending) = Len(pending)
      /\ \A k \in 1 .. Len(pending) : WithPending[k] = Comment(pending[k])
  BY CommentNodes DEF TypeOK
<1>2. \A k \in 1 .. Len(WithPending) : Attached(WithPending[k])
  <2>1. \A k \in 1 .. Len(pending) : pending[k] \in ToSet(pending)
    BY LenProperties DEF TypeOK, Numbers, ToSet
  <2>2. \A n : Attached(Comment(n)) <=> Free(n)
    BY ONLY TRUE DEF Attached, Comment
  <2> QED
    BY ONLY <1>1, <2>1, <2>2, \A n \in ToSet(pending) : Free(n)
<1> QED
  BY ONLY <1>1, <1>2, nodes \in Seq(Node), \A k \in 1 .. Len(nodes) : Attached(nodes[k]), InConcat

(* Every step keeps the attachment.                                        *)
LEMMA AttachedStep ==
  ASSUME TypeOK, OrderOK, AttachedOK, ParseNext
  PROVE  AttachedOK'
<1>1. /\ TypeOK' /\ file' = file /\ lines' = lines /\ emitTrivia' = emitTrivia
  BY TypeStep, StepKeepsCall, SameTypes
<1> SUFFICES ASSUME emitTrivia
             PROVE  AttachedOK'
  BY <1>1 DEF AttachedOK
<1> DEFINE P == ToSet(pending)
           OfModifiers(c) == \A k \in 1 .. Len(c) : Reach(c[k].comments, c[k].line)
           OfRecords(r) == \A k \in 1 .. Len(r) : Attached(r[k])
<1>2. Reach(pending, i) /\ (pc = "modifiers" => OfModifiers(conditions)) /\ OfRecords(records)
  BY DEF AttachedOK
<1>3. ASSUME Reach(pending', i'), pc' = "modifiers" => OfModifiers(conditions'), OfRecords(records')
      PROVE  AttachedOK'
  <2>1. \A n : Clean(n)' <=> Clean(n)
    BY ONLY <1>1 DEF Clean
  <2>2. \A n, line : Reaches(n, line)' <=> Reaches(n, line)
    BY ONLY <2>1 DEF Reaches
  <2>3. \A n : Free(n)' <=> Free(n)
    BY ONLY <1>1, <2>1 DEF Free
  <2>4. \A s, line : Reach(s, line)' <=> Reach(s, line)
    BY ONLY <2>2 DEF Reach, ToSet
  <2>5. \A record : Attached(record)' <=> Attached(record)
    BY ONLY <2>3, <2>4 DEF Attached
  <2>6. (\A k \in 1 .. Len(records) : Attached(records[k]))'
    BY ONLY <1>3, <2>5
  <2>7. Reach(pending, i)'
    BY ONLY <1>3, <2>4
  <2>8. (pc = "modifiers" => OfModifiers(conditions))'
    BY ONLY <1>3, <2>4
  <2> QED
    BY ONLY <2>6, <2>7, <2>8 DEF AttachedOK
<1> HIDE DEF P
<1>4. /\ i \in Nat /\ \A n \in P : n \in Nat /\ n < i /\ \A m \in n + 1 .. i - 1 : Clean(m)
  <2>1. \A n \in P : n \in Nat
    BY HeldLines, NumbersAre DEF P
  <2> QED
    BY <1>2, <2>1 DEF TypeOK, P, Reach, Reaches
<1>5. More => /\ i \in 1 .. Len(file) /\ Here = file[i] /\ lines[i].line = i
              /\ IsComment(Here) => Clean(i)
              /\ IsModifier(Here) /\ Word(2) = None => Clean(i)
  BY HereClean
<1>6. ASSUME More, Clean(i), NEW s, \A n \in ToSet(s) : n \in P \/ n = i
      PROVE  Reach(s, i + 1)
  <2>1. \A n \in ToSet(s) : n \in Nat /\ n < i + 1 /\ \A m \in n + 1 .. i : Clean(m)
    BY ONLY <1>4, <1>6
  <2>2. ASSUME NEW n \in ToSet(s)
        PROVE  Reaches(n, i + 1)
    <3>1. /\ n \in Nat /\ n < i + 1 /\ \A m \in n + 1 .. i : Clean(m)
      BY <2>1
    <3>2. \A m \in n + 1 .. (i + 1) - 1 : m \in n + 1 .. i
      BY ONLY <1>4, <3>1
    <3> QED
      BY ONLY <3>1, <3>2 DEF Reaches
  <2> QED
    BY ONLY <2>2 DEF Reach
<1>7. \A line : Reach(<<>>, line)
  BY DEF Reach, ToSet
<1>8. OfRecords(WithBlankRun)
  <2>1. CASE blanks.count > 0
    <3>1. WithBlankRun = records \o <<BlankRun(blanks)>> /\ <<BlankRun(blanks)>> \in Seq(Node)
          /\ records \in Seq(Node)
      <4>1. records \in Seq(Node) /\ BlankRun(blanks) \in Node
        BY <2>1 DEF TypeOK, BlankRun, Node, BlankNode
      <4> QED
        BY ONLY <2>1, <4>1 DEF WithBlankRun
    <3>2. Attached(BlankRun(blanks))
      BY DEF Attached, BlankRun, IsRecord
    <3>3. OfRecords(records \o <<BlankRun(blanks)>>)
      BY ONLY <1>2, <3>1, <3>2, InConcat
    <3> QED
      BY ONLY <3>1, <3>3
  <2>2. CASE ~(blanks.count > 0)
    BY ONLY <1>2, <2>2 DEF WithBlankRun
  <2> QED
    BY ONLY <2>1, <2>2
<1>9. ASSUME More => IsBlank(Here), NEW nodes \in Seq(Node), OfRecords(nodes)
      PROVE  OfRecords(nodes \o WithPending)
  <2>1. \A n \in ToSet(pending) : Free(n)
    BY <1>2, <1>9, PendingFree
  <2> QED
    BY ONLY TypeOK, <1>9, <2>1, nodes \in Seq(Node), FreeComments
<1>10. records \in Seq(Node) /\ WithBlankRun \in Seq(Node)
  BY BlankRuns DEF TypeOK
<1> HIDE DEF OfModifiers, OfRecords
<1>11. More => \A n \in ToSet(Append(pending, lines[i].line)) : n \in P \/ n = i
  <2>1. More => LineAt(i) = i
    BY ONLY <1>5 DEF LineAt, More
  <2>2. More => ToSet(Append(pending, lines[i].line)) = ToSet(pending) \cup {LineAt(i)}
    BY PendingAppended
  <2> QED
    BY ONLY <2>1, <2>2 DEF P
<1>12. CASE BlankLine
  <2>1. /\ More /\ IsBlank(Here) /\ pending' = <<>> /\ records' = records \o WithPending
        /\ pc' = "preamble"
    BY <1>12 DEF BlankLine, InPreamble, flushPendingAsTopLevel
  <2> QED
    BY ONLY <1>2, <1>3, <1>7, <1>9, <1>10, <2>1
<1>13. CASE CommentLine
  <2>1. /\ More /\ IsComment(Here) /\ pending' = Append(pending, lines[i].line) /\ i' = i + 1
        /\ records' = WithBlankRun /\ pc' = "preamble"
    BY <1>13 DEF CommentLine, InPreamble, flushBlankRun
  <2>2. Reach(pending', i')
    BY ONLY <1>5, <1>6, <1>11, <2>1
  <2> QED
    BY ONLY <1>3, <1>8, <2>1, <2>2
<1>14. CASE EndPreamble
  <2>1. /\ UNCHANGED <<i, pending>> /\ conditions' = <<>> /\ records' = WithBlankRun
    BY <1>14 DEF EndPreamble, flushBlankRun
  <2>2. OfModifiers(<<>>)
    BY DEF OfModifiers
  <2> QED
    BY ONLY <1>2, <1>3, <1>8, <2>1, <2>2
<1>15. CASE ReturnResult
  <2>1. ~More /\ pending' = <<>> /\ records' = WithBlankRun \o WithPending /\ pc' = "returned"
    BY <1>15 DEF ReturnResult
  <2> QED
    BY ONLY <1>3, <1>7, <1>8, <1>9, <1>10, <2>1
<1>16. CASE ModifierComment
  <2>1. /\ More /\ IsComment(Here) /\ pending' = Append(pending, lines[i].line) /\ i' = i + 1
        /\ UNCHANGED <<pc, conditions, records>>
    BY <1>16 DEF ModifierComment
  <2>2. Reach(pending', i')
    BY ONLY <1>5, <1>6, <1>11, <2>1
  <2> QED
    BY ONLY <1>2, <1>3, <2>1, <2>2
<1>17. CASE NoEngine
  <2>1. /\ More /\ IsModifier(Here) /\ Word(2) = None /\ i' = i + 1
        /\ UNCHANGED <<pc, pending, conditions, records>>
    BY <1>17 DEF NoEngine
  <2>2. Reach(pending, i + 1)
    BY ONLY <1>5, <1>6, <2>1 DEF P
  <2> QED
    BY ONLY <1>2, <1>3, <2>1, <2>2
<1>18. CASE Modifier
  <2> DEFINE c == [kind |-> Word(1), line |-> lines[i].line, comments |-> Trivia(pending)]
  <2>1. /\ More /\ pc = "modifiers" /\ conditions' = Append(conditions, c) /\ pending' = <<>>
        /\ UNCHANGED records
    BY <1>18 DEF Modifier, InModifiers
  <2>2. c.line = i /\ c.comments = pending
    BY <1>5, <2>1 DEF Trivia
  <2> HIDE DEF c
  <2>3. Len(conditions) \in Nat /\ conditions \in Seq(ConditionNode)
    BY LenProperties DEF TypeOK
  <2>4. /\ Len(conditions') = Len(conditions) + 1 /\ conditions'[Len(conditions) + 1] = c
        /\ \A k \in 1 .. Len(conditions) : conditions'[k] = conditions[k]
    BY ONLY <2>1, <2>3
  <2>5. ASSUME NEW k \in 1 .. Len(conditions')
        PROVE  Reach(conditions'[k].comments, conditions'[k].line)
    <3>1. k \in 1 .. Len(conditions) \/ k = Len(conditions) + 1
      BY ONLY <2>3, <2>4, k \in 1 .. Len(conditions')
    <3>2. CASE k \in 1 .. Len(conditions)
      BY ONLY <1>2, <2>1, <2>4, <3>2 DEF OfModifiers
    <3>3. CASE k = Len(conditions) + 1
      BY ONLY <1>2, <2>2, <2>4, <3>3
    <3> QED
      BY ONLY <3>1, <3>2, <3>3
  <2>6. OfModifiers(conditions')
    BY ONLY <2>5 DEF OfModifiers
  <2> QED
    BY ONLY <1>2, <1>3, <1>7, <2>1, <2>6
<1>19. CASE NoRecord
  <2>1. /\ More => IsBlank(Here)
        /\ pending' = <<>> /\ records' = records \o WithPending /\ pc' = "preamble"
    BY <1>19 DEF NoRecord, flushPendingAsTopLevel
  <2> QED
    BY ONLY <1>2, <1>3, <1>7, <1>9, <1>10, <2>1
<1>20. CASE MalformedHeader
  <2>1. pending' = <<>> /\ UNCHANGED records /\ pc' = "preamble"
    BY <1>20 DEF MalformedHeader, ReadsHeader
  <2> QED
    BY ONLY <1>2, <1>3, <1>7, <2>1
<1>21. CASE Statement \/ Query \/ Control
  <2>1. /\ \E node : records' = Append(records, node) /\ TakenBy(node)
        /\ More /\ pc = "modifiers" /\ pc' = "preamble" /\ pending' = <<>>
    BY <1>21, HeaderRecord
  <2>2. PICK node : records' = Append(records, node) /\ TakenBy(node)
    BY ONLY <2>1
  <2>3. /\ node \in Node /\ IsRecord(node) /\ node.line = i /\ node.conditions = conditions
        /\ node.comments = pending
    BY ONLY <1>5, <2>1, <2>2, emitTrivia DEF TakenBy, Trivia
  <2>4. Attached(node)
    BY ONLY <1>2, <2>1, <2>3 DEF Attached, IsRecord, OfModifiers
  <2>5. records' = records \o <<node>> /\ <<node>> \in Seq(Node) /\ Len(<<node>>) = 1 /\ <<node>>[1] = node
    BY ONLY <1>10, <2>2, <2>3
  <2>6. OfRecords(records \o <<node>>)
    BY ONLY <1>2, <1>10, <2>4, <2>5, InConcat DEF OfRecords
  <2> QED
    BY ONLY <1>3, <1>7, <2>1, <2>5, <2>6
<1> QED
  BY <1>12, <1>13, <1>14, <1>15, <1>16, <1>17, <1>18, <1>19, <1>20, <1>21
     DEF ParseNext, Preamble, Modifiers, Record
-----------------------------------------------------------------------------
(* Blank lines *)

(* No line, or one that is not blank.                                      *)
NotBlank(n) == n \in LineNumber => ~IsBlank(file[n])

(* A record is of its own line, and a run of blank lines is a whole one.   *)
Placed(record) ==
  /\ record.line \in LinesIn(record)
  /\ record.type = "blank" => NotBlank(record.line - 1) /\ NotBlank(record.line + record.count)
(* Nodes are placed; the line before a run is not blank, nor, when no run  *)
(* is open, the line before the position.                                  *)
BlanksOK ==
  /\ \A k \in 1 .. Len(records) : Placed(records[k])
  /\ blanks.count > 0 => NotBlank(blanks.start - 1)
  /\ emitTrivia /\ pc = "preamble" /\ ~(blanks.count > 0) => NotBlank(i - 1)
  /\ emitTrivia /\ pc = "modifiers" => (More /\ ~IsBlank(Here)) \/ NotBlank(i - 1)

(* Comments that are flushed are placed.                                   *)
LEMMA CommentsPlaced ==
  ASSUME TypeOK, NEW nodes \in Seq(Node), \A k \in 1 .. Len(nodes) : Placed(nodes[k])
  PROVE  \A k \in 1 .. Len(nodes \o WithPending) : Placed((nodes \o WithPending)[k])
<1>1. /\ WithPending \in Seq(Node) /\ Len(WithPending) = Len(pending)
      /\ \A k \in 1 .. Len(pending) : WithPending[k] = Comment(pending[k])
  BY CommentNodes DEF TypeOK
<1>2. \A k \in 1 .. Len(WithPending) : Placed(WithPending[k])
  <2>1. ASSUME NEW n \in Nat
        PROVE  Placed(Comment(n))
    <3>1. LinesIn(Comment(n)) = {n}
      BY ONLY n \in Nat, CommentLines
    <3>2. Comment(n).line = n /\ Comment(n).type = "comment"
      BY DEF Comment
    <3> QED
      BY ONLY <3>1, <3>2 DEF Placed
  <2>2. pending \in Seq(Nat)
    BY NumbersAre DEF TypeOK
  <2>3. \A k \in 1 .. Len(pending) : pending[k] \in Nat
    BY ONLY <2>2, ElementOfSeq
  <2> QED
    BY ONLY <1>1, <2>1, <2>3
<1> QED
  BY ONLY <1>1, <1>2, nodes \in Seq(Node), \A k \in 1 .. Len(nodes) : Placed(nodes[k]), InConcat

(* A run that is flushed at a line that is not blank is placed.            *)
LEMMA RunPlaced ==
  ASSUME TypeOK, BlanksOK, blanks.count > 0 => NotBlank(i)
  PROVE  \A k \in 1 .. Len(WithBlankRun) : Placed(WithBlankRun[k])
<1>1. CASE blanks.count > 0
  <2>1. /\ records \in Seq(Node) /\ BlankRun(blanks) \in Node
        /\ blanks.start \in Nat /\ blanks.count \in Nat /\ blanks.start + blanks.count = i
    BY <1>1 DEF TypeOK, BlankRun, Node, BlankNode
  <2>2. /\ WithBlankRun = records \o <<BlankRun(blanks)>> /\ <<BlankRun(blanks)>> \in Seq(Node)
        /\ Len(<<BlankRun(blanks)>>) = 1 /\ <<BlankRun(blanks)>>[1] = BlankRun(blanks)
    BY ONLY <1>1, <2>1 DEF WithBlankRun
  <2>3. BlankRun(blanks).line = blanks.start /\ BlankRun(blanks).count = blanks.count
    BY DEF BlankRun
  <2>4. BlankRun(blanks).line \in LinesIn(BlankRun(blanks))
    <3>1. LinesIn(BlankRun(blanks)) = BlankLines
      <4>1. blanks \in [start : Nat, count : Nat]
        BY DEF TypeOK
      <4> QED
        BY ONLY <4>1, BlankLinesOf DEF BlankLines
    <3>2. blanks.start \in BlankLines
      BY ONLY <1>1, <2>1 DEF BlankLines
    <3> QED
      BY ONLY <2>3, <3>1, <3>2
  <2>5. Placed(BlankRun(blanks))
    BY ONLY <1>1, <2>1, <2>3, <2>4, BlanksOK, blanks.count > 0 => NotBlank(i) DEF Placed, BlanksOK
  <2>6. \A k \in 1 .. Len(records) : Placed(records[k])
    BY DEF BlanksOK
  <2> HIDE DEF BlankRun, WithBlankRun
  <2> QED
    BY ONLY <2>1, <2>2, <2>5, <2>6, InConcat
<1>2. CASE ~(blanks.count > 0)
  BY ONLY <1>2, BlanksOK DEF WithBlankRun, BlanksOK
<1> QED
  BY ONLY <1>1, <1>2

(* Every step keeps runs whole.                                            *)
LEMMA BlanksStep ==
  ASSUME TypeOK, OrderOK, BlanksOK, ParseNext
  PROVE  BlanksOK'
<1>1. /\ TypeOK' /\ file' = file /\ lines' = lines /\ emitTrivia' = emitTrivia
  BY TypeStep, StepKeepsCall, SameTypes
<1> DEFINE OfRecords(r) == \A k \in 1 .. Len(r) : Placed(r[k])
<1>2. /\ OfRecords(records)
      /\ blanks.count > 0 => NotBlank(blanks.start - 1)
      /\ emitTrivia /\ pc = "preamble" /\ ~(blanks.count > 0) => NotBlank(i - 1)
      /\ emitTrivia /\ pc = "modifiers" => (More /\ ~IsBlank(Here)) \/ NotBlank(i - 1)
      /\ blanks \in [start : Nat, count : Nat] /\ records \in Seq(Node) /\ WithBlankRun \in Seq(Node)
      /\ i \in Nat
      /\ blanks.count > 0 => emitTrivia /\ pc = "preamble" /\ pending = <<>>
  BY BlankRuns DEF BlanksOK, TypeOK
<1>3. ASSUME OfRecords(records'),
             blanks'.count > 0 => NotBlank(blanks'.start - 1),
             emitTrivia /\ pc' = "preamble" /\ ~(blanks'.count > 0) => NotBlank(i' - 1),
             emitTrivia /\ pc' = "modifiers" => (i' = i /\ More /\ ~IsBlank(Here)) \/ NotBlank(i' - 1)
      PROVE  BlanksOK'
  <2>1. \A n : NotBlank(n)' <=> NotBlank(n)
    BY ONLY <1>1 DEF NotBlank, LineNumber
  <2>2. \A record : LinesIn(record)' = LinesIn(record)
    BY DEF LinesIn, LinesOf, OrNone, ToSet
  <2>3. \A record : Placed(record)' <=> Placed(record)
    BY ONLY <2>1, <2>2 DEF Placed
  <2>4. OfRecords(records)'
    BY ONLY <1>3, <2>3
  <2>5. (blanks.count > 0 => NotBlank(blanks.start - 1))'
    BY ONLY <1>3, <2>1
  <2>6. (emitTrivia /\ pc = "preamble" /\ ~(blanks.count > 0) => NotBlank(i - 1))'
    BY ONLY <1>1, <1>3, <2>1
  <2>7. i' = i /\ More /\ ~IsBlank(Here) => (More /\ ~IsBlank(Here))'
    BY ONLY <1>1 DEF More, Here, IsBlank
  <2>8. (emitTrivia /\ pc = "modifiers" => (More /\ ~IsBlank(Here)) \/ NotBlank(i - 1))'
    BY ONLY <1>1, <1>3, <2>1, <2>7
  <2> QED
    BY ONLY <2>4, <2>5, <2>6, <2>8 DEF BlanksOK
<1> HIDE DEF OfRecords
<1>4. emitTrivia => /\ Len(lines) = Len(file) /\ Len(file) \in Nat
                    /\ \A n \in 1 .. Len(file) : lines[n].text = file[n]
                    /\ More => i \in 1 .. Len(file) /\ Here = file[i]
                    /\ \A n \in 1 .. Len(file) : IsBlank(file[n]) => ~IsModifier(file[n])
  BY HereClean
<1>5. emitTrivia /\ (More => ~IsBlank(Here)) => NotBlank(i)
  BY <1>4 DEF NotBlank, LineNumber, More
<1>7. i' = i + 1 /\ NotBlank(i) => NotBlank(i' - 1)
  <2>1. (i + 1) - 1 = i
    BY ONLY <1>2
  <2> QED
    BY ONLY <2>1
<1>8. ~(NoBlanks.count > 0)
  BY DEF NoBlanks
<1>9. ASSUME More => ~IsBlank(Here)
      PROVE  OfRecords(WithBlankRun)
  BY <1>2, <1>5, <1>9, RunPlaced DEF OfRecords
<1>10. ASSUME NEW nodes \in Seq(Node), OfRecords(nodes)
       PROVE  OfRecords(nodes \o WithPending)
  BY ONLY TypeOK, nodes \in Seq(Node), <1>10, CommentsPlaced DEF OfRecords
<1>11. CASE BlankLine
  <2>1. /\ More /\ IsBlank(Here) /\ pc = "preamble" /\ pc' = "preamble" /\ i' = i + 1
    BY <1>11 DEF BlankLine, InPreamble
  <2>2. CASE emitTrivia
    <3>1. /\ records' = records \o WithPending
          /\ blanks' = [start |-> IF blanks.count = 0 THEN lines[i].line ELSE blanks.start,
                        count |-> blanks.count + 1]
      BY <1>11, <2>2 DEF BlankLine, flushPendingAsTopLevel
    <3>2. lines[i].line = i
      BY <2>1, <2>2, HereIs
    <3>3. blanks'.count > 0 /\ NotBlank(blanks'.start - 1)
      <4>1. blanks'.start = (IF blanks.count = 0 THEN i ELSE blanks.start) /\ blanks'.count = blanks.count + 1
        BY ONLY <3>1, <3>2
      <4> QED
        BY ONLY <1>2, <2>1, <2>2, <4>1
    <3> QED
      BY ONLY <1>2, <1>3, <1>10, <2>1, <3>1, <3>3
  <2>3. CASE ~emitTrivia
    <3>1. UNCHANGED <<records, blanks>>
      BY <1>11, <2>3 DEF BlankLine
    <3> QED
      BY ONLY <1>2, <1>3, <2>1, <2>3, <3>1
  <2> QED
    BY ONLY <2>2, <2>3
<1>12. CASE CommentLine
  <2>1. /\ More /\ IsComment(Here) /\ i' = i + 1
        /\ records' = WithBlankRun /\ blanks' = NoBlanks /\ pc' = "preamble"
    BY <1>12 DEF CommentLine, InPreamble, flushBlankRun
  <2>2. ~IsBlank(Here)
    BY ONLY <2>1 DEF IsComment, IsBlank
  <2> QED
    BY ONLY <1>3, <1>5, <1>7, <1>8, <1>9, <2>1, <2>2
<1>13. CASE EndPreamble
  <2>1. /\ More /\ ~IsBlank(Here) /\ i' = i /\ records' = WithBlankRun /\ blanks' = NoBlanks
        /\ pc' = "modifiers"
    BY <1>13 DEF EndPreamble, flushBlankRun
  <2> QED
    BY ONLY <1>3, <1>8, <1>9, <2>1
<1>14. CASE ReturnResult
  <2>1. ~More /\ records' = WithBlankRun \o WithPending /\ blanks' = NoBlanks /\ pc' = "returned"
    BY <1>14 DEF ReturnResult
  <2> QED
    BY ONLY <1>2, <1>3, <1>8, <1>9, <1>10, <2>1
<1>15. pc = "modifiers" => ~(blanks.count > 0)
  BY ONLY <1>2
<1>16. CASE ModifierComment \/ NoEngine \/ Modifier
  <2>1. /\ More /\ pc = "modifiers" /\ (IsComment(Here) \/ IsModifier(Here)) /\ i' = i + 1
        /\ UNCHANGED <<pc, blanks, records>>
    BY <1>16 DEF ModifierComment, NoEngine, Modifier, InModifiers
  <2>2. ~IsBlank(Here)
    BY ONLY <2>1, FilesAssumption DEF IsComment, IsModifier, IsBlank, WordOf
  <2> QED
    BY ONLY <1>2, <1>3, <1>5, <1>7, <2>1, <2>2
<1>17. CASE NoRecord
  <2>1. /\ More => IsBlank(Here)
        /\ pc = "modifiers" /\ pc' = "preamble" /\ UNCHANGED <<i, blanks>>
        /\ records' = records \o WithPending
    BY <1>17 DEF NoRecord, InModifiers, flushPendingAsTopLevel
  <2> QED
    BY ONLY <1>2, <1>3, <1>10, <2>1
<1>18. ASSUME ReadsHeader, i' = skipToBlank(i + 1) \/ i' = i + 1, emitTrivia
       PROVE  NotBlank(i' - 1)
  <2>1. More /\ ~IsBlank(Here)
    BY <1>18 DEF ReadsHeader, AtHeader
  <2>2. NotBlank(i)
    BY ONLY <1>5, <1>18, <2>1
  <2>3. CASE i' = i + 1
    BY ONLY <1>7, <2>2, <2>3
  <2>4. CASE i' = skipToBlank(i + 1)
    <3> DEFINE stop == skipToBlank(i + 1)
    <3>1. /\ stop \in i + 1 .. Len(lines) + 1
          /\ \A m \in i + 1 .. stop - 1 : ~IsBlank(lines[m].text)
      BY ONLY TypeOK, <2>1, BodyIs
    <3> HIDE DEF stop
    <3>2. stop - 1 = i \/ (stop - 1 \in i + 1 .. stop - 1 /\ stop - 1 \in 1 .. Len(file))
      BY ONLY <1>2, <1>4, <1>18, <3>1
    <3>3. NotBlank(stop - 1)
      BY ONLY <1>4, <1>18, <2>2, <3>1, <3>2 DEF NotBlank
    <3> QED
      BY ONLY <2>4, <3>3 DEF stop
  <2> QED
    BY ONLY <1>18, <2>3, <2>4
<1>19. CASE MalformedHeader
  <2>1. /\ ReadsHeader /\ pc = "modifiers" /\ pc' = "preamble" /\ UNCHANGED <<blanks, records>>
        /\ i' = skipToBlank(i + 1)
    BY <1>19 DEF MalformedHeader, ReadsHeader, AtHeader, InModifiers
  <2> QED
    BY ONLY <1>2, <1>3, <1>15, <1>18, <2>1
<1>20. CASE Statement \/ Query \/ Control
  <2>1. /\ \E node : records' = Append(records, node) /\ TakenBy(node)
        /\ More /\ pc = "modifiers" /\ pc' = "preamble" /\ UNCHANGED blanks
        /\ i' = skipToBlank(i + 1) \/ i' = i + 1
    BY <1>20, HeaderRecord
  <2>2. PICK node : records' = Append(records, node) /\ TakenBy(node)
    BY ONLY <2>1
  <2>3. Placed(node) /\ node \in Node
    BY ONLY <2>2 DEF TakenBy, Placed, IsRecord
  <2>4. records' = records \o <<node>> /\ <<node>> \in Seq(Node) /\ Len(<<node>>) = 1 /\ <<node>>[1] = node
    BY ONLY <1>2, <2>2, <2>3
  <2>5. OfRecords(records \o <<node>>)
    BY ONLY <1>2, <2>3, <2>4, InConcat DEF OfRecords
  <2>6. ReadsHeader
    BY <1>20 DEF Statement, Query, Control
  <2> QED
    BY ONLY <1>2, <1>3, <1>15, <1>18, <2>1, <2>4, <2>5, <2>6
<1> QED
  BY <1>11, <1>12, <1>13, <1>14, <1>16, <1>17, <1>19, <1>20
     DEF ParseNext, Preamble, Modifiers, Record
-----------------------------------------------------------------------------
(* What the property asks for                                              *)

(* The line after the comments from a line on.                             *)
LEMMA NextLineIs ==
  ASSUME file \in Seq(RawLine), NEW n \in LineNumber, NEW next, next = NextLine(n)
  PROVE  /\ next \in n + 1 .. Len(file) + 1
         /\ next <= Len(file) => ~IsComment(file[next])
         /\ \A k \in n + 1 .. next - 1 : IsComment(file[k])
<1> DEFINE T == {k \in n + 1 .. Len(file) : ~IsComment(file[k])}
           Is(m) == /\ m <= Len(file) => ~IsComment(file[m])
                    /\ \A k \in n + 1 .. m - 1 : IsComment(file[k])
<1>1. Len(file) \in Nat /\ n \in 1 .. Len(file)
  BY LenProperties DEF LineNumber
<1>2. n + 1 \in Nat /\ Len(file) + 1 \in Nat /\ n + 1 <= Len(file) + 1
  BY ONLY <1>1
<1>3. \E m \in n + 1 .. Len(file) + 1 :
        (m < Len(file) + 1 => m \in T) /\ \A k \in n + 1 .. m - 1 : k \notin T
  <2> HIDE DEF T
  <2> QED
    BY ONLY <1>2, FirstIn
<1>4. \E m \in n + 1 .. Len(file) + 1 : Is(m)
  BY <1>1, <1>3
<1>5. next = CHOOSE m \in n + 1 .. Len(file) + 1 : Is(m)
  BY DEF NextLine
<1> HIDE DEF Is
<1>6. next \in n + 1 .. Len(file) + 1 /\ Is(next)
  BY ONLY <1>4, <1>5
<1> QED
  BY ONLY <1>6 DEF Is

(* The invariant implies the property.                                     *)
LEMMA InvariantAttaches ==
  ASSUME TypeOK, OrderOK, AttachedOK, BlanksOK
  PROVE  AttachedDirectlyAbove
<1> DEFINE bare(n) == IsModifier(file[n]) /\ WordOf(file[n], 2) = None
           above(n, line) == /\ n < line
                             /\ \A m \in n + 1 .. line - 1 : IsComment(file[m]) \/ bare(m)
<1> SUFFICES ASSUME Returned, emitTrivia, NEW record \in ToSet(records)
             PROVE  IF record.type = "comment"
                    THEN NextLine(record.line) <= Len(file) =>
                           IsBlank(file[NextLine(record.line)]) \/ bare(NextLine(record.line))
                    ELSE IsRecord(record) =>
                           /\ \A n \in ToSet(record.comments) : above(n, record.line)
                           /\ \A c \in ToSet(record.conditions) :
                                \A n \in ToSet(c.comments) : above(n, c.line)
  BY DEF AttachedDirectlyAbove
<1>1. records \in Seq(Node) /\ file \in Seq(RawLine)
  BY DEF TypeOK, CallOK
<1>2. record \in Node /\ Attached(record)
  <2>1. PICK k \in DOMAIN records : record = records[k]
    BY DEF ToSet
  <2>2. k \in 1 .. Len(records)
    BY <1>1, LenProperties
  <2> QED
    BY <1>1, <2>1, <2>2, ElementOfSeq DEF AttachedOK
<1>3. \A n, line : Reaches(n, line) => above(n, line)
  BY DEF Reaches, Clean
<1>4. CASE record.type = "comment"
  <2> DEFINE next == NextLine(record.line)
  <2>1. record.line \in LineNumber
    BY <1>2, <1>4 DEF Node, CommentNode, BlankNode, StatementNode, QueryNode, ControlNode
  <2>2. /\ next \in record.line + 1 .. Len(file) + 1
        /\ next <= Len(file) => ~IsComment(file[next])
        /\ \A k \in record.line + 1 .. next - 1 : IsComment(file[k])
    BY ONLY <1>1, <2>1, NextLineIs
  <2>3. Free(record.line)
    BY ONLY <1>2, <1>4 DEF Attached
  <2> HIDE DEF next
  <2>4. ASSUME next <= Len(file), ~bare(next)
        PROVE  IsBlank(file[next])
    <3>1. next \in record.line + 1 .. Len(file)
      <4>1. record.line \in Nat /\ Len(file) \in Nat
        BY <1>1, <2>1, LenProperties, NumbersAre
      <4> QED
        BY ONLY <2>2, <2>4, <4>1
    <3>2. ~Clean(next)
      BY ONLY <2>2, <2>4 DEF Clean
    <3>3. \A k \in record.line + 1 .. next - 1 : Clean(k)
      BY ONLY <2>2 DEF Clean
    <3> QED
      BY ONLY <2>3, <3>1, <3>2, <3>3 DEF Free
  <2> QED
    BY ONLY <1>4, <2>4 DEF next
<1>5. CASE record.type # "comment" /\ IsRecord(record)
  <2>1. /\ Reach(record.comments, record.line)
        /\ \A k \in 1 .. Len(record.conditions) :
             Reach(record.conditions[k].comments, record.conditions[k].line)
    BY ONLY <1>2, <1>5 DEF Attached
  <2>2. \A n \in ToSet(record.comments) : above(n, record.line)
    BY ONLY <1>3, <2>1 DEF Reach
  <2>3. record.conditions \in Seq(ConditionNode)
    BY ONLY <1>2, <1>5
       DEF Node, CommentNode, BlankNode, StatementNode, QueryNode, ControlNode, IsRecord
  <2>4. ASSUME NEW c \in ToSet(record.conditions), NEW n \in ToSet(c.comments)
        PROVE  above(n, c.line)
    <3>1. PICK k \in 1 .. Len(record.conditions) : c = record.conditions[k]
      BY <2>3, LenProperties DEF ToSet
    <3> QED
      BY <1>3, <2>1, <3>1 DEF Reach
  <2> HIDE DEF above
  <2> QED
    BY ONLY <1>5, <2>2, <2>4
<1> HIDE DEF above, bare
<1> QED
  BY ONLY <1>4, <1>5

(* The invariant implies the order of records.                             *)
LEMMA InvariantOrders ==
  ASSUME TypeOK, OrderOK, BlanksOK
  PROVE  InLineOrder
<1>1. ASSUME NEW m \in 1 .. Len(records), NEW n \in 1 .. Len(records), m < n
      PROVE  records[m].line < records[n].line
  <2>1. Precedes(LinesIn(records[m]), LinesIn(records[n]))
    BY <1>1 DEF OrderOK, RecordsBefore
  <2>2. records[m].line \in LinesIn(records[m]) /\ records[n].line \in LinesIn(records[n])
    BY DEF BlanksOK, Placed
  <2> QED
    BY ONLY <2>1, <2>2 DEF Precedes
<1>2. ASSUME NEW record \in ToSet(records), record.type = "blank"
      PROVE  LET after == record.line + record.count
             IN  /\ record.line > 1 => ~IsBlank(file[record.line - 1])
                 /\ after <= Len(file) => ~IsBlank(file[after])
  <2>1. records \in Seq(Node) /\ Len(file) \in Nat
    BY LenProperties DEF TypeOK, CallOK
  <2>2. PICK k \in 1 .. Len(records) : record = records[k]
    BY <2>1, LenProperties DEF ToSet
  <2>3. record \in Node
    BY <2>1, <2>2, ElementOfSeq
  <2>4. record.line \in 1 .. Len(file) /\ record.count \in Nat
    BY ONLY <1>2, <2>3
       DEF Node, CommentNode, BlankNode, StatementNode, QueryNode, ControlNode, LineNumber
  <2>5. NotBlank(record.line - 1) /\ NotBlank(record.line + record.count)
    BY <1>2, <2>2 DEF BlanksOK, Placed
  <2> QED
    BY ONLY <2>1, <2>4, <2>5 DEF NotBlank, LineNumber
<1> QED
  BY <1>1, <1>2 DEF InLineOrder
-----------------------------------------------------------------------------
(* Coverage *)

(* The lines of nodes.                                                     *)
AcceptedBy(nodes) == UNION {LinesIn(nodes[n]) : n \in 1 .. Len(nodes)}

(* With trivia, what was read is in a record or waits for one, or is lost  *)
(* with a diagnostic; what waits is of the block that is being read.       *)
CoverageOK == emitTrivia =>
  /\ \A n \in 1 .. i - 1 : \/ n \in AcceptedBy(records) \cup Held
                           \/ IsSeparator(file[n])
                           \/ BlockOf(n) \cap ToSet(errors) # {}
  /\ \A n \in ConditionLines \cup ToSet(pending) : \A k \in n .. i - 1 : ~IsBlank(file[k])
  /\ pc = "returned" => pending = <<>>

(* A line of nodes is a line of one of them.                               *)
LEMMA AcceptedLine ==
  ASSUME NEW nodes, NEW line
  PROVE  line \in AcceptedBy(nodes) <=> \E n \in 1 .. Len(nodes) : line \in LinesIn(nodes[n])
  BY DEF AcceptedBy

(* The lines of nodes and of more nodes.                                   *)
LEMMA AcceptedOfBoth ==
  ASSUME NEW S, NEW nodes \in Seq(S), NEW more \in Seq(S)
  PROVE  AcceptedBy(nodes \o more) = AcceptedBy(nodes) \cup AcceptedBy(more)
<1> DEFINE all == nodes \o more
           M == Len(nodes)
           N == Len(more)
<1>1. /\ M \in Nat /\ N \in Nat /\ Len(all) = M + N
      /\ \A n \in 1 .. M : all[n] = nodes[n]
      /\ \A n \in 1 .. N : all[M + n] = more[n]
  BY LenProperties, ConcatProperties
<1>2. \A k \in 1 .. Len(all) : (\E n \in 1 .. M : all[k] = nodes[n]) \/ (\E n \in 1 .. N : all[k] = more[n])
  BY ONLY nodes \in Seq(S), more \in Seq(S), InConcat
<1> HIDE DEF all, M, N
<1>3. \A n \in 1 .. M : n \in 1 .. Len(all)
  BY ONLY <1>1
<1>4. \A n \in 1 .. N : M + n \in 1 .. Len(all)
  BY ONLY <1>1
<1>5. ASSUME NEW line
      PROVE  line \in AcceptedBy(all) => line \in AcceptedBy(nodes) \/ line \in AcceptedBy(more)
  <2> SUFFICES ASSUME line \in AcceptedBy(all)
               PROVE  line \in AcceptedBy(nodes) \/ line \in AcceptedBy(more)
    OBVIOUS
  <2>1. PICK k \in 1 .. Len(all) : line \in LinesIn(all[k])
    BY AcceptedLine
  <2>2. (\E n \in 1 .. M : all[k] = nodes[n]) \/ (\E n \in 1 .. N : all[k] = more[n])
    BY ONLY <1>2, k \in 1 .. Len(all)
  <2>3. (\E n \in 1 .. M : line \in LinesIn(nodes[n])) \/ (\E n \in 1 .. N : line \in LinesIn(more[n]))
    BY ONLY <2>1, <2>2
  <2> QED
    BY ONLY <2>3, AcceptedLine DEF M, N
<1>6. ASSUME NEW line, line \in AcceptedBy(nodes)
      PROVE  line \in AcceptedBy(all)
  <2>1. PICK n \in 1 .. M : line \in LinesIn(nodes[n])
    BY <1>6, AcceptedLine DEF M
  <2>2. n \in 1 .. Len(all) /\ line \in LinesIn(all[n])
    BY <1>1, <1>3, <2>1
  <2> QED
    BY ONLY <2>2, AcceptedLine
<1>7. ASSUME NEW line, line \in AcceptedBy(more)
      PROVE  line \in AcceptedBy(all)
  <2>1. PICK n \in 1 .. N : line \in LinesIn(more[n])
    BY <1>7, AcceptedLine DEF N
  <2>2. M + n \in 1 .. Len(all) /\ all[M + n] = more[n]
    BY <1>1, <1>4
  <2>3. line \in LinesIn(all[M + n])
    BY ONLY <2>1, <2>2
  <2> QED
    BY ONLY <2>2, <2>3, AcceptedLine
<1>8. AcceptedBy(all) = AcceptedBy(nodes) \cup AcceptedBy(more)
  BY ONLY <1>5, <1>6, <1>7
<1> QED
  BY ONLY <1>8 DEF all

(* The lines of one node.                                                  *)
LEMMA AcceptedOfOne ==
  ASSUME NEW node
  PROVE  AcceptedBy(<<node>>) = LinesIn(node)
<1>1. Len(<<node>>) = 1 /\ <<node>>[1] = node /\ 1 .. 1 = {1}
  OBVIOUS
<1> QED
  BY ONLY <1>1 DEF AcceptedBy

(* The lines of nodes, and of one that is appended.                        *)
LEMMA AcceptedWith ==
  ASSUME NEW nodes \in Seq(Node), NEW node \in Node
  PROVE  AcceptedBy(nodes \o <<node>>) = AcceptedBy(nodes) \cup LinesIn(node)
<1>1. <<node>> \in Seq(Node)
  OBVIOUS
<1>2. ASSUME NEW more \in Seq(Node)
      PROVE  AcceptedBy(nodes \o more) = AcceptedBy(nodes) \cup AcceptedBy(more)
  BY ONLY nodes \in Seq(Node), more \in Seq(Node), AcceptedOfBoth
<1>3. AcceptedBy(<<node>>) = LinesIn(node)
  BY ONLY AcceptedOfOne
<1> QED
  BY ONLY <1>1, <1>2, <1>3

(* Comments that are flushed have the lines that waited.                   *)
LEMMA AcceptedComments ==
  ASSUME TypeOK
  PROVE  AcceptedBy(WithPending) = ToSet(pending)
<1>1. /\ Len(WithPending) = Len(pending)
      /\ \A k \in 1 .. Len(pending) : WithPending[k] = Comment(pending[k])
  BY CommentNodes DEF TypeOK
<1>2. pending \in Seq(Nat)
  BY NumbersAre DEF TypeOK
<1>3. \A k \in 1 .. Len(pending) : pending[k] \in Nat
  BY ONLY <1>2, ElementOfSeq
<1>4. \A k \in 1 .. Len(pending) : LinesIn(WithPending[k]) = {pending[k]}
  BY ONLY <1>1, <1>3, CommentLines
<1>5. ToSet(pending) = {pending[k] : k \in 1 .. Len(pending)}
  <2>1. DOMAIN pending = 1 .. Len(pending)
    BY ONLY <1>2, LenProperties
  <2> QED
    BY ONLY <2>1 DEF ToSet
<1>6. ASSUME NEW line
      PROVE  line \in AcceptedBy(WithPending) <=> \E k \in 1 .. Len(pending) : line = pending[k]
  <2>1. line \in AcceptedBy(WithPending)
          <=> \E k \in 1 .. Len(pending) : line \in LinesIn(WithPending[k])
    BY ONLY <1>1, AcceptedLine
  <2>2. \A k \in 1 .. Len(pending) : line \in LinesIn(WithPending[k]) <=> line = pending[k]
    BY ONLY <1>4
  <2> QED
    BY ONLY <2>1, <2>2
<1> QED
  BY ONLY <1>5, <1>6

(* A run that is flushed has the lines of the run.                         *)
LEMMA AcceptedRun ==
  ASSUME TypeOK
  PROVE  AcceptedBy(WithBlankRun) = AcceptedBy(records) \cup BlankLines
<1>1. blanks \in [start : Nat, count : Nat] /\ records \in Seq(Node)
  BY DEF TypeOK
<1>2. CASE blanks.count > 0
  <2>1. BlankRun(blanks) \in Node
    BY <1>2 DEF TypeOK, BlankRun, Node, BlankNode
  <2>2. WithBlankRun = records \o <<BlankRun(blanks)>> /\ <<BlankRun(blanks)>> \in Seq(Node)
    BY ONLY <1>1, <1>2, <2>1 DEF WithBlankRun
  <2>3. AcceptedBy(records \o <<BlankRun(blanks)>>)
          = AcceptedBy(records) \cup LinesIn(BlankRun(blanks))
    <3>1. records \in Seq(Node)
      BY ONLY <1>1
    <3> QED
      BY ONLY <2>1, <3>1, AcceptedWith
  <2>4. LinesIn(BlankRun(blanks)) = BlankLines
    BY ONLY <1>1, BlankLinesOf DEF BlankLines
  <2> QED
    BY ONLY <2>2, <2>3, <2>4
<1>3. CASE ~(blanks.count > 0)
  <2>1. BlankLines = {}
    BY ONLY <1>1, <1>3, NoBlankLines
  <2> QED
    BY ONLY <1>3, <2>1 DEF WithBlankRun
<1> QED
  BY ONLY <1>2, <1>3

(* The members, and the one that is appended.                              *)
LEMMA AppendSet ==
  ASSUME NEW S, NEW s \in Seq(S), NEW x \in S
  PROVE  ToSet(Append(s, x)) = ToSet(s) \cup {x}
<1> DEFINE t == Append(s, x)
           N == Len(s)
<1>1. /\ N \in Nat /\ DOMAIN s = 1 .. N /\ DOMAIN t = 1 .. N + 1
      /\ t[N + 1] = x /\ \A n \in 1 .. N : t[n] = s[n]
  BY LenProperties, AppendProperties
<1>2. 1 .. N + 1 = 1 .. N \cup {N + 1}
  BY ONLY <1>1
<1> HIDE DEF t, N
<1>3. {t[n] : n \in 1 .. N + 1} = {s[n] : n \in 1 .. N} \cup {x}
  BY ONLY <1>1, <1>2
<1> QED
  BY <1>1, <1>3 DEF ToSet, t

(* Two lines with no blank line between them are of one block.             *)
LEMMA SameBlock ==
  ASSUME Len(file) \in Nat, NEW a \in LineNumber, NEW b \in LineNumber, a <= b,
         \A k \in a .. b : ~IsBlank(file[k])
  PROVE  b \in BlockOf(a) /\ a \in BlockOf(b)
<1>1. a \in Int /\ b \in Int
  BY DEF LineNumber
<1>2. ASSUME NEW k \in LineNumber, (a <= k /\ k <= b) \/ (b <= k /\ k <= a)
      PROVE  ~IsBlank(file[k])
  <2>1. k \in a .. b
    BY <1>1, <1>2 DEF LineNumber
  <2> QED
    BY <2>1
<1> QED
  BY <1>2 DEF BlockOf

(* Every step keeps the coverage.                                          *)
LEMMA CoverageStep ==
  ASSUME TypeOK, OrderOK, CoverageOK, ParseNext
  PROVE  CoverageOK'
<1>1. /\ TypeOK' /\ file' = file /\ lines' = lines /\ emitTrivia' = emitTrivia
  BY TypeStep, StepKeepsCall, SameTypes
<1> SUFFICES ASSUME emitTrivia
             PROVE  CoverageOK'
  BY <1>1 DEF CoverageOK
<1> DEFINE P == ToSet(pending)
           C == ConditionLines
           Lost(n) == BlockOf(n) \cap ToSet(errors') # {}
           Covered(n) == n \in AcceptedBy(records') \cup Held' \/ IsSeparator(file[n]) \/ Lost(n)
<1>2. /\ \A n \in 1 .. i - 1 : \/ n \in AcceptedBy(records) \cup Held
                               \/ IsSeparator(file[n])
                               \/ BlockOf(n) \cap ToSet(errors) # {}
      /\ \A n \in C \cup P : \A k \in n .. i - 1 : ~IsBlank(file[k])
  BY DEF CoverageOK
<1>3. /\ Len(lines) = Len(file) /\ Len(file) \in Nat
      /\ \A n \in 1 .. Len(file) : lines[n].text = file[n] /\ lines[n].line = n
      /\ More => i \in 1 .. Len(file) /\ Here = file[i] /\ lines[i].line = i
      /\ \A n \in 1 .. Len(file) : IsBlank(file[n]) => ~IsModifier(file[n])
      /\ i \in 1 .. Len(file) + 1
  <2>1. i \in 1 .. Len(lines) + 1
    BY DEF TypeOK
  <2> QED
    BY <2>1, HereClean
<1>4. /\ records \in Seq(Node) /\ errors \in Seq(LineNumber) /\ pending \in Seq(LineNumber)
      /\ blanks \in [start : Nat, count : Nat] /\ conditions \in Seq(ConditionNode)
      /\ WithBlankRun \in Seq(Node) /\ WithPending \in Seq(Node)
      /\ blanks.count > 0 => pc = "preamble"
  BY BlankRuns, CommentNodes DEF TypeOK, Numbers
<1>5. ASSUME NEW j \in Nat, i' = j,
             AcceptedBy(records) \subseteq AcceptedBy(records'),
             ToSet(errors) \subseteq ToSet(errors'),
             \A n \in Held \cup (i .. j - 1) : Covered(n),
             \A n \in ConditionLines' \cup ToSet(pending') : \A k \in n .. j - 1 : ~IsBlank(file[k]),
             pc' = "returned" => pending' = <<>>
      PROVE  CoverageOK'
  <2>1. \A n : BlockOf(n)' = BlockOf(n)
    BY ONLY <1>1 DEF BlockOf, LineNumber
  <2>2. AcceptedBy(records)' = AcceptedBy(records')
    BY DEF AcceptedBy, LinesIn, LinesOf, OrNone, ToSet
  <2>3. ToSet(errors)' = ToSet(errors') /\ ToSet(pending)' = ToSet(pending')
    BY DEF ToSet
  <2>4. ASSUME NEW n \in 1 .. j - 1
        PROVE  Covered(n)
    <3>1. n \in 1 .. i - 1 \/ n \in i .. j - 1
      BY ONLY <1>3, n \in 1 .. j - 1, j \in Nat
    <3>2. CASE n \in 1 .. i - 1
      BY ONLY <1>2, <1>5, <3>2
    <3> QED
      BY ONLY <1>5, <3>1, <3>2
  <2>5. (\A n \in 1 .. i - 1 : \/ n \in AcceptedBy(records) \cup Held
                               \/ IsSeparator(file[n])
                               \/ BlockOf(n) \cap ToSet(errors) # {})'
    BY ONLY <1>1, <1>5, <2>1, <2>2, <2>3, <2>4
  <2>6. (\A n \in ConditionLines \cup ToSet(pending) : \A k \in n .. i - 1 : ~IsBlank(file[k]))'
    BY ONLY <1>1, <1>5, <2>3
  <2>7. (pc = "returned" => pending = <<>>)'
    BY ONLY <1>5
  <2> QED
    BY ONLY <2>5, <2>6, <2>7 DEF CoverageOK
<1>6. Held = C \cup P \cup BlankLines /\ Held' = ConditionLines' \cup ToSet(pending') \cup BlankLines'
  BY DEF Held, ToSet
<1>7. (pc # "modifiers" => C = {}) /\ (pc' # "modifiers" => ConditionLines' = {})
  BY DEF ConditionLines
<1>8. pc = "modifiers" => BlankLines = {}
  BY ONLY <1>4, NoBlankLines
<1>9. \A n \in C \cup P : n \in LineNumber /\ n \in 1 .. i - 1
  <2>1. Precedes(Held, {LineAt(i)}) /\ C \subseteq LineNumber /\ P \subseteq LineNumber
    BY HeldLines DEF OrderOK
  <2>2. LineAt(i) = i
    BY ONLY <1>3 DEF LineAt
  <2> QED
    BY ONLY <1>3, <1>6, <2>1, <2>2 DEF Precedes, LineNumber
<1>10. ASSUME More, ~IsBlank(Here), NEW n \in C \cup P \cup {i}, NEW k \in n .. i
       PROVE  ~IsBlank(file[k])
  <2>1. CASE k = i
    BY ONLY <1>3, <1>10, <2>1
  <2>2. CASE k # i
    <3>1. n \in C \cup P /\ k \in n .. i - 1
      BY <1>3, <1>9, <2>2
    <3> QED
      BY ONLY <1>2, <3>1
  <2> QED
    BY ONLY <2>1, <2>2
<1>11. /\ AcceptedBy(WithBlankRun) = AcceptedBy(records) \cup BlankLines
       /\ \A nodes \in Seq(Node) : AcceptedBy(nodes \o WithPending) = AcceptedBy(nodes) \cup P
  BY <1>4, AcceptedRun, AcceptedOfBoth, AcceptedComments
<1>12. More => ToSet(Append(pending, lines[i].line)) = P \cup {i}
  BY ONLY <1>3, <1>4, AppendSet DEF LineNumber
<1> HIDE DEF P, C, Lost, Covered
<1>13. (i + 1) - 1 = i /\ i .. i = {i} /\ i + 1 \in Nat /\ i \in Nat /\ i .. i - 1 = {}
  BY ONLY <1>3
<1>14. ASSUME i' = i + 1, AcceptedBy(records) \subseteq AcceptedBy(records'),
              ToSet(errors) \subseteq ToSet(errors'), \A n \in Held \cup {i} : Covered(n),
              \A n \in ConditionLines' \cup ToSet(pending') : \A k \in n .. i : ~IsBlank(file[k]),
              pc' # "returned"
       PROVE  CoverageOK'
  BY ONLY <1>5, <1>13, <1>14
<1>15. ASSUME i' = i, AcceptedBy(records) \subseteq AcceptedBy(records'),
              ToSet(errors) \subseteq ToSet(errors'), \A n \in Held : Covered(n),
              \A n \in ConditionLines' \cup ToSet(pending') : \A k \in n .. i - 1 : ~IsBlank(file[k]),
              pc' = "returned" => pending' = <<>>
       PROVE  CoverageOK'
  BY ONLY <1>5, <1>13, <1>15
<1>16. \A n \in AcceptedBy(records') \cup Held' : Covered(n)
  BY ONLY TRUE DEF Covered
<1>17. ToSet(<<>>) = {}
  BY DEF ToSet
<1>18. CASE BlankLine
  <2>1. /\ More /\ pc = "preamble" /\ pc' = "preamble" /\ i' = i + 1 /\ UNCHANGED errors
        /\ records' = records \o WithPending /\ pending' = <<>>
    BY <1>18 DEF BlankLine, InPreamble, flushPendingAsTopLevel
  <2>2. BlankLines' = BlankLines \cup {i}
    BY <1>18, BlankTaken
  <2>3. C = {} /\ ConditionLines' = {} /\ AcceptedBy(records') = AcceptedBy(records) \cup P
    BY ONLY <1>4, <1>7, <1>11, <2>1
  <2>4. \A n \in Held \cup {i} : Covered(n)
    BY ONLY <1>6, <1>16, <2>2, <2>3
  <2> QED
    BY ONLY <1>14, <1>17, <2>1, <2>3, <2>4
<1>19. CASE CommentLine
  <2>1. /\ More /\ pc = "preamble" /\ pc' = "preamble" /\ i' = i + 1 /\ UNCHANGED errors
        /\ records' = WithBlankRun /\ pending' = Append(pending, lines[i].line) /\ IsComment(Here)
    BY <1>19 DEF CommentLine, InPreamble, flushBlankRun
  <2>2. ToSet(pending') = P \cup {i} /\ ~IsBlank(Here)
    BY ONLY <1>12, <2>1 DEF IsComment, IsBlank
  <2>3. C = {} /\ ConditionLines' = {} /\ AcceptedBy(records') = AcceptedBy(records) \cup BlankLines
    BY ONLY <1>7, <1>11, <2>1
  <2>4. \A n \in Held \cup {i} : Covered(n)
    BY ONLY <1>6, <1>16, <2>2, <2>3
  <2>5. \A n \in ConditionLines' \cup ToSet(pending') : \A k \in n .. i : ~IsBlank(file[k])
    BY ONLY <1>10, <2>1, <2>2, <2>3
  <2> QED
    BY ONLY <1>14, <2>1, <2>3, <2>4, <2>5
<1>20. CASE EndPreamble
  <2>1. /\ pc = "preamble" /\ conditions' = <<>> /\ UNCHANGED <<i, errors, pending>> /\ pc' = "modifiers"
        /\ records' = WithBlankRun
    BY <1>20 DEF EndPreamble, InPreamble, flushBlankRun
  <2>2. ToSet(pending') = P
    BY ONLY <2>1 DEF P
  <2>3. ConditionLines' = {}
    BY ONLY <2>1 DEF ConditionLines
  <2>4. C = {} /\ AcceptedBy(records') = AcceptedBy(records) \cup BlankLines
    BY ONLY <1>7, <1>11, <2>1
  <2>5. \A n \in Held : Covered(n)
    BY ONLY <1>6, <1>16, <2>2, <2>4
  <2> QED
    BY ONLY <1>2, <1>15, <2>1, <2>2, <2>3, <2>4, <2>5
<1>21. CASE ReturnResult
  <2>1. /\ pc = "preamble" /\ UNCHANGED <<i, errors>> /\ pc' = "returned" /\ pending' = <<>>
        /\ records' = WithBlankRun \o WithPending
    BY <1>21 DEF ReturnResult, InPreamble
  <2>2. /\ C = {} /\ ConditionLines' = {}
        /\ AcceptedBy(records') = AcceptedBy(records) \cup BlankLines \cup P
    BY ONLY <1>4, <1>7, <1>11, <2>1
  <2>3. \A n \in Held : Covered(n)
    BY ONLY <1>6, <1>16, <2>2
  <2> QED
    BY ONLY <1>15, <1>17, <2>1, <2>2, <2>3
<1>22. ASSUME NEW lost \in LineNumber, errors' = Append(errors, lost)
       PROVE  ToSet(errors') = ToSet(errors) \cup {lost}
  BY ONLY <1>4, <1>22, AppendSet
<1>23. ASSUME NEW lost \in LineNumber, lost \in ToSet(errors'), NEW n \in LineNumber,
              \/ n <= lost /\ \A k \in n .. lost : ~IsBlank(file[k])
              \/ lost <= n /\ \A k \in lost .. n : ~IsBlank(file[k])
       PROVE  Covered(n)
  <2>1. lost \in BlockOf(n)
    BY ONLY <1>3, <1>23, lost \in LineNumber, n \in LineNumber, SameBlock
  <2> QED
    BY ONLY <1>23, <2>1 DEF Covered, Lost
<1>24. ASSUME UNCHANGED <<pc, conditions>>
       PROVE  ConditionLines' = C
  BY ONLY <1>24 DEF C, ConditionLines, LinesOfCondition, OrNone, ToSet
<1>25. CASE ModifierComment
  <2>1. /\ More /\ pc = "modifiers" /\ i' = i + 1 /\ UNCHANGED <<errors, records, pc, conditions>>
        /\ pending' = Append(pending, lines[i].line) /\ IsComment(Here)
    BY <1>25 DEF ModifierComment, InModifiers
  <2>2. /\ ToSet(pending') = P \cup {i} /\ ~IsBlank(Here) /\ ConditionLines' = C /\ BlankLines = {}
        /\ AcceptedBy(records') = AcceptedBy(records)
    BY ONLY <1>8, <1>12, <1>24, <2>1 DEF IsComment, IsBlank
  <2>3. \A n \in Held \cup {i} : Covered(n)
    BY ONLY <1>6, <1>16, <2>2
  <2>4. \A n \in ConditionLines' \cup ToSet(pending') : \A k \in n .. i : ~IsBlank(file[k])
    BY ONLY <1>10, <2>1, <2>2
  <2> QED
    BY ONLY <1>14, <2>1, <2>2, <2>3, <2>4
<1>26. CASE NoEngine
  <2>1. /\ More /\ pc = "modifiers" /\ i' = i + 1 /\ UNCHANGED <<records, pc, conditions, pending>>
        /\ IsModifier(Here) /\ errors' = Append(errors, lines[i].line)
    BY <1>26 DEF NoEngine, InModifiers, err
  <2>2. /\ ToSet(pending') = P /\ ~IsBlank(Here) /\ ConditionLines' = C /\ BlankLines = {}
        /\ AcceptedBy(records') = AcceptedBy(records) /\ i \in LineNumber
        /\ ToSet(errors') = ToSet(errors) \cup {i}
    <3>1. i \in LineNumber /\ lines[i].line = i /\ ~IsBlank(Here)
      BY ONLY <1>3, <2>1 DEF LineNumber
    <3> QED
      BY ONLY <1>8, <1>22, <1>24, <2>1, <3>1 DEF P
  <2>3. Covered(i)
    <3>1. \A k \in i .. i : ~IsBlank(file[k])
      BY ONLY <1>10, <2>1, <2>2
    <3>2. i <= i /\ i \in ToSet(errors')
      BY ONLY <1>13, <2>2
    <3> QED
      BY ONLY <1>23, <2>2, <3>1, <3>2
  <2>4. \A n \in Held \cup {i} : Covered(n)
    BY ONLY <1>6, <1>16, <2>2, <2>3
  <2>5. \A n \in ConditionLines' \cup ToSet(pending') : \A k \in n .. i : ~IsBlank(file[k])
    BY ONLY <1>10, <2>1, <2>2
  <2> QED
    BY ONLY <1>14, <2>1, <2>2, <2>4, <2>5
<1>27. CASE Modifier
  <2>1. /\ More /\ pc = "modifiers" /\ pc' = "modifiers" /\ i' = i + 1 /\ UNCHANGED <<records, errors>>
        /\ IsModifier(Here) /\ pending' = <<>>
    BY <1>27 DEF Modifier, InModifiers
  <2>2. /\ ToSet(pending') = {} /\ ~IsBlank(Here) /\ BlankLines = {}
        /\ AcceptedBy(records') = AcceptedBy(records) /\ ToSet(errors') = ToSet(errors)
    BY ONLY <1>3, <1>8, <1>17, <2>1
  <2>3. ConditionLines' = C \cup P \cup {i}
    <3>1. ConditionLines' = ConditionLines \cup (IF emitTrivia THEN ToSet(pending) ELSE {}) \cup {LineAt(i)}
      BY <1>27, <2>1, ModifierTaken
    <3>2. LineAt(i) = i
      BY ONLY <1>3 DEF LineAt
    <3> QED
      BY ONLY <3>1, <3>2, emitTrivia DEF C, P
  <2>4. \A n \in Held \cup {i} : Covered(n)
    BY ONLY <1>6, <1>16, <2>2, <2>3
  <2>5. \A n \in ConditionLines' \cup ToSet(pending') : \A k \in n .. i : ~IsBlank(file[k])
    BY ONLY <1>10, <2>1, <2>2, <2>3
  <2> QED
    BY ONLY <1>14, <2>1, <2>2, <2>4, <2>5
<1>28. CASE NoRecord
  <2>1. /\ pc = "modifiers" /\ pc' = "preamble" /\ i' = i /\ pending' = <<>>
        /\ records' = records \o WithPending
    BY <1>28 DEF NoRecord, InModifiers, flushPendingAsTopLevel
  <2>2. /\ ConditionLines' = {} /\ BlankLines = {}
        /\ AcceptedBy(records') = AcceptedBy(records) \cup P
    BY ONLY <1>4, <1>7, <1>8, <1>11, <2>1
  <2>3. CASE conditions = <<>>
    <3>1. C = {}
      BY ONLY <2>3 DEF C, ConditionLines
    <3>2. UNCHANGED errors
      BY <1>28, <2>3 DEF NoRecord
    <3>3. \A n \in Held : Covered(n)
      BY ONLY <1>6, <1>16, <2>2, <3>1
    <3> QED
      BY ONLY <1>15, <1>17, <2>1, <2>2, <3>2, <3>3
  <2>4. CASE conditions # <<>>
    <3> DEFINE last == conditions[Len(conditions)].line
    <3>1. errors' = Append(errors, last)
      BY <1>28, <2>4 DEF NoRecord, err
    <3>2. Len(conditions) \in 1 .. Len(conditions)
      BY ONLY <1>4, <2>4, LenProperties, EmptySeq
    <3>3. last \in C
      <4> DEFINE above == OrNone(conditions[Len(conditions)].comments)
      <4>1. LinesOfCondition(conditions[Len(conditions)]) = above \o <<last>>
        BY DEF LinesOfCondition
      <4>2. above \in Seq(LineNumber) /\ last \in LineNumber
        <5>1. conditions[Len(conditions)] \in ConditionNode
          BY ONLY TypeOK, <3>2, ConditionLinesAre
        <5>2. conditions[Len(conditions)].comments \in Wanted /\ last \in LineNumber
          BY ONLY <5>1 DEF ConditionNode
        <5> QED
          BY ONLY TypeOK, <5>2, WantedIs DEF Numbers
      <4> HIDE DEF above, last
      <4>3. above \o <<last>> = Append(above, last)
        BY ONLY <4>2
      <4>4. ToSet(Append(above, last)) = ToSet(above) \cup {last}
        BY ONLY <4>2, AppendSet
      <4>5. last \in ToSet(LinesOfCondition(conditions[Len(conditions)]))
        BY ONLY <4>1, <4>3, <4>4
      <4> QED
        BY ONLY <2>1, <3>2, <4>5 DEF C, ConditionLines
    <3> HIDE DEF last
    <3>4. last \in LineNumber /\ ToSet(errors') = ToSet(errors) \cup {last}
      BY ONLY <1>9, <1>22, <3>1, <3>3
    <3>5. ASSUME NEW n \in C
          PROVE  Covered(n)
      <4>1. /\ n \in LineNumber /\ n \in 1 .. i - 1 /\ last \in 1 .. i - 1
            /\ \A k \in n .. i - 1 : ~IsBlank(file[k])
            /\ \A k \in last .. i - 1 : ~IsBlank(file[k])
        BY ONLY <1>2, <1>9, <3>3, n \in C
      <4>2. CASE n <= last
        <5>1. \A k \in n .. last : ~IsBlank(file[k])
          BY ONLY <1>3, <4>1
        <5> QED
          BY ONLY <1>23, <3>4, <4>1, <4>2, <5>1
      <4>3. CASE last <= n
        <5>1. \A k \in last .. n : ~IsBlank(file[k])
          BY ONLY <1>3, <4>1
        <5> QED
          BY ONLY <1>23, <3>4, <4>1, <4>3, <5>1
      <4> QED
        BY ONLY <4>1, <4>2, <4>3
    <3>6. \A n \in Held : Covered(n)
      BY ONLY <1>6, <1>16, <2>2, <3>5
    <3> QED
      BY ONLY <1>15, <1>17, <2>1, <2>2, <3>4, <3>6
  <2> QED
    BY ONLY <2>3, <2>4
<1>29. CASE MalformedHeader
  <2> DEFINE stop == skipToBlank(i + 1)
  <2>1. /\ More /\ ~IsBlank(Here) /\ pc = "modifiers" /\ pc' = "preamble" /\ i' = stop /\ pending' = <<>>
        /\ UNCHANGED records /\ errors' = Append(errors, lines[i].line)
    BY <1>29 DEF MalformedHeader, ReadsHeader, AtHeader, InModifiers, err
  <2>2. /\ stop \in i + 1 .. Len(lines) + 1
        /\ \A m \in i + 1 .. stop - 1 : ~IsBlank(lines[m].text)
    BY ONLY TypeOK, <2>1, BodyIs
  <2> HIDE DEF stop
  <2>3. /\ ConditionLines' = {} /\ ToSet(pending') = {} /\ BlankLines = {}
        /\ AcceptedBy(records') = AcceptedBy(records) /\ i \in LineNumber
        /\ ToSet(errors') = ToSet(errors) \cup {i}
    <3>1. i \in LineNumber /\ lines[i].line = i
      BY ONLY <1>3, <2>1 DEF LineNumber
    <3> QED
      BY ONLY <1>7, <1>8, <1>17, <1>22, <2>1, <3>1
  <2>4. ASSUME NEW n \in C \cup P
        PROVE  Covered(n)
    <3>1. \A k \in n .. i : ~IsBlank(file[k])
      BY <1>10, <2>1
    <3>2. n \in LineNumber /\ n <= i
      BY <1>3, <1>9
    <3> QED
      BY ONLY <1>23, <2>3, <3>1, <3>2
  <2>5. ASSUME NEW n \in i .. stop - 1
        PROVE  Covered(n)
    <3>1. n \in LineNumber /\ i <= n
      BY <1>3, <2>2 DEF LineNumber
    <3>2. \A k \in i .. n : ~IsBlank(file[k])
      <4>1. \A k \in i .. n : k = i \/ (k \in i + 1 .. stop - 1 /\ k \in 1 .. Len(file))
        BY <1>3, <2>2
      <4> QED
        BY ONLY <1>3, <2>1, <2>2, <4>1
    <3> QED
      BY ONLY <1>23, <2>3, <3>1, <3>2
  <2>6. \A n \in Held \cup (i .. stop - 1) : Covered(n)
    BY ONLY <1>6, <2>3, <2>4, <2>5
  <2>7. stop \in Nat
    BY ONLY <1>3, <2>2
  <2> QED
    BY ONLY <1>5, <2>1, <2>3, <2>6, <2>7
<1>30. CASE Statement \/ Query \/ Control
  <2>1. /\ \E node : records' = Append(records, node) /\ TakenBy(node)
        /\ pc = "modifiers" /\ pc' = "preamble" /\ pending' = <<>> /\ UNCHANGED errors
        /\ i' \in i + 1 .. Len(lines) + 1
    BY <1>30, HeaderRecord
  <2>2. PICK j \in i + 1 .. Len(lines) + 1 : i' = j
    BY ONLY <2>1
  <2>3. PICK node : records' = Append(records, node) /\ TakenBy(node)
    BY ONLY <2>1
  <2>4. /\ node \in Node
        /\ \A n \in C \cup P \cup LinesBetween(i, j - 1) : n \in LinesIn(node) \/ IsSeparator(file[n])
    BY ONLY <2>2, <2>3, emitTrivia DEF TakenBy, C, P
  <2>5. \A n \in i .. j - 1 : n \in LinesBetween(i, j - 1)
    <3>1. \A n \in i .. j - 1 : lines[n].line = n
      BY <1>3
    <3> QED
      BY ONLY <3>1 DEF LinesBetween
  <2>6. AcceptedBy(records') = AcceptedBy(records) \cup LinesIn(node)
    <3>1. records' = records \o <<node>> /\ <<node>> \in Seq(Node)
      BY ONLY <1>4, <2>3, <2>4
    <3>2. records \in Seq(Node) /\ node \in Node
      BY ONLY <1>4, <2>4
    <3>3. AcceptedBy(records \o <<node>>) = AcceptedBy(records) \cup LinesIn(node)
      BY ONLY <3>2, AcceptedWith
    <3> QED
      BY ONLY <3>1, <3>3
  <2>7. ConditionLines' = {} /\ ToSet(pending') = {} /\ BlankLines = {} /\ ToSet(errors') = ToSet(errors)
    BY ONLY <1>7, <1>8, <1>17, <2>1
  <2>8. \A n \in Held \cup (i .. j - 1) : Covered(n)
    BY ONLY <1>6, <2>4, <2>5, <2>6, <2>7 DEF Covered
  <2>9. j \in Nat
    BY <1>3
  <2> QED
    BY ONLY <1>5, <2>1, <2>2, <2>6, <2>7, <2>8, <2>9
<1> QED
  BY <1>18, <1>19, <1>20, <1>21, <1>25, <1>26, <1>27, <1>28, <1>29, <1>30
     DEF ParseNext, Preamble, Modifiers, Record

(* At the return nothing waits.                                            *)
LEMMA InvariantAccounts ==
  ASSUME TypeOK, OrderOK, CoverageOK
  PROVE  LinesAccountedFor
<1> SUFFICES ASSUME Returned, emitTrivia
             PROVE  /\ IsInjective(Accounted)
                    /\ \A n \in LineNumber \ ToSet(Accounted) :
                         IsSeparator(file[n]) \/ BlockOf(n) \cap ToSet(errors) # {}
  BY DEF LinesAccountedFor
<1> DEFINE N == Len(records)
           all == [n \in 1 .. Len(records) |-> LinesOf(records[n])]
<1>1. N \in Nat /\ records \in Seq(Node) /\ \A n \in 1 .. N : LinesOf(records[n]) \in Seq(Nat)
  BY LenProperties DEF TypeOK, OrderOK, RecordsBefore
<1>2. all \in Seq(Seq(Nat)) /\ Len(all) = N /\ \A n \in 1 .. N : all[n] = LinesOf(records[n])
  BY ONLY <1>1
<1>3. /\ \A n \in 1 .. N : IsInjective(LinesOf(records[n]))
      /\ \A m, n \in 1 .. N : m < n => Precedes(LinesIn(records[m]), LinesIn(records[n]))
  BY DEF OrderOK, RecordsBefore
<1>4. Accounted = FlattenSeq(all)
  BY DEF Accounted
<1> HIDE DEF all
<1>5. ASSUME NEW m \in 1 .. N, NEW n \in 1 .. N, m < n
      PROVE  ToSet(all[m]) \cap ToSet(all[n]) = {}
  <2>1. Precedes(LinesIn(records[m]), LinesIn(records[n]))
    BY <1>3, <1>5
  <2>2. LinesIn(records[m]) \subseteq Nat
    <3>1. LinesOf(records[m]) \in Seq(Nat)
      BY <1>1
    <3>2. \A k \in 1 .. Len(LinesOf(records[m])) : LinesOf(records[m])[k] \in Nat
      BY ONLY <3>1, ElementOfSeq
    <3>3. DOMAIN LinesOf(records[m]) = 1 .. Len(LinesOf(records[m]))
      BY ONLY <3>1, LenProperties
    <3> QED
      BY ONLY <3>2, <3>3 DEF LinesIn, ToSet
  <2>3. all[m] = LinesOf(records[m]) /\ all[n] = LinesOf(records[n])
    BY <1>2
  <2>4. \A k \in LinesIn(records[m]) : k \notin LinesIn(records[n])
    BY ONLY <2>1, <2>2 DEF Precedes
  <2> QED
    BY ONLY <2>3, <2>4 DEF LinesIn
<1>6. IsInjective(Accounted)
  <2>1. \A n \in 1 .. Len(all) : IsInjective(all[n])
    BY ONLY <1>2, <1>3
  <2>2. \A m, n \in 1 .. Len(all) : m < n => ToSet(all[m]) \cap ToSet(all[n]) = {}
    BY ONLY <1>2, <1>5
  <2>3. IsInjective(FlattenSeq(all))
    BY ONLY <1>2, <2>1, <2>2, FlattenInjective
  <2> QED
    BY ONLY <1>4, <2>3
<1>7. ToSet(Accounted) = AcceptedBy(records)
  <2>1. ToSet(FlattenSeq(all)) = UNION {ToSet(all[n]) : n \in 1 .. Len(all)}
    BY ONLY <1>2, FlattenedSet
  <2>2. \A n \in 1 .. N : ToSet(all[n]) = LinesIn(records[n])
    BY ONLY <1>2 DEF LinesIn
  <2>3. UNION {ToSet(all[n]) : n \in 1 .. Len(all)} = UNION {LinesIn(records[n]) : n \in 1 .. N}
    BY ONLY <1>2, <2>2
  <2> QED
    BY ONLY <1>4, <2>1, <2>3 DEF AcceptedBy
<1>8. Held = {} /\ LineNumber = 1 .. i - 1
  <2>1. pc = "returned" /\ pending = <<>> /\ ~(blanks.count > 0) /\ blanks \in [start : Nat, count : Nat]
    BY DEF Returned, CoverageOK, TypeOK
  <2>2. ConditionLines = {} /\ ToSet(pending) = {}
    BY ONLY <2>1 DEF ConditionLines, ToSet
  <2>3. BlankLines = {}
    BY ONLY <2>1, NoBlankLines
  <2>4. i = Len(file) + 1 /\ Len(file) \in Nat
    BY <2>1, HereClean DEF TypeOK
  <2>5. i - 1 = Len(file)
    BY ONLY <2>4
  <2> QED
    BY ONLY <2>2, <2>3, <2>5 DEF Held, LineNumber
<1>9. \A n \in LineNumber : \/ n \in ToSet(Accounted)
                            \/ IsSeparator(file[n])
                            \/ BlockOf(n) \cap ToSet(errors) # {}
  BY ONLY <1>7, <1>8, CoverageOK, emitTrivia DEF CoverageOK
<1> QED
  BY ONLY <1>6, <1>9
-----------------------------------------------------------------------------
(* Resynchronisation *)

(* The line above one, comments aside: IsCommand's previous.               *)
Previous(n) ==
  CHOOSE m \in 0 .. n - 1 :
    /\ m > 0 => ~IsComment(file[m])
    /\ \A k \in m + 1 .. n - 1 : IsComment(file[k])
Precursor(m, n) ==
  /\ m \in 0 .. n - 1
  /\ m > 0 => ~IsComment(file[m])
  /\ \A k \in m + 1 .. n - 1 : IsComment(file[k])

(* A command with more below: a modifier, or a control record that is      *)
(* well-formed; and what a command may be below.                           *)
LeadsOn(n) == IsModifier(file[n]) \/ (IsControl(file[n]) /\ ~Malformed(file[n]))
Continues(m) == m = 0 \/ IsBlank(file[m]) \/ (IsCommand[m] /\ LeadsOn(m))

(* The commands of the property: modifiers without an engine, headers, and *)
(* modifiers with nothing below.                                           *)
BareModifier(n) == IsCommand[n] /\ IsModifier(file[n]) /\ WordOf(file[n], 2) = None
Header(n) == IsCommand[n] /\ ~IsModifier(file[n])
Dangles(n) ==
  /\ IsCommand[n] /\ IsModifier(file[n]) /\ WordOf(file[n], 2) # None
  /\ \A m \in LineNumber : m > n /\ IsCommand[m] /\ ~BareModifier(m) => m \notin BlockOf(n)

(* The commands that have a record, and those that have a diagnostic.      *)
WellFormed == {n \in LineNumber : Header(n) /\ ~Malformed(file[n])}
Diagnosed ==
  {n \in LineNumber : BareModifier(n) \/ (Header(n) /\ Malformed(file[n])) \/ Dangles(n)}

(* The lines that may be commands.                                         *)
Continuing == {n \in 1 .. Len(file) : Continues(Previous(n))}

(* A modifier with nothing yet below it that it is the modifier of.        *)
WaitsTo(n, x) ==
  /\ n \in LineNumber /\ n < x
  /\ IsCommand[n] /\ IsModifier(file[n]) /\ WordOf(file[n], 2) # None
  /\ \A k \in n .. x - 1 : ~IsBlank(file[k]) /\ (k > n /\ IsCommand[k] => BareModifier(k))

(* The modifier that may have no record.                                   *)
Undecided ==
  IF pc = "modifiers" /\ conditions # <<>> THEN {conditions[Len(conditions)].line} ELSE {}

(* The lines the records are of.                                           *)
RecordLines(nodes) == {nodes[k].line : k \in {k \in 1 .. Len(nodes) : IsRecord(nodes[k])}}

(* Above the position every command is decided, but the last modifier; at  *)
(* the position, unless it is where a body ended, there may be one.        *)
PositionOK == More /\ ~IsBlank(Here) => LineAt(i) \in Continuing
UndecidedOK == \A n \in Undecided : WaitsTo(n, LineAt(i))
RecordsOK == RecordLines(records) = {n \in WellFormed : n < LineAt(i)}
ErrorsOK == ToSet(errors) = {n \in Diagnosed : n < LineAt(i)} \ Undecided
ResyncOK == PositionOK /\ UndecidedOK /\ RecordsOK /\ ErrorsOK

(* There is no other such line.                                            *)
LEMMA OnePrecursor ==
  ASSUME NEW m \in Nat, NEW l \in Nat, NEW n \in Nat, Precursor(m, n), Precursor(l, n)
  PROVE  m = l
<1>1. \A a, b \in Nat : Precursor(a, n) /\ Precursor(b, n) => ~(a < b)
  <2> SUFFICES ASSUME NEW a \in Nat, NEW b \in Nat, Precursor(a, n), Precursor(b, n), a < b
               PROVE  FALSE
    OBVIOUS
  <2>1. b \in a + 1 .. n - 1 /\ b > 0
    BY DEF Precursor
  <2> QED
    BY <2>1 DEF Precursor
<1> QED
  BY <1>1

(* Previous is that line.                                                  *)
LEMMA PreviousIs ==
  ASSUME NEW n \in Nat \ {0}
  PROVE  Previous(n) \in Nat /\ Precursor(Previous(n), n)
<1> DEFINE T == {m \in 0 .. n - 1 : m = 0 \/ ~IsComment(file[m])}
<1>1. T \subseteq 0 .. n - 1 /\ 0 \in T
  OBVIOUS
<1>2. n - 1 \in Nat
  OBVIOUS
<1>3. PICK m \in T : \A k \in T : k <= m
  <2> HIDE DEF T
  <2> QED
    BY <1>1, <1>2, GreatestOf
<1>4. m \in 0 .. n - 1 /\ (m > 0 => ~IsComment(file[m]))
  OBVIOUS
<1>5. \A k \in m + 1 .. n - 1 : k \notin T /\ k \in 0 .. n - 1 /\ k # 0
  BY <1>3, <1>4
<1>6. \A k \in m + 1 .. n - 1 : IsComment(file[k])
  BY <1>5
<1> DEFINE Is(l) == /\ l > 0 => ~IsComment(file[l])
                    /\ \A k \in l + 1 .. n - 1 : IsComment(file[k])
<1>7. Is(m)
  BY <1>4, <1>6
<1>8. Previous(n) = CHOOSE l \in 0 .. n - 1 : Is(l)
  BY DEF Previous
<1> HIDE DEF Is
<1>9. Previous(n) \in 0 .. n - 1 /\ Is(Previous(n))
  BY ONLY <1>4, <1>7, <1>8
<1> QED
  BY ONLY <1>9, n \in Nat \ {0} DEF Is, Precursor

(* What IsCommand is of every line.                                        *)
LEMMA CommandIs ==
  ASSUME Len(file) \in Nat, NEW n \in LineNumber
  PROVE  /\ IsCommand[n] \in BOOLEAN
         /\ IsCommand[n] <=> ~IsBlank(file[n]) /\ ~IsComment(file[n]) /\ Continues(Previous(n))
<1> DEFINE S == LineNumber
           Text(k) == ~IsBlank(file[k]) /\ ~IsComment(file[k])
           Starts(k) == Previous(k) = 0 \/ IsBlank(file[Previous(k)])
           C == {k \in S : Text(k) /\ ~Starts(k) /\ LeadsOn(Previous(k))}
           step == [k \in S |-> IF k \in C THEN Previous(k) ELSE k]
           result == [k \in S |-> Text(k) /\ Starts(k)]
           measure == [k \in S |-> k]
           N == Len(file)
           Recurs(f) == f = [k \in LineNumber |->
                               LET m == Previous(k)
                               IN  /\ ~IsBlank(file[k]) /\ ~IsComment(file[k])
                                   /\ \/ m = 0
                                      \/ IsBlank(file[m])
                                      \/ f[m] /\ LeadsOn(m)]
           command == CHOOSE f : Recurs(f)
<1>1. Terminates(S, C, step, measure, N) /\ result \in [S -> BOOLEAN]
  <2>1. \A k \in S : k \in Nat \ {0} /\ k \in 0 .. N
    BY DEF LineNumber
  <2>2. \A k \in S : Previous(k) \in Nat /\ Previous(k) < k
    <3>1. ASSUME NEW k \in S
          PROVE  Previous(k) \in Nat /\ Previous(k) < k
      <4>1. k \in Nat \ {0}
        BY <2>1
      <4>2. Previous(k) \in Nat /\ Precursor(Previous(k), k)
        BY ONLY <4>1, PreviousIs
      <4> QED
        BY ONLY <4>1, <4>2 DEF Precursor
    <3> QED
      BY <3>1
  <2>3. \A k \in C : k \in S /\ Previous(k) \in S /\ step[k] = Previous(k)
    BY <2>1, <2>2 DEF LineNumber
  <2>4. step \in [S -> S]
    <3>1. \A k \in S : step[k] \in S
      BY <2>3
    <3> QED
      BY <3>1
  <2>5. measure \in [S -> 0 .. N] /\ N \in Nat
    BY <2>1
  <2>6. \A k \in C : measure[step[k]] < measure[k]
    <3> HIDE DEF C, step
    <3> QED
      BY <2>2, <2>3
  <2>7. C \subseteq S /\ result \in [S -> BOOLEAN]
    OBVIOUS
  <2> HIDE DEF S, C, step, measure, result
  <2> QED
    BY <2>4, <2>5, <2>6, <2>7 DEF Terminates
<1>2. \E f : f \in [S -> BOOLEAN] /\ Recurs(f)
  <2>1. PICK f : f \in [S -> BOOLEAN] /\ Loops(f, S, C, step, result)
    <3> HIDE DEF S, C, step, measure, result
    <3> QED
      BY <1>1, LoopDefined
  <2>2. ASSUME NEW k \in S
        PROVE  f[k] = (Text(k) /\ (Starts(k) \/ (f[Previous(k)] /\ LeadsOn(Previous(k)))))
    <3>1. f[k] = IF k \in C THEN f[Previous(k)] ELSE Text(k) /\ Starts(k)
      BY <2>1 DEF Loops
    <3>2. f[k] \in BOOLEAN
      BY <2>1
    <3> HIDE DEF Text, Starts
    <3> QED
      BY <3>1, <3>2
  <2>3. Recurs(f)
    BY <2>1, <2>2
  <2> QED
    BY <2>1, <2>3
<1>3. IsCommand = command
  BY DEF IsCommand, Previous, LeadsOn
<1>4. Recurs(command)
  <2> HIDE DEF Recurs
  <2> QED
    BY <1>2
<1> HIDE DEF command
<1>5. IsCommand[n] = (Text(n) /\ (Starts(n) \/ (IsCommand[Previous(n)] /\ LeadsOn(Previous(n)))))
  BY <1>3, <1>4
<1> QED
  BY <1>5 DEF Continues

(* Between two lines that are read there are comments.                     *)
LEMMA GapIs ==
  ASSUME CallOK, NEW j \in 0 .. Len(lines), NEW a, a = IF j = 0 THEN 0 ELSE LineAt(j)
  PROVE  /\ a \in Nat /\ LineAt(j + 1) \in a + 1 .. Len(file) + 1
         /\ \A k \in a + 1 .. LineAt(j + 1) - 1 : k \in LineNumber /\ IsComment(file[k])
<1> DEFINE b == LineAt(j + 1)
<1>1. /\ Len(lines) \in Nat /\ Len(file) \in Nat /\ LinesOK(file, emitTrivia, lines)
      /\ \A n \in 1 .. Len(lines) : lines[n].line \in 1 .. Len(file)
      /\ \A m, n \in 1 .. Len(lines) : m < n => lines[m].line < lines[n].line
  BY CallLines DEF LineNumber
<1>2. /\ j = 0 => a = 0
      /\ j > 0 => j \in 1 .. Len(lines) /\ a = lines[j].line
      /\ j < Len(lines) => j + 1 \in 1 .. Len(lines) /\ b = lines[j + 1].line
      /\ j = Len(lines) => b = Len(file) + 1
  BY <1>1 DEF LineAt
<1>3. a \in Nat /\ b \in a + 1 .. Len(file) + 1
  <2> HIDE DEF b
  <2>1. a \in 0 .. Len(file)
    BY ONLY <1>1, <1>2, j \in 0 .. Len(lines)
  <2>2. CASE j < Len(lines)
    <3>1. b \in 1 .. Len(file)
      BY ONLY <1>1, <1>2, <2>2
    <3>2. j > 0 => lines[j].line < lines[j + 1].line
      BY ONLY <1>1, <1>2, <2>2
    <3> QED
      BY ONLY <1>1, <1>2, <2>1, <2>2, <3>1, <3>2, j \in 0 .. Len(lines)
  <2>3. CASE j = Len(lines)
    BY ONLY <1>1, <1>2, <2>1, <2>3
  <2> QED
    BY ONLY <1>1, <2>2, <2>3, j \in 0 .. Len(lines)
<1> HIDE DEF b
<1>4. ASSUME NEW k \in a + 1 .. b - 1
      PROVE  k \in LineNumber /\ IsComment(file[k])
  <2>1. k \in 1 .. Len(file) /\ a < k /\ k < b
    BY ONLY <1>1, <1>3, k \in a + 1 .. b - 1
  <2>2. ASSUME NEW n \in 1 .. Len(lines)
        PROVE  lines[n].line # k
    <3>1. CASE n < j
      <4>1. j \in 1 .. Len(lines) /\ a = lines[j].line
        BY ONLY <1>1, <1>2, <3>1, n \in 1 .. Len(lines), j \in 0 .. Len(lines)
      <4>2. lines[n].line < lines[j].line
        BY ONLY <1>1, <3>1, <4>1, n \in 1 .. Len(lines)
      <4> QED
        BY ONLY <1>1, <2>1, <4>1, <4>2, n \in 1 .. Len(lines)
    <3>2. CASE n = j
      BY ONLY <1>1, <1>2, <2>1, <3>2, n \in 1 .. Len(lines)
    <3>3. CASE n = j + 1
      BY ONLY <1>1, <1>2, <2>1, <3>3, n \in 1 .. Len(lines), j \in 0 .. Len(lines)
    <3>4. CASE n > j + 1
      <4>1. j + 1 \in 1 .. Len(lines) /\ b = lines[j + 1].line
        BY ONLY <1>1, <1>2, <3>4, n \in 1 .. Len(lines), j \in 0 .. Len(lines)
      <4>2. lines[j + 1].line < lines[n].line
        BY ONLY <1>1, <3>4, <4>1, n \in 1 .. Len(lines)
      <4> QED
        BY ONLY <1>1, <2>1, <4>1, <4>2, n \in 1 .. Len(lines)
    <3> QED
      BY ONLY <1>1, <3>1, <3>2, <3>3, <3>4, n \in 1 .. Len(lines), j \in 0 .. Len(lines)
  <2>3. IsComment(file[k])
    BY ONLY <1>1, <2>1, <2>2 DEF LinesOK
  <2> QED
    BY ONLY <2>1, <2>3 DEF LineNumber
<1> QED
  BY <1>3, <1>4 DEF b

(* From one position to the next the file has no command but the first.    *)
Passes(x, y) ==
  /\ x \in LineNumber /\ y \in Nat /\ x < y /\ y <= Len(file) + 1
  /\ \A k \in LineNumber : IsCommand[k] => (k < y <=> k < x \/ k = x)

(* The next line that is read, and the one before it that is no comment.   *)
LEMMA NextPosition ==
  ASSUME TypeOK, More
  PROVE  /\ Passes(LineAt(i), LineAt(i + 1))
         /\ Len(file) \in Nat /\ LineAt(i) \in LineNumber /\ Here = file[LineAt(i)]
         /\ \A k \in LineAt(i) + 1 .. LineAt(i + 1) - 1 : k \in LineNumber /\ IsComment(file[k])
         /\ Previous(LineAt(i + 1)) = IF IsComment(Here) THEN Previous(LineAt(i)) ELSE LineAt(i)
<1> DEFINE x == LineAt(i)
           y == LineAt(i + 1)
<1>1. /\ CallOK /\ i \in 1 .. Len(lines) /\ Len(lines) \in Nat /\ Len(file) \in Nat
      /\ lines[i].line \in LineNumber /\ Here = file[lines[i].line]
  <2>1. Len(file) \in Nat
    BY CallLines DEF TypeOK
  <2> QED
    BY <2>1, HereIs DEF TypeOK
<1>2. x \in LineNumber /\ Here = file[x]
  BY ONLY <1>1 DEF LineAt
<1>3. i \in 0 .. Len(lines) /\ x = IF i = 0 THEN 0 ELSE LineAt(i)
  BY ONLY <1>1
<1> HIDE DEF x
<1>4. /\ y \in x + 1 .. Len(file) + 1
      /\ \A k \in x + 1 .. y - 1 : k \in LineNumber /\ IsComment(file[k])
  BY ONLY <1>1, <1>3, GapIs
<1> HIDE DEF y
<1>5. x \in Nat \ {0} /\ y \in Nat \ {0} /\ x < y
  BY ONLY <1>1, <1>2, <1>4 DEF LineNumber
<1>6. Passes(x, y)
  <2>1. ASSUME NEW k \in LineNumber, IsCommand[k], x < k
        PROVE  ~(k < y)
    <3>1. ~IsComment(file[k])
      BY ONLY <1>1, k \in LineNumber, <2>1, CommandIs
    <3>2. k \in Nat
      BY ONLY <1>1, k \in LineNumber DEF LineNumber
    <3> QED
      BY ONLY <1>4, <1>5, <2>1, <3>1, <3>2
  <2>2. \A k \in LineNumber : k \in Nat
    BY ONLY <1>1 DEF LineNumber
  <2>3. \A k \in LineNumber : IsCommand[k] => (k < y <=> k < x \/ k = x)
    BY ONLY <1>5, <2>1, <2>2
  <2> QED
    BY ONLY <1>1, <1>2, <1>4, <1>5, <2>3 DEF Passes
<1>7. Previous(y) = IF IsComment(Here) THEN Previous(x) ELSE x
  <2>1. Previous(y) \in Nat /\ Precursor(Previous(y), y)
    BY ONLY <1>5, PreviousIs
  <2>2. CASE IsComment(Here)
    <3>1. Previous(x) \in Nat /\ Precursor(Previous(x), x)
      BY ONLY <1>5, PreviousIs
    <3>2. Precursor(Previous(x), y)
      BY ONLY <1>2, <1>4, <1>5, <2>2, <3>1 DEF Precursor
    <3>3. Previous(y) = Previous(x)
      BY ONLY <1>5, <2>1, <3>1, <3>2, OnePrecursor
    <3> QED
      BY ONLY <2>2, <3>3
  <2>3. CASE ~IsComment(Here)
    <3>1. Precursor(x, y)
      BY ONLY <1>2, <1>4, <1>5, <2>3 DEF Precursor
    <3>2. Previous(y) = x
      BY ONLY <1>5, <2>1, <3>1, OnePrecursor
    <3> QED
      BY ONLY <2>3, <3>2
  <2> QED
    BY ONLY <2>2, <2>3
<1> QED
  BY ONLY <1>1, <1>2, <1>4, <1>6, <1>7 DEF x, y

(* The body of a record has none, nor has what is skipped.                 *)
LEMMA BodyPasses ==
  ASSUME TypeOK, More, ~IsBlank(Here), ~IsComment(Here), ~LeadsOn(LineAt(i)),
         NEW stop, stop = skipToBlank(i + 1)
  PROVE  Passes(LineAt(i), LineAt(stop))
<1> DEFINE x == LineAt(i)
           y == LineAt(stop)
<1>1. /\ CallOK /\ Len(file) \in Nat /\ i \in 1 .. Len(lines) /\ Len(lines) \in Nat
      /\ stop \in i + 1 .. Len(lines) + 1
      /\ \A m \in i + 1 .. stop - 1 : ~IsBlank(lines[m].text)
      /\ LinesOK(file, emitTrivia, lines)
      /\ \A n \in 1 .. Len(lines) : lines[n].text = file[lines[n].line]
  <2>1. CallOK
    BY DEF TypeOK
  <2>2. /\ Len(file) \in Nat /\ LinesOK(file, emitTrivia, lines)
        /\ \A n \in 1 .. Len(lines) : lines[n].text = file[lines[n].line]
    BY ONLY <2>1, CallLines
  <2>3. /\ i \in 1 .. Len(lines) /\ Len(lines) \in Nat
        /\ stop \in i + 1 .. Len(lines) + 1
        /\ \A m \in i + 1 .. stop - 1 : ~IsBlank(lines[m].text)
    BY ONLY TypeOK, More, stop = skipToBlank(i + 1), BodyIs
  <2> QED
    BY ONLY <2>1, <2>2, <2>3
<1>2. /\ x \in LineNumber /\ file[x] = Here
  BY ONLY TypeOK, More, NextPosition
<1>3. /\ \A n \in 1 .. Len(lines) + 1 : LineAt(n) \in Nat
      /\ \A m, n \in 1 .. Len(lines) + 1 : m < n => LineAt(m) < LineAt(n)
  BY ONLY TypeOK, FrontIs
<1>4. x \in Nat \ {0} /\ y \in Nat /\ x < y /\ y <= Len(file) + 1
  <2>1. stop \in 1 .. Len(lines) + 1 /\ i \in 1 .. Len(lines) + 1 /\ i < stop
    BY ONLY <1>1
  <2>2. x < y /\ y \in Nat
    BY ONLY <1>3, <2>1
  <2>3. y <= Len(file) + 1
    <3>1. Len(lines) + 1 \in 1 .. Len(lines) + 1 /\ LineAt(Len(lines) + 1) = Len(file) + 1
      BY ONLY <1>1 DEF LineAt
    <3>2. stop < Len(lines) + 1 \/ stop = Len(lines) + 1
      BY ONLY <1>1
    <3> QED
      BY ONLY <1>1, <1>3, <2>1, <2>2, <3>1, <3>2
  <2> QED
    BY ONLY <1>1, <1>2, <2>2, <2>3 DEF LineNumber
<1>5. \A n \in 1 .. Len(lines) : LineAt(n) = lines[n].line
  BY ONLY <1>1 DEF LineAt
<1>6. ASSUME NEW k \in LineNumber, x < k, k < y, ~IsComment(file[k])
      PROVE  ~IsBlank(file[k])
  <2>1. PICK n \in 1 .. Len(lines) : lines[n].line = k
    BY ONLY <1>1, <1>6 DEF LinesOK, LineNumber
  <2>2. LineAt(n) = k /\ n \in 1 .. Len(lines) + 1 /\ i \in 1 .. Len(lines) + 1
        /\ stop \in 1 .. Len(lines) + 1
    BY ONLY <1>1, <1>5, <2>1
  <2>3. ~(n < i) /\ n # i /\ ~(stop < n) /\ n # stop
    BY ONLY <1>3, <1>4, <1>6, <2>2
  <2>4. n \in i + 1 .. stop - 1
    BY ONLY <1>1, <2>2, <2>3
  <2> QED
    BY ONLY <1>1, <2>1, <2>4
<1> HIDE DEF x, y
<1> DEFINE T == {d \in 0 .. Len(file) :
                   \A k \in LineNumber : x < k /\ k <= x + d /\ k < y => ~IsCommand[k]}
<1>7. 0 \in T
  BY ONLY <1>1, <1>4 DEF LineNumber
<1>8. ASSUME NEW d \in 1 .. Len(file), d - 1 \in T
      PROVE  d \in T
  <2>1. \A k \in LineNumber : x < k /\ k <= x + (d - 1) /\ k < y => ~IsCommand[k]
    BY ONLY <1>8
  <2> SUFFICES ASSUME NEW k \in LineNumber, x < k, k <= x + d, k < y, IsCommand[k]
               PROVE  FALSE
    OBVIOUS
  <2> DEFINE m == Previous(k)
  <2>2. /\ IsCommand[k] \in BOOLEAN
        /\ IsCommand[k] <=> ~IsBlank(file[k]) /\ ~IsComment(file[k]) /\ Continues(m)
    BY ONLY <1>1, k \in LineNumber, CommandIs
  <2>3. k \in Nat \ {0}
    BY ONLY <1>1, k \in LineNumber DEF LineNumber
  <2>4. m \in Nat /\ Precursor(m, k)
    BY ONLY <2>3, PreviousIs
  <2> HIDE DEF m
  <2>5. m >= x /\ m < k /\ m # 0
    <3>1. m < x => x \in m + 1 .. k - 1
      BY ONLY <1>4, <2>3, <2>4, x < k
    <3>2. ~IsComment(file[x])
      BY ONLY <1>2, ~IsComment(Here)
    <3> QED
      BY ONLY <1>4, <2>3, <2>4, <3>1, <3>2 DEF Precursor
  <2>6. m \in LineNumber
    BY ONLY <1>1, <2>3, <2>4, <2>5, k \in LineNumber DEF LineNumber
  <2>7. ~IsBlank(file[m])
    <3>1. CASE m = x
      BY ONLY <1>2, <3>1, ~IsBlank(Here)
    <3>2. CASE x < m
      <4>1. m < y /\ ~IsComment(file[m])
        BY ONLY <1>4, <2>3, <2>4, <2>5, k < y DEF Precursor
      <4> QED
        BY ONLY <1>6, <2>6, <3>2, <4>1
    <3> QED
      BY ONLY <1>4, <2>4, <2>5, <3>1, <3>2
  <2>8. IsCommand[m] /\ LeadsOn(m)
    BY ONLY <2>2, <2>5, <2>7, IsCommand[k] DEF Continues
  <2>9. x < m /\ m <= x + (d - 1) /\ m < y
    <3>1. m # x
      BY ONLY <2>8, ~LeadsOn(LineAt(i)) DEF x
    <3> QED
      BY ONLY <1>1, <1>4, <2>3, <2>4, <2>5, <3>1, k <= x + d, k < y, d \in 1 .. Len(file)
  <2> QED
    BY ONLY <2>1, <2>6, <2>8, <2>9
<1>9. \A d \in 0 .. Len(file) : d \in T
  <2> HIDE DEF T
  <2> QED
    BY ONLY <1>1, <1>7, <1>8, InductionTo
<1>10. Len(file) \in T
  BY ONLY <1>1, <1>9
<1>11. \A k \in LineNumber : k \in Nat /\ k <= x + Len(file)
  BY ONLY <1>1, <1>4 DEF LineNumber
<1>12. \A k \in LineNumber : IsCommand[k] => (k < y <=> k < x \/ k = x)
  BY ONLY <1>4, <1>10, <1>11
<1>13. Passes(x, y)
  BY ONLY <1>2, <1>4, <1>12 DEF Passes
<1> QED
  BY ONLY <1>13 DEF x, y
-----------------------------------------------------------------------------
(* A comment and a run of blank lines are no records.                      *)
LEMMA RecordLine ==
  ASSUME NEW nodes, NEW line
  PROVE  line \in RecordLines(nodes)
           <=> \E k \in 1 .. Len(nodes) : IsRecord(nodes[k]) /\ nodes[k].line = line
  BY DEF RecordLines

(* The records of nodes and of more nodes.                                 *)
LEMMA RecordLinesOfBoth ==
  ASSUME NEW S, NEW nodes \in Seq(S), NEW more \in Seq(S)
  PROVE  RecordLines(nodes \o more) = RecordLines(nodes) \cup RecordLines(more)
<1> DEFINE all == nodes \o more
           M == Len(nodes)
           N == Len(more)
<1>1. /\ M \in Nat /\ N \in Nat /\ Len(all) = M + N
      /\ \A n \in 1 .. M : all[n] = nodes[n]
      /\ \A n \in 1 .. N : all[M + n] = more[n]
  BY LenProperties, ConcatProperties
<1>2. \A k \in 1 .. Len(all) : (\E n \in 1 .. M : all[k] = nodes[n]) \/ (\E n \in 1 .. N : all[k] = more[n])
  BY ONLY nodes \in Seq(S), more \in Seq(S), InConcat
<1> HIDE DEF all
<1>3. \A n \in 1 .. M : n \in 1 .. Len(all)
  BY ONLY <1>1
<1>4. \A n \in 1 .. N : M + n \in 1 .. Len(all)
  BY ONLY <1>1
<1> HIDE DEF M, N
<1>5. ASSUME NEW line
      PROVE  line \in RecordLines(all) <=> line \in RecordLines(nodes) \/ line \in RecordLines(more)
  <2>1. line \in RecordLines(all)
          <=> \E k \in 1 .. Len(all) : IsRecord(all[k]) /\ all[k].line = line
    BY ONLY RecordLine
  <2>2. line \in RecordLines(nodes)
          <=> \E k \in 1 .. M : IsRecord(nodes[k]) /\ nodes[k].line = line
    BY ONLY RecordLine DEF M
  <2>3. line \in RecordLines(more)
          <=> \E k \in 1 .. N : IsRecord(more[k]) /\ more[k].line = line
    BY ONLY RecordLine DEF N
  <2>4. line \in RecordLines(all) => line \in RecordLines(nodes) \/ line \in RecordLines(more)
    BY ONLY <1>2, <2>1, <2>2, <2>3
  <2>5. line \in RecordLines(nodes) => line \in RecordLines(all)
    BY ONLY <1>1, <1>3, <2>1, <2>2
  <2>6. line \in RecordLines(more) => line \in RecordLines(all)
    BY ONLY <1>1, <1>4, <2>1, <2>3
  <2> QED
    BY ONLY <2>4, <2>5, <2>6
<1>6. RecordLines(all) = RecordLines(nodes) \cup RecordLines(more)
  BY ONLY <1>5
<1> QED
  BY ONLY <1>6 DEF all

(* The records of nodes and of one that is appended.                       *)
LEMMA RecordLinesWith ==
  ASSUME NEW nodes \in Seq(Node), NEW node \in Node
  PROVE  RecordLines(Append(nodes, node))
           = RecordLines(nodes) \cup (IF IsRecord(node) THEN {node.line} ELSE {})
<1>1. <<node>> \in Seq(Node) /\ Append(nodes, node) = nodes \o <<node>>
      /\ Len(<<node>>) = 1 /\ <<node>>[1] = node /\ 1 .. 1 = {1}
  OBVIOUS
<1>2. ASSUME NEW more \in Seq(Node)
      PROVE  RecordLines(nodes \o more) = RecordLines(nodes) \cup RecordLines(more)
  BY ONLY nodes \in Seq(Node), more \in Seq(Node), RecordLinesOfBoth
<1>3. RecordLines(<<node>>) = IF IsRecord(node) THEN {node.line} ELSE {}
  <2>1. \A line : line \in RecordLines(<<node>>) <=> IsRecord(node) /\ node.line = line
    BY ONLY <1>1, RecordLine
  <2> QED
    BY ONLY <2>1
<1> QED
  BY ONLY <1>1, <1>2, <1>3

(* What is flushed are no records.                                         *)
LEMMA FlushedRecordLines ==
  ASSUME TypeOK
  PROVE  /\ RecordLines(WithBlankRun) = RecordLines(records)
         /\ \A nodes \in Seq(Node) : RecordLines(nodes \o WithPending) = RecordLines(nodes)
<1>1. records \in Seq(Node)
  BY DEF TypeOK
<1>2. RecordLines(WithBlankRun) = RecordLines(records)
  <2>1. CASE blanks.count > 0
    <3>1. BlankRun(blanks) \in Node
      BY <2>1 DEF TypeOK, BlankRun, Node, BlankNode
    <3>2. ~IsRecord(BlankRun(blanks))
      BY DEF IsRecord, BlankRun
    <3>3. RecordLines(Append(records, BlankRun(blanks))) = RecordLines(records) \cup {}
      BY ONLY <1>1, <3>1, <3>2, RecordLinesWith
    <3> QED
      BY ONLY <2>1, <3>3 DEF WithBlankRun
  <2>2. CASE ~(blanks.count > 0)
    BY ONLY <2>2 DEF WithBlankRun
  <2> QED
    BY ONLY <2>1, <2>2
<1>3. /\ WithPending \in Seq(Node) /\ Len(WithPending) = Len(pending)
      /\ \A k \in 1 .. Len(pending) : WithPending[k] = Comment(pending[k])
  BY CommentNodes DEF TypeOK
<1>4. RecordLines(WithPending) = {}
  <2>1. \A n : ~IsRecord(Comment(n))
    BY DEF IsRecord, Comment
  <2>2. \A line : line \notin RecordLines(WithPending)
    BY ONLY <1>3, <2>1, RecordLine
  <2> QED
    BY ONLY <2>2
<1>5. ASSUME NEW nodes \in Seq(Node)
      PROVE  RecordLines(nodes \o WithPending) = RecordLines(nodes)
  <2>1. RecordLines(nodes \o WithPending) = RecordLines(nodes) \cup RecordLines(WithPending)
    BY ONLY <1>3, nodes \in Seq(Node), RecordLinesOfBoth
  <2> QED
    BY ONLY <1>4, <2>1
<1> QED
  BY ONLY <1>2, <1>5
-----------------------------------------------------------------------------
(* Where the commands are depends on the file alone.                       *)
LEMMA SameCommands ==
  ASSUME file' = file
  PROVE  /\ LineNumber' = LineNumber /\ IsCommand' = IsCommand
         /\ WellFormed' = WellFormed /\ Diagnosed' = Diagnosed /\ Continuing' = Continuing
         /\ \A n, x : WaitsTo(n, x)' <=> WaitsTo(n, x)
<1> USE DEF IsBlank, IsComment, IsModifier, IsControl, Malformed, WordOf
<1>1. LineNumber' = LineNumber
  BY DEF LineNumber
<1>2. IsCommand' = IsCommand
  BY <1>1 DEF IsCommand, LineNumber
<1>3. \A n : Previous(n)' = Previous(n)
  BY DEF Previous
<1>4. \A n : BareModifier(n)' <=> BareModifier(n)
  BY <1>2 DEF BareModifier
<1>5. \A n : Header(n)' <=> Header(n)
  BY <1>2 DEF Header
<1>6. \A n : BlockOf(n)' = BlockOf(n)
  BY <1>1 DEF BlockOf, LineNumber
<1>7. \A n : Dangles(n)' <=> Dangles(n)
  BY <1>1, <1>2, <1>4, <1>6 DEF Dangles
<1>8. WellFormed' = WellFormed
  BY <1>1, <1>5 DEF WellFormed
<1>9. Diagnosed' = Diagnosed
  BY <1>1, <1>4, <1>5, <1>7 DEF Diagnosed
<1>10. Continuing' = Continuing
  BY <1>2, <1>3 DEF Continuing, Continues, LeadsOn
<1>11. \A n, x : WaitsTo(n, x)' <=> WaitsTo(n, x)
  BY <1>1, <1>2, <1>4 DEF WaitsTo
<1> QED
  BY <1>1, <1>2, <1>8, <1>9, <1>10, <1>11

(* What is decided up to a position, and up to the next one.               *)
LEMMA PassesSets ==
  ASSUME NEW x, NEW y, Passes(x, y), NEW S, \A k \in S : k \in LineNumber /\ IsCommand[k]
  PROVE  {k \in S : k < y} = {k \in S : k < x} \cup ({x} \cap S)
  BY DEF Passes

(* What has a record or a diagnostic is a command.                         *)
LEMMA OfCommands ==
  /\ \A k \in WellFormed : k \in LineNumber /\ IsCommand[k]
  /\ \A k \in Diagnosed : k \in LineNumber /\ IsCommand[k]
  BY DEF WellFormed, Diagnosed, BareModifier, Header, Dangles

(* A modifier is neither blank nor a comment.                              *)
LEMMA ModifierLine ==
  ASSUME NEW raw \in RawLine, IsModifier(raw)
  PROVE  ~IsBlank(raw) /\ ~IsComment(raw)
<1>1. raw.words \in Seq(STRING)
  BY DEF RawLine
<1>2. raw.words = <<>> => WordOf(raw, 1) = None
  BY DEF WordOf
<1>3. raw.words # <<>> => WordOf(raw, 1) = raw.words[1]
  BY <1>1 DEF WordOf
<1>4. WordOf(raw, 1) # None
  BY FilesAssumption DEF IsModifier
<1>5. raw.words # <<>>
  BY <1>2, <1>4
<1>6. raw.words[1] # "#"
  BY <1>3, <1>5 DEF IsModifier
<1> QED
  BY <1>5, <1>6 DEF IsBlank, IsComment

(* A line at the position, neither blank nor a comment, is a command.      *)
LEMMA AtCommand ==
  ASSUME TypeOK, PositionOK, More, ~IsBlank(Here), ~IsComment(Here)
  PROVE  IsCommand[LineAt(i)]
<1>1. LineAt(i) \in LineNumber /\ Here = file[LineAt(i)] /\ Len(file) \in Nat
  BY ONLY TypeOK, More, NextPosition
<1>2. Continues(Previous(LineAt(i)))
  BY DEF PositionOK, Continuing
<1> QED
  BY ONLY <1>1, <1>2, ~IsBlank(Here), ~IsComment(Here), CommandIs

(* Nor is a command.                                                       *)
LEMMA CommandText ==
  ASSUME Len(file) \in Nat, NEW n \in LineNumber, IsCommand[n]
  PROVE  ~IsBlank(file[n]) /\ ~IsComment(file[n])
  BY CommandIs

(* A modifier waits on past a line that decides nothing.                   *)
LEMMA WaitsOn ==
  ASSUME NEW n, NEW x, NEW y, WaitsTo(n, x), Passes(x, y), Len(file) \in Nat,
         \A k \in x + 1 .. y - 1 : k \in LineNumber /\ IsComment(file[k]),
         ~IsBlank(file[x]), IsCommand[x] => BareModifier(x)
  PROVE  WaitsTo(n, y)
<1>1. x \in Nat /\ n \in Nat /\ y \in Nat /\ n < x /\ x < y /\ x \in LineNumber
  BY DEF WaitsTo, Passes, LineNumber
<1>2. ASSUME NEW k \in n .. y - 1
      PROVE  ~IsBlank(file[k]) /\ (k > n /\ IsCommand[k] => BareModifier(k))
  <2>1. CASE k < x
    <3>1. k \in n .. x - 1
      BY ONLY <1>1, <2>1, k \in n .. y - 1
    <3> QED
      BY ONLY <3>1, WaitsTo(n, x) DEF WaitsTo
  <2>2. CASE k = x
    BY ONLY <2>2, ~IsBlank(file[x]), IsCommand[x] => BareModifier(x)
  <2>3. CASE k > x
    <3>1. k \in x + 1 .. y - 1
      BY ONLY <1>1, <2>3, k \in n .. y - 1
    <3>2. k \in LineNumber /\ IsComment(file[k])
      BY ONLY <3>1, \A k_1 \in x + 1 .. y - 1 : k_1 \in LineNumber /\ IsComment(file[k_1])
    <3>3. ~IsBlank(file[k])
      BY ONLY <3>2 DEF IsComment, IsBlank
    <3>4. ~IsCommand[k]
      BY ONLY <3>2, Len(file) \in Nat, CommandText
    <3> QED
      BY ONLY <3>3, <3>4
  <2> QED
    BY ONLY <1>1, <2>1, <2>2, <2>3, k \in n .. y - 1
<1>3. n < y
  BY ONLY <1>1
<1> QED
  BY ONLY <1>2, <1>3, WaitsTo(n, x) DEF WaitsTo

(* It has what it is the modifier of,                                      *)
LEMMA NotDangling ==
  ASSUME NEW n, NEW x \in LineNumber, WaitsTo(n, x), Len(file) \in Nat,
         IsCommand[x], ~BareModifier(x)
  PROVE  n \notin Diagnosed
<1>1. /\ n \in LineNumber /\ n < x /\ IsModifier(file[n]) /\ WordOf(file[n], 2) # None
      /\ \A k \in n .. x - 1 : ~IsBlank(file[k])
  BY DEF WaitsTo
<1>2. n \in Nat /\ x \in Nat
  BY <1>1 DEF LineNumber
<1>3. ~IsBlank(file[x])
  BY CommandText
<1>4. n <= x /\ x > n /\ \A k \in n .. x : ~IsBlank(file[k])
  BY ONLY <1>1, <1>2, <1>3
<1>5. x \in BlockOf(n)
  BY ONLY <1>1, <1>4, x \in LineNumber, Len(file) \in Nat, SameBlock
<1>6. ~Dangles(n)
  BY ONLY <1>4, <1>5, x \in LineNumber, IsCommand[x], ~BareModifier(x) DEF Dangles
<1> QED
  BY ONLY <1>1, <1>6 DEF Diagnosed, BareModifier, Header

(* or there is nothing.                                                    *)
LEMMA IsDangling ==
  ASSUME NEW n, NEW x \in Nat, WaitsTo(n, x), Len(file) \in Nat, x <= Len(file) + 1,
         x \in LineNumber => IsBlank(file[x])
  PROVE  n \in Diagnosed
<1>1. /\ n \in LineNumber /\ n < x /\ IsCommand[n] /\ IsModifier(file[n])
      /\ WordOf(file[n], 2) # None
      /\ \A k \in n .. x - 1 : k > n /\ IsCommand[k] => BareModifier(k)
  BY DEF WaitsTo
<1>2. n \in Nat
  BY <1>1 DEF LineNumber
<1>3. ASSUME NEW m \in LineNumber, m > n, IsCommand[m], ~BareModifier(m)
      PROVE  m \notin BlockOf(n)
  <2>1. m \in Nat /\ m <= Len(file)
    BY DEF LineNumber
  <2>2. x <= m
    <3>1. m < x => m \in n .. x - 1
      BY ONLY <1>2, <1>3, <2>1, x \in Nat
    <3> QED
      BY ONLY <1>1, <1>3, <2>1, <3>1, x \in Nat
  <2>3. x \in LineNumber
    BY ONLY <1>1, <1>2, <2>1, <2>2, x \in Nat, Len(file) \in Nat DEF LineNumber
  <2>4. n <= x
    BY ONLY <1>1, <1>2, x \in Nat
  <2> QED
    BY ONLY <2>2, <2>3, <2>4, x \in LineNumber => IsBlank(file[x]) DEF BlockOf
<1>4. Dangles(n)
  BY ONLY <1>1, <1>3 DEF Dangles
<1> QED
  BY ONLY <1>1, <1>4 DEF Diagnosed

(* Every step decides what it passes.                                      *)
LEMMA ResyncStep ==
  ASSUME TypeOK, OrderOK, ResyncOK, ParseNext
  PROVE  ResyncOK'
<1> DEFINE x == LineAt(i)
           y == LineAt(i')
           W == WellFormed
           D == Diagnosed
           U == Undecided
           upTo(S, z) == {k \in S : k < z}
<1>1. /\ TypeOK' /\ file' = file /\ lines' = lines
  BY TypeStep, StepKeepsCall, SameTypes
<1>2. LineAt(i)' = y
  BY <1>1 DEF LineAt
<1>3. /\ WellFormed' = W /\ Diagnosed' = D /\ Continuing' = Continuing
      /\ \A n, z : WaitsTo(n, z)' <=> WaitsTo(n, z)
  BY ONLY <1>1, SameCommands
<1>4. /\ PositionOK /\ (\A n \in U : WaitsTo(n, x))
      /\ RecordLines(records) = upTo(W, x) /\ ToSet(errors) = upTo(D, x) \ U
  BY DEF ResyncOK, UndecidedOK, RecordsOK, ErrorsOK
<1>5. /\ Len(file) \in Nat /\ Len(lines) \in Nat
      /\ i \in 1 .. Len(lines) + 1 /\ x \in Nat /\ x <= Len(file) + 1
  <2>1. Len(lines) + 1 \in 1 .. Len(lines) + 1 /\ LineAt(Len(lines) + 1) = Len(file) + 1
    BY FrontIs DEF LineAt
  <2>2. /\ Len(lines) \in Nat /\ i \in 1 .. Len(lines) + 1
        /\ \A n \in 1 .. Len(lines) + 1 : LineAt(n) \in Nat
        /\ \A m, n \in 1 .. Len(lines) + 1 : m < n => LineAt(m) < LineAt(n)
    BY FrontIs
  <2>3. Len(file) \in Nat
    BY CallLines DEF TypeOK
  <2>4. i = Len(lines) + 1 \/ i < Len(lines) + 1
    BY ONLY <2>2
  <2>5. x <= Len(file) + 1
    BY ONLY <2>1, <2>2, <2>3, <2>4
  <2> QED
    BY ONLY <2>2, <2>3, <2>5
<1>6. ASSUME More' /\ ~IsBlank(Here)' => y \in Continuing,
             \A n \in Undecided' : WaitsTo(n, y),
             RecordLines(records') = upTo(W, y), ToSet(errors') = upTo(D, y) \ Undecided'
      PROVE  ResyncOK'
  <2>1. PositionOK'
    BY <1>2, <1>3, <1>6 DEF PositionOK
  <2>2. UndecidedOK'
    BY <1>2, <1>3, <1>6 DEF UndecidedOK
  <2>3. RecordsOK'
    <3>1. RecordLines(records)' = RecordLines(records')
      BY DEF RecordLines, IsRecord
    <3> QED
      BY <1>2, <1>3, <1>6, <3>1 DEF RecordsOK
  <2>4. ErrorsOK'
    <3>1. ToSet(errors)' = ToSet(errors')
      BY DEF ToSet
    <3> QED
      BY <1>2, <1>3, <1>6, <3>1 DEF ErrorsOK
  <2> QED
    BY ONLY <2>1, <2>2, <2>3, <2>4 DEF ResyncOK
<1>7. \A k \in W : k \in LineNumber /\ IsCommand[k]
  BY OfCommands
<1>8. \A k \in D : k \in LineNumber /\ IsCommand[k]
  BY OfCommands
<1>9. \A n \in U : n \in Nat /\ n < x
  BY ONLY <1>4 DEF WaitsTo, LineNumber
<1>10. ASSUME Passes(x, y)
       PROVE  upTo(W, y) = upTo(W, x) \cup ({x} \cap W) /\ upTo(D, y) = upTo(D, x) \cup ({x} \cap D)
  <2>1. upTo(W, y) = upTo(W, x) \cup ({x} \cap W)
    BY ONLY <1>7, <1>10, PassesSets
  <2>2. upTo(D, y) = upTo(D, x) \cup ({x} \cap D)
    BY ONLY <1>8, <1>10, PassesSets
  <2> QED
    BY ONLY <2>1, <2>2
<1>11. More => /\ Passes(x, LineAt(i + 1)) /\ x \in LineNumber /\ Here = file[x]
               /\ \A k \in x + 1 .. LineAt(i + 1) - 1 : k \in LineNumber /\ IsComment(file[k])
               /\ Previous(LineAt(i + 1)) = IF IsComment(Here) THEN Previous(x) ELSE x
  BY ONLY TypeOK, NextPosition
<1>12. pc = "preamble" => U = {}
  BY DEF Undecided
<1>13. pc' # "modifiers" => Undecided' = {}
  BY DEF Undecided
<1>14. errors \in Numbers /\ records \in Seq(Node)
  BY DEF TypeOK
<1>15. /\ RecordLines(WithBlankRun) = RecordLines(records)
       /\ \A nodes \in Seq(Node) : RecordLines(nodes \o WithPending) = RecordLines(nodes)
       /\ WithBlankRun \in Seq(Node)
  <2>1. WithBlankRun \in Seq(Node)
    BY ONLY TypeOK, BlankRuns
  <2> QED
    BY ONLY TypeOK, <2>1, FlushedRecordLines
<1>16. ASSUME More, LineAt(i + 1) \in LineNumber, Continues(Previous(LineAt(i + 1)))
       PROVE  LineAt(i + 1) \in Continuing
  BY ONLY <1>16 DEF Continuing, LineNumber
<1>17. More' => y \in LineNumber
  <2>1. i' \in 1 .. Len(lines) + 1
    BY <1>1 DEF TypeOK
  <2>2. PICK j \in 1 .. Len(lines) + 1 : j = i'
    BY ONLY <2>1
  <2>3. More' => j \in 1 .. Len(lines)
    BY <1>1, <1>5, <2>2 DEF More
  <2>4. \A n \in 1 .. Len(lines) : lines[n].line \in LineNumber
    BY CallLines DEF TypeOK
  <2>5. j \in 1 .. Len(lines) => LineAt(j) = lines[j].line
    BY ONLY <1>5 DEF LineAt
  <2> QED
    BY ONLY <2>2, <2>3, <2>4, <2>5
<1>18. More => lines[i].line = x /\ lines[i].line \in LineNumber
  <2>1. More => lines[i].line \in LineNumber
    BY HereIs
  <2> QED
    BY ONLY <2>1 DEF LineAt, More
<1>19. /\ RecordLines(records) = upTo(W, x) /\ ToSet(errors) = upTo(D, x) \ U
       /\ \A n \in U : WaitsTo(n, x)
  BY ONLY <1>4
<1> HIDE DEF x, y, W, D, U, upTo
<1>20. CASE BlankLine
  <2>1. /\ More /\ IsBlank(Here) /\ i' = i + 1 /\ pc = "preamble" /\ pc' = pc /\ errors' = errors
        /\ records' = IF emitTrivia THEN records \o WithPending ELSE records
    BY <1>20 DEF BlankLine, InPreamble, flushPendingAsTopLevel
  <2>2. y = LineAt(i + 1) /\ U = {} /\ Undecided' = {}
    BY ONLY <1>12, <1>13, <2>1 DEF y
  <2>3. x \notin W /\ x \notin D
    <3>1. IsBlank(file[x]) /\ x \in LineNumber
      BY ONLY <1>11, <2>1
    <3>2. ~IsCommand[x]
      BY ONLY <1>5, <3>1, CommandText
    <3> QED
      BY ONLY <1>7, <1>8, <3>2
  <2>4. /\ Passes(x, y) /\ RecordLines(records') = RecordLines(records)
    BY ONLY <1>11, <1>14, <1>15, <2>1, <2>2
  <2>5. RecordLines(records') = upTo(W, y) /\ ToSet(errors') = upTo(D, y) \ Undecided'
    BY ONLY <1>10, <1>19, <2>1, <2>2, <2>3, <2>4
  <2>6. More' => y \in Continuing
    <3>1. ~IsComment(Here) /\ IsBlank(file[x])
      BY ONLY <1>11, <2>1 DEF IsBlank, IsComment
    <3>2. Continues(Previous(y))
      BY ONLY <1>11, <2>1, <2>2, <3>1 DEF Continues
    <3> QED
      BY ONLY <1>16, <1>17, <2>1, <2>2, <3>2
  <2> QED
    BY ONLY <1>6, <2>2, <2>5, <2>6
<1>21. CASE CommentLine \/ ModifierComment
  <2>1. /\ More /\ IsComment(Here) /\ i' = i + 1 /\ pc' = pc /\ errors' = errors
        /\ conditions' = conditions
        /\ records' = WithBlankRun \/ records' = records
    BY <1>21 DEF CommentLine, ModifierComment, flushBlankRun
  <2>2. y = LineAt(i + 1) /\ Undecided' = U
    BY ONLY <2>1 DEF y, U, Undecided
  <2>3. ~IsCommand[x] /\ ~IsBlank(Here) /\ x \in LineNumber /\ Here = file[x]
    <3>1. IsComment(file[x]) /\ x \in LineNumber /\ Here = file[x]
      BY ONLY <1>11, <2>1
    <3>2. ~IsCommand[x]
      BY ONLY <1>5, <3>1, CommandText
    <3> QED
      BY ONLY <2>1, <3>1, <3>2 DEF IsComment, IsBlank
  <2>4. x \notin W /\ x \notin D
    BY ONLY <1>7, <1>8, <2>3
  <2>5. Passes(x, y) /\ RecordLines(records') = RecordLines(records)
    BY ONLY <1>11, <1>15, <2>1, <2>2
  <2>6. RecordLines(records') = upTo(W, y) /\ ToSet(errors') = upTo(D, y) \ Undecided'
    BY ONLY <1>10, <1>19, <2>1, <2>2, <2>4, <2>5
  <2>7. More' => y \in Continuing
    <3>1. Continues(Previous(x))
      BY ONLY <1>4, <2>1, <2>3 DEF PositionOK, Continuing, x
    <3>2. Previous(y) = Previous(x)
      BY ONLY <1>11, <2>1, <2>2
    <3> QED
      BY ONLY <1>16, <1>17, <2>1, <2>2, <3>1, <3>2
  <2>8. ASSUME NEW n \in Undecided'
        PROVE  WaitsTo(n, y)
    <3>1. WaitsTo(n, x)
      BY ONLY <1>19, <2>2, n \in Undecided'
    <3>2. \A k \in x + 1 .. y - 1 : k \in LineNumber /\ IsComment(file[k])
      BY ONLY <1>11, <2>1, <2>2
    <3> QED
      BY ONLY <1>5, <2>3, <2>5, <3>1, <3>2, WaitsOn
  <2> QED
    BY ONLY <1>6, <2>6, <2>7, <2>8
<1>22. CASE EndPreamble
  <2>1. /\ More /\ ~IsBlank(Here) /\ i' = i /\ pc = "preamble" /\ errors' = errors
        /\ records' = WithBlankRun /\ conditions' = <<>>
    BY <1>22 DEF EndPreamble, InPreamble, flushBlankRun
  <2>2. y = x /\ U = {} /\ Undecided' = {}
    BY ONLY <1>12, <2>1 DEF x, y, Undecided
  <2>3. x \in Continuing
    BY ONLY <1>4, <2>1 DEF PositionOK, x
  <2>4. RecordLines(records') = upTo(W, y) /\ ToSet(errors') = upTo(D, y) \ Undecided'
    BY ONLY <1>15, <1>19, <2>1, <2>2
  <2> QED
    BY ONLY <1>6, <2>2, <2>3, <2>4
<1>23. CASE ReturnResult
  <2>1. /\ ~More /\ i' = i /\ pc = "preamble" /\ pc' = "returned" /\ errors' = errors
        /\ records' = WithBlankRun \o WithPending
    BY <1>23 DEF ReturnResult, InPreamble
  <2>2. y = x /\ U = {} /\ Undecided' = {} /\ ~More'
    BY ONLY <1>1, <1>12, <1>13, <2>1 DEF x, y, More
  <2>3. RecordLines(records') = upTo(W, y) /\ ToSet(errors') = upTo(D, y) \ Undecided'
    BY ONLY <1>15, <1>19, <2>1, <2>2
  <2> QED
    BY ONLY <1>6, <2>2, <2>3
<1>24. CASE NoEngine
  <2>1. /\ More /\ IsModifier(Here) /\ Word(2) = None /\ i' = i + 1 /\ pc' = pc
        /\ errors' = Append(errors, lines[i].line)
        /\ conditions' = conditions /\ records' = records
    BY <1>24 DEF NoEngine, err
  <2>2. y = LineAt(i + 1) /\ Undecided' = U
    BY ONLY <2>1 DEF y, U, Undecided
  <2>3. /\ x \in LineNumber /\ Here = file[x] /\ ~IsBlank(Here) /\ ~IsComment(Here)
        /\ IsCommand[x]
    <3>1. Here \in RawLine
      BY ONLY TypeOK, <2>1, HereIs
    <3>2. ~IsBlank(Here) /\ ~IsComment(Here)
      BY ONLY <2>1, <3>1, ModifierLine
    <3>3. IsCommand[x]
      BY ONLY TypeOK, <1>4, <2>1, <3>2, AtCommand DEF x
    <3> QED
      BY ONLY <1>11, <2>1, <3>2, <3>3
  <2>4. BareModifier(x)
    BY ONLY <2>1, <2>3 DEF BareModifier, Word
  <2>5. x \notin W /\ x \in D
    BY ONLY <2>1, <2>3, <2>4 DEF W, D, WellFormed, Diagnosed, Header
  <2>6. Passes(x, y)
    BY ONLY <1>11, <2>1, <2>2
  <2>7. ToSet(errors') = ToSet(errors) \cup {x}
    BY ONLY <1>14, <1>18, <2>1, AppendSet DEF Numbers
  <2>8. RecordLines(records') = upTo(W, y) /\ ToSet(errors') = upTo(D, y) \ Undecided'
    <3>1. x \notin U
      BY ONLY <1>5, <1>9
    <3> QED
      BY ONLY <1>10, <1>19, <2>1, <2>2, <2>5, <2>6, <2>7, <3>1
  <2>9. More' => y \in Continuing
    <3>1. Continues(x)
      BY ONLY <2>1, <2>3 DEF Continues, LeadsOn
    <3>2. Previous(y) = x
      BY ONLY <1>11, <2>1, <2>2, <2>3
    <3> QED
      BY ONLY <1>16, <1>17, <2>1, <2>2, <3>1, <3>2
  <2>10. ASSUME NEW n \in Undecided'
         PROVE  WaitsTo(n, y)
    <3>1. WaitsTo(n, x)
      BY ONLY <1>19, <2>2, n \in Undecided'
    <3>2. \A k \in x + 1 .. y - 1 : k \in LineNumber /\ IsComment(file[k])
      BY ONLY <1>11, <2>1, <2>2
    <3>3. ~IsBlank(file[x])
      BY ONLY <2>3
    <3> QED
      BY ONLY <1>5, <2>4, <2>6, <3>1, <3>2, <3>3, WaitsOn
  <2> QED
    BY ONLY <1>6, <2>8, <2>9, <2>10
<1>25. CASE Modifier
  <2>1. /\ More /\ IsModifier(Here) /\ Word(2) # None /\ i' = i + 1 /\ pc' = "modifiers"
        /\ errors' = errors /\ records' = records
        /\ \E c : conditions' = Append(conditions, c) /\ c.line = lines[i].line
    BY <1>25 DEF Modifier, InModifiers
  <2>2. y = LineAt(i + 1)
    BY ONLY <2>1 DEF y
  <2>3. Undecided' = {x}
    <3>1. conditions' \in Seq(ConditionNode') /\ conditions \in Seq(ConditionNode)
      BY <1>1 DEF TypeOK
    <3>2. PICK c : conditions' = Append(conditions, c) /\ c.line = lines[i].line
      BY ONLY <2>1
    <3>3. conditions' # <<>> /\ conditions'[Len(conditions')] = c
      BY ONLY <3>1, <3>2, AppendProperties, LenProperties
    <3> QED
      BY ONLY <1>18, <2>1, <3>2, <3>3 DEF Undecided
  <2>4. /\ x \in LineNumber /\ Here = file[x] /\ ~IsBlank(Here) /\ ~IsComment(Here)
        /\ IsCommand[x]
    <3>1. Here \in RawLine
      BY ONLY TypeOK, <2>1, HereIs
    <3>2. ~IsBlank(Here) /\ ~IsComment(Here)
      BY ONLY <2>1, <3>1, ModifierLine
    <3>3. IsCommand[x]
      BY ONLY TypeOK, <1>4, <2>1, <3>2, AtCommand DEF x
    <3> QED
      BY ONLY <1>11, <2>1, <3>2, <3>3
  <2>5. ~BareModifier(x)
    BY ONLY <2>1, <2>4 DEF BareModifier, Word
  <2>6. x \notin W
    BY ONLY <2>1, <2>4 DEF W, WellFormed, Header
  <2>7. Passes(x, y)
    BY ONLY <1>11, <2>1, <2>2
  <2>8. \A n \in U : n \notin D
    BY ONLY <1>5, <1>19, <2>4, <2>5, NotDangling DEF D
  <2>9. RecordLines(records') = upTo(W, y) /\ ToSet(errors') = upTo(D, y) \ Undecided'
    <3>1. \A n \in upTo(D, x) : n \in D /\ n # x
      BY ONLY <1>5, <1>8 DEF upTo, LineNumber
    <3>2. upTo(D, x) \ U = upTo(D, x)
      BY ONLY <2>8, <3>1
    <3>3. (upTo(D, x) \cup ({x} \cap D)) \ {x} = upTo(D, x)
      BY ONLY <3>1
    <3> QED
      BY ONLY <1>10, <1>19, <2>1, <2>3, <2>6, <2>7, <3>2, <3>3
  <2>10. More' => y \in Continuing
    <3>1. Continues(x)
      BY ONLY <2>1, <2>4 DEF Continues, LeadsOn
    <3>2. Previous(y) = x
      BY ONLY <1>11, <2>1, <2>2, <2>4
    <3> QED
      BY ONLY <1>16, <1>17, <2>1, <2>2, <3>1, <3>2
  <2>11. WaitsTo(x, y)
    <3>1. x < y /\ x \in Nat /\ y \in Nat
      BY ONLY <1>5, <2>7 DEF Passes
    <3>2. \A k \in x + 1 .. y - 1 : ~IsBlank(file[k]) /\ ~IsCommand[k]
      <4>1. \A k \in x + 1 .. y - 1 : k \in LineNumber /\ IsComment(file[k])
        BY ONLY <1>11, <2>1, <2>2
      <4>2. \A k \in LineNumber : IsCommand[k] => ~IsComment(file[k])
        BY ONLY <1>5, CommandText
      <4> QED
        BY ONLY <4>1, <4>2 DEF IsBlank, IsComment
    <3>3. \A k \in x .. y - 1 : k = x \/ (k \in x + 1 .. y - 1)
      BY ONLY <3>1
    <3>4. ~(x > x)
      BY ONLY <3>1
    <3> QED
      BY ONLY <2>1, <2>4, <3>1, <3>2, <3>3, <3>4 DEF WaitsTo, Word
  <2> QED
    BY ONLY <1>6, <2>3, <2>9, <2>10, <2>11
<1>26. CASE NoRecord
  <2>1. /\ (More => IsBlank(Here)) /\ i' = i /\ pc = "modifiers" /\ pc' = "preamble"
        /\ IF conditions # <<>> THEN errors' = Append(errors, conditions[Len(conditions)].line)
           ELSE errors' = errors
        /\ records' = records \o WithPending
    BY <1>26 DEF NoRecord, InModifiers, flushPendingAsTopLevel, err
  <2>2. y = x /\ Undecided' = {}
    BY ONLY <1>13, <2>1 DEF x, y
  <2>3. More' => IsBlank(Here)'
    BY ONLY <1>1, <2>1 DEF More, Here
  <2>4. x \in LineNumber => IsBlank(file[x])
    <3>1. ~More => x = Len(file) + 1
      BY ONLY <1>5 DEF x, LineAt, More
    <3> QED
      BY ONLY <1>5, <1>11, <2>1, <3>1 DEF LineNumber
  <2>5. \A n \in U : n \in D /\ n \in LineNumber
    <3>1. \A n \in U : n \in D
      BY ONLY <1>5, <1>19, <2>4, IsDangling DEF D
    <3> QED
      BY ONLY <1>8, <3>1
  <2>6. ToSet(errors') = ToSet(errors) \cup U
    <3>1. U = IF conditions # <<>> THEN {conditions[Len(conditions)].line} ELSE {}
      BY ONLY <2>1 DEF U, Undecided
    <3>2. CASE conditions # <<>>
      <4>1. conditions[Len(conditions)].line \in LineNumber
        BY ONLY <2>5, <3>1, <3>2
      <4>2. ToSet(Append(errors, conditions[Len(conditions)].line))
              = ToSet(errors) \cup {conditions[Len(conditions)].line}
        BY ONLY <1>14, <4>1, AppendSet DEF Numbers
      <4> QED
        BY ONLY <2>1, <3>1, <3>2, <4>2
    <3>3. CASE conditions = <<>>
      BY ONLY <2>1, <3>1, <3>3
    <3> QED
      BY ONLY <3>2, <3>3
  <2>7. RecordLines(records') = upTo(W, y) /\ ToSet(errors') = upTo(D, y) \ Undecided'
    <3>1. \A n \in U : n \in upTo(D, x)
      BY ONLY <1>9, <2>5 DEF upTo
    <3>2. (upTo(D, x) \ U) \cup U = upTo(D, x)
      BY ONLY <3>1
    <3> QED
      BY ONLY <1>14, <1>15, <1>19, <2>1, <2>2, <2>6, <3>2
  <2> QED
    BY ONLY <1>6, <2>2, <2>3, <2>7
<1>27. ASSUME AtHeader, Malformed(Here) \/ ~IsControl(Here), i' = skipToBlank(i + 1)
       PROVE  Passes(x, y) /\ (More' => IsBlank(Here)')
  <2>1. /\ More /\ ~IsBlank(Here) /\ ~IsComment(Here) /\ ~IsModifier(Here)
    BY ONLY <1>27 DEF AtHeader
  <2>2. ~LeadsOn(x)
    BY ONLY <1>11, <1>27, <2>1 DEF LeadsOn
  <2>3. Passes(x, y)
    BY ONLY TypeOK, <1>27, <2>1, <2>2, BodyPasses DEF x, y
  <2>4. i' <= Len(lines) => IsBlank(lines[i'].text)
    BY ONLY TypeOK, <1>27, <2>1, BodyIs
  <2> QED
    BY ONLY <1>1, <2>3, <2>4 DEF More, Here
<1>28. AtHeader => /\ More /\ x \in LineNumber /\ Here = file[x] /\ IsCommand[x]
                   /\ Header(x) /\ ~BareModifier(x) /\ ~Dangles(x)
                   /\ \A n \in U : n \notin D
  <2> SUFFICES ASSUME AtHeader
               PROVE  /\ More /\ x \in LineNumber /\ Here = file[x] /\ IsCommand[x]
                      /\ Header(x) /\ ~BareModifier(x) /\ ~Dangles(x)
                      /\ \A n \in U : n \notin D
    OBVIOUS
  <2>1. /\ More /\ ~IsBlank(Here) /\ ~IsComment(Here) /\ ~IsModifier(Here)
    BY DEF AtHeader
  <2>2. x \in LineNumber /\ Here = file[x]
    BY ONLY <1>11, <2>1
  <2>3. IsCommand[x]
    BY ONLY TypeOK, <1>4, <2>1, AtCommand DEF x
  <2>4. Header(x) /\ ~BareModifier(x) /\ ~Dangles(x)
    BY ONLY <2>1, <2>2, <2>3 DEF Header, BareModifier, Dangles
  <2>5. \A n \in U : n \notin D
    BY ONLY <1>5, <1>19, <2>2, <2>3, <2>4, NotDangling DEF D
  <2> QED
    BY ONLY <2>1, <2>2, <2>3, <2>4, <2>5
<1>29. (\A n \in U : n \notin D) => upTo(D, x) \ U = upTo(D, x)
  BY DEF upTo
<1>30. CASE MalformedHeader
  <2>1. /\ AtHeader /\ Malformed(Here) /\ pc' = "preamble" /\ i' = skipToBlank(i + 1)
        /\ errors' = Append(errors, lines[i].line) /\ records' = records
    BY <1>30 DEF MalformedHeader, ReadsHeader, err
  <2>2. x \notin W /\ x \in D
    BY ONLY <1>28, <2>1 DEF W, D, WellFormed, Diagnosed
  <2>3. ToSet(errors') = ToSet(errors) \cup {x}
    BY ONLY <1>14, <1>18, <1>28, <2>1, AppendSet DEF Numbers
  <2>4. Passes(x, y) /\ (More' => IsBlank(Here)') /\ Undecided' = {}
    BY ONLY <1>13, <1>27, <2>1
  <2>5. RecordLines(records') = upTo(W, y) /\ ToSet(errors') = upTo(D, y) \ Undecided'
    BY ONLY <1>10, <1>19, <1>28, <1>29, <2>1, <2>2, <2>3, <2>4
  <2> QED
    BY ONLY <1>6, <2>4, <2>5
<1>31. CASE Statement \/ Query \/ Control
  <2>1. /\ \E node : records' = Append(records, node) /\ TakenBy(node)
        /\ pc' = "preamble" /\ errors' = errors
        /\ i' = IF IsControl(Here) THEN i + 1 ELSE skipToBlank(i + 1)
        /\ ~Malformed(Here) /\ AtHeader
    BY <1>31, HeaderRecord
  <2>2. RecordLines(records') = RecordLines(records) \cup {x}
    <3>1. PICK node : records' = Append(records, node) /\ TakenBy(node)
      BY ONLY <2>1
    <3>2. node \in Node /\ IsRecord(node) /\ node.line = x
      BY ONLY <1>18, <1>28, <2>1, <3>1 DEF TakenBy
    <3>3. RecordLines(Append(records, node)) = RecordLines(records) \cup {node.line}
      BY ONLY <1>14, <3>2, RecordLinesWith
    <3> QED
      BY ONLY <3>1, <3>2, <3>3
  <2>3. x \in W /\ x \notin D
    BY ONLY <1>28, <2>1 DEF W, D, WellFormed, Diagnosed
  <2>4. Passes(x, y) /\ (More' /\ ~IsBlank(Here)' => y \in Continuing)
    <3>1. CASE IsControl(Here)
      <4>1. y = LineAt(i + 1) /\ More
        BY ONLY <1>28, <2>1, <3>1 DEF y
      <4>2. Continues(x)
        BY ONLY <1>28, <2>1, <3>1 DEF Continues, LeadsOn
      <4>3. Previous(y) = x
        BY ONLY <1>11, <2>1, <4>1 DEF AtHeader
      <4>4. More' => y \in Continuing
        BY ONLY <1>16, <1>17, <4>1, <4>2, <4>3
      <4> QED
        BY ONLY <1>11, <4>1, <4>4
    <3>2. CASE ~IsControl(Here)
      BY ONLY <1>27, <2>1, <3>2
    <3> QED
      BY ONLY <3>1, <3>2
  <2>5. Undecided' = {}
    BY ONLY <1>13, <2>1
  <2>6. RecordLines(records') = upTo(W, y) /\ ToSet(errors') = upTo(D, y) \ Undecided'
    BY ONLY <1>10, <1>19, <1>28, <1>29, <2>1, <2>2, <2>3, <2>4, <2>5
  <2> QED
    BY ONLY <1>6, <2>4, <2>5, <2>6
<1> QED
  BY <1>20, <1>21, <1>22, <1>23, <1>24, <1>25, <1>26, <1>30, <1>31
     DEF ParseNext, Preamble, Modifiers, Record

(* At the return everything is decided.                                    *)
LEMMA InvariantResynchronises ==
  ASSUME TypeOK, ResyncOK
  PROVE  Resynchronises
<1> SUFFICES ASSUME Returned
             PROVE  Resynchronises
  BY DEF Resynchronises
<1> DEFINE commands == {n \in LineNumber : IsCommand[n]}
           modifiers == {n \in commands : IsModifier(file[n])}
           bare == {n \in modifiers : WordOf(file[n], 2) = None}
           headers == commands \ modifiers
           malformed == {n \in headers : Malformed(file[n])}
           dangling == {n \in modifiers : ~\E m \in commands : m > n /\ m \in BlockOf(n) \ bare}
<1>1. /\ pc = "returned" /\ i = Len(lines) + 1 /\ Len(lines) \in Nat /\ Len(file) \in Nat
      /\ records \in Seq(Node)
  BY CallLines DEF TypeOK, Returned
<1>2. LineAt(i) = Len(file) + 1 /\ Undecided = {}
  BY <1>1 DEF LineAt, Undecided
<1>3. /\ RecordLines(records) = {n \in WellFormed : n < Len(file) + 1}
      /\ ToSet(errors) = {n \in Diagnosed : n < Len(file) + 1}
  BY <1>2 DEF ResyncOK, RecordsOK, ErrorsOK
<1>4. \A n \in LineNumber : n < Len(file) + 1
  BY <1>1 DEF LineNumber
<1>5. /\ \A n : n \in WellFormed => n \in LineNumber
      /\ \A n : n \in Diagnosed => n \in LineNumber
  BY DEF WellFormed, Diagnosed
<1>6. RecordLines(records) = WellFormed /\ ToSet(errors) = Diagnosed
  BY ONLY <1>3, <1>4, <1>5
<1>7. WellFormed = headers \ malformed
  BY DEF WellFormed, Header
<1>8. \A n \in LineNumber : BareModifier(n) <=> n \in bare
  BY DEF BareModifier
<1>9. \A n \in LineNumber : Header(n) /\ Malformed(file[n]) <=> n \in malformed
  BY DEF Header
<1>10. \A n \in LineNumber : Dangles(n) <=> n \in dangling \ bare
  BY <1>8 DEF Dangles
<1>11. Diagnosed = bare \cup malformed \cup (dangling \ bare)
  <2>1. \A n : n \in bare \cup malformed \cup (dangling \ bare) => n \in LineNumber
    OBVIOUS
  <2> HIDE DEF bare, malformed, dangling
  <2> QED
    BY <1>8, <1>9, <1>10, <2>1 DEF Diagnosed
<1>12. RecordLines(records) = {r.line : r \in {r \in ToSet(records) : IsRecord(r)}}
  <2>1. ToSet(records) = {records[k] : k \in 1 .. Len(records)}
    BY <1>1, LenProperties DEF ToSet
  <2>2. \A line : line \in RecordLines(records)
                    <=> \E k \in 1 .. Len(records) : IsRecord(records[k]) /\ records[k].line = line
    BY RecordLine
  <2>3. \A line : line \in {r.line : r \in {r \in ToSet(records) : IsRecord(r)}}
                    <=> \E k \in 1 .. Len(records) : IsRecord(records[k]) /\ records[k].line = line
    BY ONLY <2>1
  <2> QED
    BY ONLY <2>2, <2>3
<1> QED
  BY ONLY <1>6, <1>7, <1>11, <1>12 DEF Resynchronises
-----------------------------------------------------------------------------
(* The inductive invariant, and what it implies of both calls.             *)

(* Each part is kept by itself, given those before it.                     *)
InvariantOK == TypeOK /\ OrderOK /\ AttachedOK /\ BlanksOK /\ CoverageOK /\ ResyncOK

(* The locals parseTest begins with.                                       *)
Fresh ==
  /\ pc = "preamble" /\ i = 1
  /\ pending = <<>> /\ blanks = NoBlanks /\ conditions = <<>>
  /\ records = <<>> /\ errors = <<>>

(* A call that begins has the invariant.                                   *)
LEMMA FreshCall ==
  CallOK /\ Fresh => InvariantOK
<1> SUFFICES ASSUME CallOK, pc = "preamble", i = 1, pending = <<>>, blanks = NoBlanks,
                    conditions = <<>>, records = <<>>, errors = <<>>
             PROVE  InvariantOK
  BY DEF Fresh
<1>1. Len(lines) \in Nat /\ Len(file) \in Nat
  BY CallLines
<1>2. /\ <<>> \in Seq(LineNumber) /\ <<>> \in Seq(ConditionNode) /\ <<>> \in Seq(Node)
      /\ Len(<<>>) = 0 /\ 1 .. 0 = {} /\ ToSet(<<>>) = {}
  BY EmptySeq DEF ToSet
<1>3. NoBlanks \in [start : Nat, count : Nat] /\ ~(NoBlanks.count > 0)
  BY DEF NoBlanks
<1>4. TypeOK
  BY <1>1, <1>2, <1>3 DEF TypeOK, Numbers
<1>5. ConditionLines = {} /\ BlankLines = {} /\ Held = {}
  <2>1. ConditionLines = {}
    BY DEF ConditionLines
  <2>2. BlankLines = {}
    BY <1>3, NoBlankLines
  <2> QED
    BY <1>2, <2>1, <2>2 DEF Held
<1>6. OrderOK
  <2>1. RecordsBefore(records, Held \cup {LineAt(i)}) /\ Increasing(pending)
    BY ONLY <1>2, records = <<>>, pending = <<>> DEF RecordsBefore, Increasing
  <2>2. Precedes(Held, {LineAt(i)}) /\ Precedes(ConditionLines, ToSet(pending))
    BY ONLY <1>5 DEF Precedes
  <2> QED
    BY ONLY <2>1, <2>2, pc = "preamble" DEF OrderOK
<1>7. AttachedOK
  BY ONLY <1>2, pc = "preamble", pending = <<>>, records = <<>> DEF AttachedOK, Reach
<1>8. BlanksOK
  <2>1. NotBlank(i - 1)
    BY ONLY i = 1 DEF NotBlank, LineNumber
  <2> QED
    BY ONLY <1>2, <1>3, <2>1, pc = "preamble", records = <<>>, blanks = NoBlanks DEF BlanksOK
<1>9. CoverageOK
  <2>1. 1 .. i - 1 = {}
    BY ONLY i = 1
  <2> QED
    BY ONLY <1>2, <1>5, <2>1, pc = "preamble", pending = <<>> DEF CoverageOK
<1>10. ResyncOK
  <2>1. Undecided = {} /\ ToSet(errors) = {} /\ RecordLines(records) = {}
    <3>1. \A line : line \notin RecordLines(records)
      BY ONLY <1>2, records = <<>>, RecordLine
    <3> QED
      BY ONLY <1>2, <3>1, pc = "preamble", errors = <<>> DEF Undecided
  <2>2. /\ LineAt(1) \in Nat \ {0} /\ LineAt(1) <= Len(file) + 1
        /\ \A k \in 1 .. LineAt(1) - 1 : k \in LineNumber /\ IsComment(file[k])
    <3>1. 0 \in 0 .. Len(lines) /\ 0 + 1 = 1
      BY ONLY <1>1
    <3>2. /\ LineAt(0 + 1) \in 0 + 1 .. Len(file) + 1
          /\ \A k \in 0 + 1 .. LineAt(0 + 1) - 1 : k \in LineNumber /\ IsComment(file[k])
      BY ONLY <3>1, CallOK, GapIs
    <3> QED
      BY ONLY <1>1, <3>1, <3>2
  <2>3. \A n \in LineNumber : IsCommand[n] => ~(n < LineAt(1))
    <3>1. \A n \in LineNumber : IsCommand[n] => ~IsComment(file[n])
      BY ONLY <1>1, CommandText
    <3> QED
      BY ONLY <1>1, <2>2, <3>1 DEF LineNumber
  <2>4. RecordsOK /\ ErrorsOK
    BY ONLY <2>1, <2>3, OfCommands, i = 1 DEF RecordsOK, ErrorsOK
  <2>5. Previous(LineAt(1)) = 0
    <3>1. Precursor(0, LineAt(1))
      BY ONLY <2>2 DEF Precursor
    <3>2. Previous(LineAt(1)) \in Nat /\ Precursor(Previous(LineAt(1)), LineAt(1))
      BY ONLY <2>2, PreviousIs
    <3> QED
      BY ONLY <2>2, <3>1, <3>2, OnePrecursor
  <2>6. PositionOK
    <3>1. More => LineAt(1) \in LineNumber
      BY CallLines DEF More, LineAt
    <3> QED
      BY ONLY <2>5, <3>1, i = 1 DEF PositionOK, Continuing, Continues, LineNumber
  <2>7. UndecidedOK
    BY ONLY <2>1 DEF UndecidedOK
  <2> QED
    BY ONLY <2>4, <2>6, <2>7 DEF ResyncOK
<1> QED
  BY ONLY <1>4, <1>6, <1>7, <1>8, <1>9, <1>10 DEF InvariantOK

(* The first call does.                                                    *)
LEMMA InvariantInit ==
  ParseInit => InvariantOK
<1> SUFFICES ASSUME ParseInit
             PROVE  InvariantOK
  OBVIOUS
<1>1. CallOK
  BY FilesAssumption DEF ParseInit, CallOK
<1> QED
  BY <1>1, FreshCall DEF ParseInit, Fresh

(* Every step of a call keeps it, and so does the second call.             *)
LEMMA InvariantStep ==
  InvariantOK /\ [TwiceNext]_<<vars, withTrivia>> => InvariantOK'
<1> SUFFICES ASSUME InvariantOK, [TwiceNext]_<<vars, withTrivia>>
             PROVE  InvariantOK'
  OBVIOUS
<1>1. CASE ParseNext
  BY <1>1, TypeStep, OrderStep, AttachedStep, BlanksStep, CoverageStep, ResyncStep DEF InvariantOK
<1>2. CASE SecondCall
  <2>1. CallOK'
    BY <1>2 DEF SecondCall, InvariantOK, TypeOK, CallOK, preprocess, Kept, InOrder, IsComment
  <2>2. Fresh'
    BY <1>2 DEF SecondCall, Fresh, NoBlanks
  <2>3. (CallOK /\ Fresh => InvariantOK)'
    BY FreshCall, PTL
  <2> QED
    BY <2>1, <2>2, <2>3
<1>3. CASE UNCHANGED <<vars, withTrivia>>
  <2>1. /\ file' = file /\ emitTrivia' = emitTrivia /\ lines' = lines /\ pc' = pc /\ i' = i
        /\ pending' = pending /\ blanks' = blanks /\ conditions' = conditions
        /\ records' = records /\ errors' = errors
    BY <1>3 DEF vars, call
  <2>2. TypeOK /\ OrderOK /\ AttachedOK /\ BlanksOK /\ CoverageOK /\ ResyncOK
    BY DEF InvariantOK
  <2>3. TypeOK'
    <3>1. UNCHANGED call
      BY <1>3 DEF vars
    <3> QED
      BY <2>1, <2>2, <3>1, SameTypes DEF TypeOK
  <2>4. /\ \A s : ToSet(s)' = ToSet(s)
        /\ \A node : LinesOf(node)' = LinesOf(node)
        /\ \A node : LinesIn(node)' = LinesIn(node)
        /\ \A c : LinesOfCondition(c)' = LinesOfCondition(c)
        /\ \A A, B : Precedes(A, B)' <=> Precedes(A, B)
        /\ \A s : Increasing(s)' <=> Increasing(s)
    BY ONLY TRUE DEF LinesOfCondition, LinesIn, LinesOf, OrNone, ToSet, Increasing, Precedes
  <2>5. ConditionLines' = ConditionLines
    BY ONLY <2>1, <2>4 DEF ConditionLines
  <2>6. BlankLines' = BlankLines
    BY ONLY <2>1 DEF BlankLines
  <2>7. Held' = Held
    BY ONLY <2>1, <2>4, <2>5, <2>6 DEF Held
  <2>8. LineAt(i)' = LineAt(i)
    BY ONLY <2>1 DEF LineAt
  <2>9. OrderOK'
    <3>1. \A nodes, front : RecordsBefore(nodes, front)' <=> RecordsBefore(nodes, front)
      BY ONLY <2>4 DEF RecordsBefore
    <3>2. RecordsBefore(records, Held \cup {LineAt(i)})'
      BY ONLY <2>1, <2>2, <2>7, <2>8, <3>1 DEF OrderOK
    <3>3. (pc = "modifiers" => ConditionsInOrder)'
      BY ONLY <2>1, <2>2, <2>4 DEF OrderOK, ConditionsInOrder
    <3>4. (/\ Precedes(Held, {LineAt(i)})
           /\ Precedes(ConditionLines, ToSet(pending))
           /\ Increasing(pending))'
      BY ONLY <2>1, <2>2, <2>4, <2>5, <2>7, <2>8 DEF OrderOK
    <3> QED
      BY ONLY <3>2, <3>3, <3>4 DEF OrderOK
  <2>10. \A n : (IsBlank(file[n]) <=> IsBlank(file[n])') /\ (Clean(n)' <=> Clean(n))
    BY ONLY <2>1 DEF Clean, IsBlank
  <2>11. AttachedOK'
    <3>1. \A n, line : Reaches(n, line)' <=> Reaches(n, line)
      BY ONLY <2>10 DEF Reaches
    <3>2. \A n : Free(n)' <=> Free(n)
      BY ONLY <2>1, <2>10 DEF Free
    <3>3. \A s, line : Reach(s, line)' <=> Reach(s, line)
      BY ONLY <2>4, <3>1 DEF Reach
    <3>4. \A record : Attached(record)' <=> Attached(record)
      BY ONLY <3>2, <3>3 DEF Attached
    <3> QED
      BY ONLY <2>1, <2>2, <3>3, <3>4 DEF AttachedOK
  <2>12. BlanksOK'
    <3>1. \A n : NotBlank(n)' <=> NotBlank(n)
      BY ONLY <2>1, <2>10 DEF NotBlank, LineNumber
    <3>2. \A record : Placed(record)' <=> Placed(record)
      BY ONLY <2>4, <3>1 DEF Placed
    <3>3. (More /\ ~IsBlank(Here))' <=> More /\ ~IsBlank(Here)
      BY ONLY <2>1 DEF More, Here, IsBlank
    <3> QED
      BY ONLY <2>1, <2>2, <3>1, <3>2, <3>3 DEF BlanksOK
  <2>13. CoverageOK'
    <3>1. AcceptedBy(records)' = AcceptedBy(records)
      BY ONLY <2>1, <2>4 DEF AcceptedBy
    <3>2. \A n : BlockOf(n)' = BlockOf(n)
      BY ONLY <2>1, <2>10 DEF BlockOf, LineNumber
    <3> QED
      BY ONLY <2>1, <2>2, <2>4, <2>5, <2>7, <2>10, <3>1, <3>2 DEF CoverageOK
  <2>14. ResyncOK'
    <3>1. /\ WellFormed' = WellFormed /\ Diagnosed' = Diagnosed /\ Continuing' = Continuing
          /\ \A n, x : WaitsTo(n, x)' <=> WaitsTo(n, x)
      BY ONLY <2>1, SameCommands
    <3>2. Undecided' = Undecided
      BY ONLY <2>1 DEF Undecided
    <3>3. RecordLines(records)' = RecordLines(records)
      BY ONLY <2>1 DEF RecordLines, IsRecord
    <3>4. (More /\ ~IsBlank(Here))' <=> More /\ ~IsBlank(Here)
      BY ONLY <2>1 DEF More, Here, IsBlank
    <3>5. PositionOK'
      BY ONLY <2>2, <2>8, <3>1, <3>4 DEF ResyncOK, PositionOK
    <3>6. UndecidedOK'
      BY ONLY <2>2, <2>8, <3>1, <3>2 DEF ResyncOK, UndecidedOK
    <3>7. RecordsOK'
      BY ONLY <2>2, <2>8, <3>1, <3>3 DEF ResyncOK, RecordsOK
    <3>8. ErrorsOK'
      BY ONLY <2>1, <2>2, <2>4, <2>8, <3>1, <3>2 DEF ResyncOK, ErrorsOK
    <3> QED
      BY ONLY <3>5, <3>6, <3>7, <3>8 DEF ResyncOK
  <2> QED
    BY <2>3, <2>9, <2>11, <2>12, <2>13, <2>14 DEF InvariantOK
<1> QED
  BY <1>1, <1>2, <1>3 DEF TwiceNext

(* The parts together hold before and after every step of both calls.      *)
THEOREM TestParserInvariant == TwiceSpec => []InvariantOK
  BY InvariantInit, InvariantStep, PTL DEF TwiceSpec, TwiceInit

(* parseTest returns the fields TestNode of nodes.ts declares: a record    *)
(* that expects nothing has no expected, and no node has comments unless   *)
(* trivia are wanted.                                                      *)
THEOREM TestParserTypes == TwiceSpec => []TypeOK
<1>1. InvariantOK => TypeOK
  BY DEF InvariantOK
<1> QED
  BY <1>1, TestParserInvariant, PTL

(* When parseTest returns with trivia, a comment a record or a condition   *)
(* has is above it with nothing but comments and refused modifiers         *)
(* between, one of no record is above a blank line or the end, the records *)
(* are in the order of their lines, and a run of blank lines is a whole    *)
(* one: what flushPendingAsTopLevel, flushBlankRun and pendingComments are *)
(* for.                                                                    *)
THEOREM TriviaIsInPlace == TwiceSpec => []TriviaInPlace
<1>1. InvariantOK => TriviaInPlace
  BY InvariantAttaches, InvariantOrders DEF InvariantOK, TriviaInPlace
<1> QED
  BY <1>1, TestParserInvariant, PTL

(* When parseTest returns with trivia, no line of the file is in two       *)
(* nodes, and one that is in none is a "----" or in a block that has a     *)
(* diagnostic: resynchronisation, which skips to a blank line, loses       *)
(* nothing else.                                                           *)
THEOREM LinesAreAccountedFor == TwiceSpec => []LinesAccountedFor
<1>1. InvariantOK => LinesAccountedFor
  BY InvariantAccounts DEF InvariantOK
<1> QED
  BY <1>1, TestParserInvariant, PTL

(* When parseTest returns, with trivia or without, every well-formed       *)
(* header in the place of a command has its record and every other command *)
(* that has none its diagnostic, and nothing else has either: the          *)
(* skipToBlank after a malformed header and the body of a record pass no   *)
(* command, and NoRecord diagnoses the modifier the property says.         *)
THEOREM EveryCommandIsAnswered == TwiceSpec => []Resynchronises
<1>1. InvariantOK => Resynchronises
  BY InvariantResynchronises DEF InvariantOK
<1> QED
  BY <1>1, TestParserInvariant, PTL
=============================================================================
