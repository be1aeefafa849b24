-------------------------- MODULE TokenizerProofs --------------------------
(***************************************************************************)
(* Proofs about the scanner and the token stream, for every source.        *)
(* First, how the loops of nextToken run, and that whatever token it finds *)
(* ends in the source and later than it starts.  Two of the loops are      *)
(* recursive functions in Tokenizer; that these exist, and what follows of *)
(* their values, comes from RecursionLemmas.                               *)
(* Then, that the tokens tile the source, and that lines and columns stay  *)
(* those of the offset.  Neither is inductive as Tokenizer states it: the  *)
(* next token is searched from the cursor, and TokensTile does not say     *)
(* that this is where the last token ended.  InStep adds that.             *)
(***************************************************************************)
EXTENDS Tokenizer, SequenceTheorems, RecursionLemmas, FiniteSetTheorems

(* What a source is, or a text cut out of one, or one that a quote is put  *)
(* after.  Letters and the bracket are strings, which tlapm has no rule    *)
(* for: the unions stand for that.                                         *)
Characters == (STRING \cup Letters \cup {"]"}) \ {"EOI"}
Text == Seq(Characters)

(* The end of the text is in none of the sets of characters a loop of      *)
(* nextToken runs over, so no such loop passes it.                         *)
LEMMA NoClassHasEnd ==
  /\ "EOI" \notin Digits /\ "EOI" \notin XDigits /\ "EOI" \notin Space
  /\ "EOI" \notin IdChars /\ "EOI" \notin KeywordChars
<1>1. "EOI" \notin Digits /\ "EOI" \notin XDigits /\ "EOI" \notin Space
  BY DEF Digits, XDigits, Space, SpaceClass
<1>2. "EOI" \notin Upper
  BY DEF Upper
<1>3. "EOI" \notin Lower
  BY DEF Lower, LowerOf, Upper
<1>4. "EOI" \notin Letters
  BY <1>2, <1>3 DEF Letters
<1> QED
  BY <1>1, <1>4 DEF IdChars, HighChars, KeywordChars

Classes == {"X", "KYWD", "KYWD0", "DIGIT", "SPACE", "QUOTE", "QUOTE2", "VARALPHA", "OPERATOR",
            "DOLLAR", "VARNUM", "MINUS", "SLASH", "DOT", "BOM", "ID", "NUL", "ILLEGAL"}

(* aiClass classes every character; what nextToken relies on in three of   *)
(* its classes.                                                            *)
LEMMA ClassFacts ==
  ASSUME NEW c
  PROVE  /\ aiClass(c) \in Classes
         /\ aiClass(c) = "DIGIT" => c \in Digits
         /\ aiClass(c) = "DOT" => c = "."
         /\ aiClass(c) = "NUL" => c \in {"NUL", "EOI"}
  BY DEF aiClass, Classes

(* Only past its end is there no character in a text.                      *)
LEMMA EndOfText ==
  ASSUME NEW z \in Text, NEW i \in Nat
  PROVE  Ch(z, i) = "EOI" <=> i >= Len(z)
<1>1. CASE i < Len(z)
  <2>1. i + 1 \in 1 .. Len(z)
    BY <1>1 DEF Text
  <2>2. z[i + 1] \in Characters
    BY <2>1 DEF Text
  <2> QED
    BY <1>1, <2>2 DEF Ch, Characters
<1>2. CASE i >= Len(z)
  BY <1>2 DEF Ch, Text
<1> QED
  BY <1>1, <1>2 DEF Text

(* The loop `while (test(z[i])) i++` stops, at the first character that    *)
(* fails the test, and no later than at the end of the text.               *)
LEMMA PastFacts ==
  ASSUME NEW z \in Text, NEW i \in 0 .. Len(z), NEW chars, "EOI" \notin chars
  PROVE  /\ Past(z, i, chars) \in i .. Len(z)
         /\ Ch(z, Past(z, i, chars)) \notin chars
         /\ \A k \in i .. Past(z, i, chars) - 1 : Ch(z, k) \in chars
         /\ Ch(z, i) \in chars => Past(z, i, chars) > i
<1> DEFINE S == {j \in i .. Len(z) : Ch(z, j) \notin chars}
           P(j) == Ch(z, j) \notin chars /\ \A k \in i .. j - 1 : Ch(z, k) \in chars
           past == Past(z, i, chars)
<1>1. Len(z) \in Nat /\ i \in Nat /\ i <= Len(z) /\ Ch(z, Len(z)) = "EOI"
  BY EndOfText DEF Text
<1>2. PICK m \in S : \A k \in S : m <= k
  <2>1. Len(z) \in S
    BY <1>1
  <2>2. S \subseteq Nat /\ S # {}
    BY <1>1, <2>1
  <2> HIDE DEF S
  <2> QED
    BY <2>2, LeastOf
<1>3. m \in i .. i + Len(z) /\ P(m)
  <2>1. m \in i .. Len(z) /\ Ch(z, m) \notin chars
    OBVIOUS
  <2>2. ASSUME NEW k \in i .. m - 1
        PROVE  Ch(z, k) \in chars
    <3>1. k \in i .. Len(z) /\ ~(m <= k)
      BY <1>1, <2>1
    <3> QED
      BY <1>2, <3>1
  <2> QED
    BY <1>1, <2>1, <2>2
<1>4. past \in i .. i + Len(z) /\ P(past)
  BY <1>3 DEF Past
<1>5. past <= Len(z)
  <2>1. ~(past <= Len(z)) => Len(z) \in i .. past - 1
    BY <1>1, <1>4
  <2> QED
    BY <1>1, <1>4, <2>1
<1> QED
  BY <1>1, <1>4, <1>5

(* The loop `while (z[i] !== c && i < z.length) i++` stops, at the first   *)
(* such character or at the end of the text.                               *)
LEMMA FindFacts ==
  ASSUME NEW z \in Text, NEW i \in 0 .. Len(z), NEW chars
  PROVE  /\ Find(z, i, chars) \in i .. Len(z)
         /\ Ch(z, Find(z, i, chars)) \in chars \cup {"EOI"}
         /\ \A k \in i .. Find(z, i, chars) - 1 : Ch(z, k) \notin chars \cup {"EOI"}
<1> DEFINE S == {j \in i .. Len(z) : Ch(z, j) \in chars \cup {"EOI"}}
           P(j) == Ch(z, j) \in chars \cup {"EOI"} /\ \A k \in i .. j - 1 : Ch(z, k) \notin chars \cup {"EOI"}
           find == Find(z, i, chars)
<1>1. Len(z) \in Nat /\ i \in Nat /\ i <= Len(z) /\ Ch(z, Len(z)) = "EOI"
  BY EndOfText DEF Text
<1>2. PICK m \in S : \A k \in S : m <= k
  <2>1. Len(z) \in S
    BY <1>1
  <2>2. S \subseteq Nat /\ S # {}
    BY <1>1, <2>1
  <2> HIDE DEF S
  <2> QED
    BY <2>2, LeastOf
<1>3. m \in i .. i + Len(z) /\ P(m)
  <2>1. m \in i .. Len(z) /\ Ch(z, m) \in chars \cup {"EOI"}
    OBVIOUS
  <2>2. ASSUME NEW k \in i .. m - 1
        PROVE  Ch(z, k) \notin chars \cup {"EOI"}
    <3>1. k \in i .. Len(z) /\ ~(m <= k)
      BY <1>1, <2>1
    <3> QED
      BY <1>2, <3>1
  <2> QED
    BY <1>1, <2>1, <2>2
<1>4. find \in i .. i + Len(z) /\ P(find)
  BY <1>3 DEF Find
<1>5. find <= Len(z)
  <2>1. ~(find <= Len(z)) => Len(z) \in i .. find - 1
    BY <1>1, <1>4
  <2> QED
    BY <1>1, <1>4, <2>1
<1> QED
  BY <1>1, <1>4, <1>5

(* Where Past stops is determined by the characters up to there.           *)
LEMMA PastIs ==
  ASSUME NEW z \in Text, NEW i \in 0 .. Len(z), NEW chars, "EOI" \notin chars,
         NEW j \in i .. Len(z), Ch(z, j) \notin chars, \A k \in i .. j - 1 : Ch(z, k) \in chars
  PROVE  Past(z, i, chars) = j
<1> DEFINE past == Past(z, i, chars)
<1>1. past \in i .. Len(z) /\ Ch(z, past) \notin chars /\ \A k \in i .. past - 1 : Ch(z, k) \in chars
  BY PastFacts
<1>2. Len(z) \in Nat
  BY DEF Text
<1> HIDE DEF past
<1>3. ~(past < j) /\ ~(j < past)
  BY <1>1, <1>2
<1> QED
  BY <1>1, <1>2, <1>3 DEF past

(* Where Find stops is determined by the characters up to there.           *)
LEMMA FindIs ==
  ASSUME NEW z \in Text, NEW i \in 0 .. Len(z), NEW chars,
         NEW j \in i .. Len(z), Ch(z, j) \in chars \cup {"EOI"},
         \A k \in i .. j - 1 : Ch(z, k) \notin chars \cup {"EOI"}
  PROVE  Find(z, i, chars) = j
<1> DEFINE find == Find(z, i, chars)
           stops == chars \cup {"EOI"}
<1>1. find \in i .. Len(z) /\ Ch(z, find) \in stops /\ \A k \in i .. find - 1 : Ch(z, k) \notin stops
  BY FindFacts
<1>2. Len(z) \in Nat
  BY DEF Text
<1> HIDE DEF find
<1>3. ~(find < j) /\ ~(j < find)
  BY <1>1, <1>2
<1> QED
  BY <1>1, <1>2, <1>3 DEF find

(* A search that starts past the end, as it may after a $name( at the end  *)
(* of the text, ends where it starts.                                      *)
LEMMA FindBeyond ==
  ASSUME NEW z \in Text, NEW i \in Nat, i > Len(z), NEW chars
  PROVE  Find(z, i, chars) = i /\ Ch(z, i) = "EOI"
<1>1. Len(z) \in Nat /\ \A j \in i .. i + Len(z) : Ch(z, j) = "EOI"
  BY EndOfText DEF Text
<1>2. i \in i .. i + Len(z) /\ \A k \in i .. i - 1 : Ch(z, k) \notin chars \cup {"EOI"}
  BY <1>1
<1> DEFINE find == Find(z, i, chars)
<1>3. find \in i .. i + Len(z) /\ \A k \in i .. find - 1 : Ch(z, k) \notin chars \cup {"EOI"}
  BY <1>1, <1>2 DEF Find
<1> HIDE DEF find
<1>4. ~(i < find)
  BY <1>1, <1>3
<1> QED
  BY <1>1, <1>2, <1>3, <1>4 DEF find

-----------------------------------------------------------------------------

(* A loop over positions which is at i in C, goes on from step[i], and     *)
(* ends with result[i] elsewhere; it only goes forward, and not past n.    *)
Forward(C, step, result, n) ==
  /\ n \in Nat /\ C \subseteq Nat /\ step \in [Nat -> Nat] /\ result \in [Nat -> Nat]
  /\ \A i \in C : i < step[i] /\ step[i] <= n
  /\ \A i \in Nat : i <= result[i] /\ (i <= n => result[i] <= n)

(* Such a loop ends, as the rest of the text gets shorter.                 *)
LEMMA ForwardTerminates ==
  ASSUME NEW C, NEW step, NEW result, NEW n, Forward(C, step, result, n)
  PROVE  Terminates(Nat, C, step, [i \in Nat |-> IF i < n THEN n - i ELSE 0], n)
<1> DEFINE measure == [i \in Nat |-> IF i < n THEN n - i ELSE 0]
<1>1. /\ n \in Nat /\ C \subseteq Nat /\ step \in [Nat -> Nat]
      /\ \A i \in C : i \in Nat /\ step[i] \in Nat /\ i < step[i] /\ step[i] <= n
  BY DEF Forward
<1>2. measure \in [Nat -> 0 .. n]
  BY <1>1
<1>3. \A i \in C : measure[step[i]] < measure[i]
  BY <1>1
<1> QED
  BY <1>1, <1>2, <1>3 DEF Terminates

(* What holds where the loop ends, and before each of its turns if after   *)
(* it, holds everywhere.                                                   *)
LEMMA ForwardInduction ==
  ASSUME NEW C, NEW step, NEW result, NEW n, Forward(C, step, result, n), NEW P \in SUBSET Nat,
         \A i \in Nat : i \notin C => i \in P,
         \A i \in C : step[i] \in P => i \in P
  PROVE  \A i \in Nat : i \in P
<1> DEFINE S == Nat
           measure == [i \in Nat |-> IF i < n THEN n - i ELSE 0]
<1>1. Terminates(S, C, step, measure, n)
  BY ForwardTerminates
<1>2. P \in SUBSET S /\ \A i \in S : i \notin C => i \in P
  OBVIOUS
<1>3. \A i \in S : i \in P
  <2> HIDE DEF S, measure
  <2> QED
    BY <1>1, <1>2, LoopInduction
<1> QED
  BY <1>3

(* Hence there is a function that the loop computes, and it never leaves   *)
(* the text.                                                               *)
LEMMA ForwardLoops ==
  ASSUME NEW C, NEW step, NEW result, NEW n, Forward(C, step, result, n)
  PROVE  /\ \E f : f \in [Nat -> Nat] /\ Loops(f, Nat, C, step, result)
         /\ \A f : Loops(f, Nat, C, step, result) => \A i \in 0 .. n : f[i] \in i .. n
<1> DEFINE S == Nat
           measure == [i \in Nat |-> IF i < n THEN n - i ELSE 0]
<1>1. /\ n \in Nat /\ C \subseteq Nat /\ step \in [Nat -> Nat] /\ result \in [Nat -> Nat]
      /\ \A i \in C : i \in Nat /\ step[i] \in Nat /\ i < step[i] /\ step[i] <= n
      /\ \A i \in Nat : i <= result[i] /\ (i <= n => result[i] <= n)
  BY DEF Forward
<1>2. \E f : f \in [Nat -> Nat] /\ Loops(f, Nat, C, step, result)
  <2>1. Terminates(S, C, step, measure, n) /\ result \in [S -> S]
    BY <1>1, ForwardTerminates
  <2>2. \E f : f \in [S -> S] /\ Loops(f, S, C, step, result)
    <3> HIDE DEF S, measure
    <3> QED
      BY <2>1, LoopDefined
  <2> QED
    BY <2>2
<1>3. ASSUME NEW f, Loops(f, Nat, C, step, result)
      PROVE  \A i \in 0 .. n : f[i] \in i .. n
  <2> DEFINE P == {i \in Nat : f[i] \in Nat /\ f[i] >= i /\ (i <= n => f[i] <= n)}
  <2>1. \A i \in Nat : f[i] = IF i \in C THEN f[step[i]] ELSE result[i]
    BY <1>3 DEF Loops
  <2>2. \A i \in Nat : i \notin C => i \in P
    BY <1>1, <2>1
  <2>3. ASSUME NEW i \in C, step[i] \in P
        PROVE  i \in P
    <3>1. f[i] = f[step[i]]
      BY <1>1, <2>1
    <3> QED
      BY <1>1, <2>3, <3>1
  <2>4. P \in SUBSET Nat
    OBVIOUS
  <2>5. \A i \in Nat : i \in P
    <3> HIDE DEF P
    <3> QED
      BY <2>2, <2>3, <2>4, ForwardInduction
  <2> QED
    BY <1>1, <2>5
<1> QED
  BY <1>2, <1>3

(* The loop of Quoted: at i it looks for the next quote, and goes on after *)
(* it if it is the first of a pair.                                        *)
PairsIn(z, quote) ==
  {i \in Nat : /\ Ch(z, Find(z, i, {quote})) # "EOI"
               /\ Ch(z, Find(z, i, {quote}) + 1) = quote}
AfterPair(z, quote) == [i \in Nat |-> Find(z, i, {quote}) + 2]
NextQuote(z, quote) == [i \in Nat |-> Find(z, i, {quote})]
QuoteLoop(f, z, quote) == Loops(f, Nat, PairsIn(z, quote), AfterPair(z, quote), NextQuote(z, quote))
QuotedTo(z, end) ==
  CASE Ch(z, end) = "EOI" -> T("ILLEGAL", end)
    [] Ch(z, end) = "'"   -> T("STRING", end + 1)
    [] OTHER              -> T("ID", end + 1)

(* Quoted text is scanned forward.                                         *)
LEMMA QuoteForward ==
  ASSUME NEW z \in Text, NEW quote, quote # "EOI"
  PROVE  Forward(PairsIn(z, quote), AfterPair(z, quote), NextQuote(z, quote), Len(z))
<1> DEFINE n == Len(z)
           next(i) == Find(z, i, {quote})
           C == PairsIn(z, quote)
           step == AfterPair(z, quote)
           result == NextQuote(z, quote)
<1>1. n \in Nat
  BY DEF Text
<1>2. ASSUME NEW i \in Nat
      PROVE  /\ next(i) \in Nat /\ i <= next(i) /\ (i <= n => next(i) <= n)
             /\ i \in C => next(i) + 2 <= n
             /\ step[i] = next(i) + 2 /\ result[i] = next(i)
  <2>1. /\ next(i) \in Nat /\ next(i) >= i /\ (i <= n => next(i) <= n)
        /\ i > n => Ch(z, next(i)) = "EOI"
    BY <1>1, FindFacts, FindBeyond
  <2>2. i \in C => next(i) + 1 < n
    BY <1>1, <2>1, EndOfText DEF PairsIn
  <2>3. step[i] = next(i) + 2 /\ result[i] = next(i)
    BY DEF AfterPair, NextQuote
  <2> HIDE DEF next, C, step, result
  <2> QED
    BY <1>1, <2>1, <2>2, <2>3
<1>3. C \subseteq Nat
  BY DEF PairsIn
<1>4. step \in [Nat -> Nat] /\ result \in [Nat -> Nat]
  <2>1. step = [i \in Nat |-> next(i) + 2] /\ result = [i \in Nat |-> next(i)]
    BY DEF AfterPair, NextQuote
  <2> HIDE DEF next, C, step, result
  <2>2. \A i \in Nat : next(i) \in Nat /\ next(i) + 2 \in Nat
    BY <1>2
  <2> QED
    BY <2>1, <2>2
<1> HIDE DEF n, next, C, step, result
<1>5. \A i \in C : i < step[i] /\ step[i] <= n
  BY <1>1, <1>2, <1>3
<1>6. \A i \in Nat : i <= result[i] /\ (i <= n => result[i] <= n)
  BY <1>1, <1>2
<1>7. Forward(C, step, result, n)
  BY <1>1, <1>3, <1>4, <1>5, <1>6 DEF Forward
<1> QED
  BY <1>7 DEF n, C, step, result

(* What Quoted does is said by its loop and the character it ends at.      *)
LEMMA QuotedFacts ==
  ASSUME NEW z \in Text, NEW p \in 0 .. Len(z) - 1
  PROVE  \E f : QuoteLoop(f, z, Ch(z, p)) /\ Quoted(z, p) = QuotedTo(z, f[p + 1])
<1> DEFINE next(i) == Find(z, i, {Ch(z, p)})
           Recurs(f) == f = [i \in Nat |-> IF Ch(z, next(i)) # "EOI" /\ Ch(z, next(i) + 1) = Ch(z, p)
                                          THEN f[next(i) + 2] ELSE next(i)]
           close == CHOOSE f : Recurs(f)
           C == PairsIn(z, Ch(z, p))
           step == AfterPair(z, Ch(z, p))
           result == NextQuote(z, Ch(z, p))
<1>1. Ch(z, p) # "EOI"
  BY EndOfText DEF Text
<1>2. Quoted(z, p) = QuotedTo(z, close[p + 1])
  BY DEF Quoted, QuotedTo
<1>3. Recurs(close)
  <2>1. PICK f : f \in [Nat -> Nat] /\ Loops(f, Nat, C, step, result)
    <3>1. Forward(C, step, result, Len(z))
      BY <1>1, QuoteForward
    <3> HIDE DEF C, step, result
    <3> QED
      BY <3>1, ForwardLoops
  <2>2. Recurs(f)
    BY <2>1 DEF Loops, PairsIn, AfterPair, NextQuote
  <2> HIDE DEF Recurs
  <2> QED
    BY <2>2
<1>4. Loops(close, Nat, C, step, result)
  <2> HIDE DEF close
  <2> QED
    BY <1>3 DEF Loops, PairsIn, AfterPair, NextQuote
<1> HIDE DEF close
<1> QED
  BY <1>2, <1>4 DEF QuoteLoop

(* Quoted text has at least one character and ends in the source.          *)
LEMMA QuotedEnds ==
  ASSUME NEW z \in Text, NEW p \in 0 .. Len(z) - 1
  PROVE  Quoted(z, p).end \in p + 1 .. Len(z)
<1>1. Len(z) \in Nat /\ p \in Nat /\ p + 1 \in 0 .. Len(z) /\ Ch(z, p) # "EOI"
  BY EndOfText DEF Text
<1>2. PICK close : QuoteLoop(close, z, Ch(z, p)) /\ Quoted(z, p) = QuotedTo(z, close[p + 1])
  BY QuotedFacts
<1> DEFINE end == close[p + 1]
<1>3. end \in p + 1 .. Len(z)
  BY <1>1, <1>2, QuoteForward, ForwardLoops DEF QuoteLoop
<1> HIDE DEF end
<1>4. Ch(z, end) # "EOI" => end < Len(z)
  BY <1>1, <1>3, EndOfText
<1>5. QuotedTo(z, end).end = IF Ch(z, end) = "EOI" THEN end ELSE end + 1
  BY DEF QuotedTo, T
<1> QED
  BY <1>1, <1>2, <1>3, <1>4, <1>5 DEF end

(* The loop of Variable: it takes characters of names, and ::.              *)
NameChars(z) == {i \in Nat : Ch(z, i) \in IdChars \/ (Ch(z, i) = ":" /\ Ch(z, i + 1) = ":")}
AfterChar(z) == [i \in Nat |-> IF Ch(z, i) \in IdChars THEN i + 1 ELSE i + 2]
NameLoop(f, z) == Loops(f, Nat, NameChars(z), AfterChar(z), [i \in Nat |-> i])
VariableTo(z, p, end) ==
  LET stop  == Find(z, end + 1, Space \cup {")"})
      named == \E i \in p + 1 .. end - 1 : Ch(z, i) \in IdChars
  IN  CASE ~named                                          -> T("ILLEGAL", end)
        [] named /\ Ch(z, end) # "("                       -> T("VARIABLE", end)
        [] named /\ Ch(z, end) = "(" /\ Ch(z, stop) # ")" -> T("ILLEGAL", stop)
        [] named /\ Ch(z, end) = "(" /\ Ch(z, stop) = ")" -> T("VARIABLE", stop + 1)

(* The name of a variable is scanned forward.                              *)
LEMMA NameForward ==
  ASSUME NEW z \in Text
  PROVE  Forward(NameChars(z), AfterChar(z), [i \in Nat |-> i], Len(z))
<1> DEFINE n == Len(z)
           C == NameChars(z)
           step == AfterChar(z)
           result == [i \in Nat |-> i]
<1>1. n \in Nat /\ \A i \in Nat : Ch(z, i) # "EOI" => i < n
  BY EndOfText DEF Text
<1>2. step \in [Nat -> Nat] /\ result \in [Nat -> Nat] /\ C \subseteq Nat
  BY DEF NameChars, AfterChar
<1>3. ASSUME NEW i \in C
      PROVE  i < step[i] /\ step[i] <= n
  <2>1. CASE Ch(z, i) \in IdChars
    BY <1>1, <2>1, NoClassHasEnd DEF NameChars, AfterChar
  <2>2. CASE Ch(z, i) \notin IdChars
    BY <1>1, <2>2 DEF NameChars, AfterChar
  <2> QED
    BY <2>1, <2>2
<1>4. \A i \in Nat : i <= result[i] /\ (i <= n => result[i] <= n)
  OBVIOUS
<1> HIDE DEF n, C, step, result
<1>5. Forward(C, step, result, n)
  BY <1>1, <1>2, <1>3, <1>4 DEF Forward
<1> QED
  BY <1>5 DEF n, C, step, result

(* What Variable does is said by its loop and what follows its end.        *)
LEMMA VariableFacts ==
  ASSUME NEW z \in Text, NEW p \in 0 .. Len(z) - 1
  PROVE  \E f : NameLoop(f, z) /\ Variable(z, p) = VariableTo(z, p, f[p + 1])
<1> DEFINE C == NameChars(z)
           step == AfterChar(z)
           result == [i \in Nat |-> i]
           Recurs(f) == f = [i \in Nat |-> IF Ch(z, i) \in IdChars THEN f[i + 1]
                                          ELSE IF Ch(z, i) = ":" /\ Ch(z, i + 1) = ":" THEN f[i + 2]
                                          ELSE i]
           nameEnd == CHOOSE f : Recurs(f)
<1>1. Variable(z, p) = VariableTo(z, p, nameEnd[p + 1])
  BY DEF Variable, VariableTo
<1>2. Recurs(nameEnd)
  <2>1. PICK f : f \in [Nat -> Nat] /\ Loops(f, Nat, C, step, result)
    <3>1. Forward(C, step, result, Len(z))
      BY NameForward
    <3> HIDE DEF C, step, result
    <3> QED
      BY <3>1, ForwardLoops
  <2>2. Recurs(f)
    BY <2>1 DEF Loops, NameChars, AfterChar
  <2> HIDE DEF Recurs
  <2> QED
    BY <2>2
<1>3. Loops(nameEnd, Nat, C, step, result)
  <2> HIDE DEF nameEnd
  <2> QED
    BY <1>2 DEF Loops, NameChars, AfterChar
<1> HIDE DEF nameEnd
<1> QED
  BY <1>1, <1>3 DEF NameLoop

(* A variable has at least one character and ends in the source, also when *)
(* its parenthesis is not closed.                                          *)
LEMMA VariableEnds ==
  ASSUME NEW z \in Text, NEW p \in 0 .. Len(z) - 1
  PROVE  Variable(z, p).end \in p + 1 .. Len(z)
<1>1. /\ Len(z) \in Nat /\ p \in Nat /\ p + 1 \in 0 .. Len(z)
      /\ \A i \in Nat : Ch(z, i) # "EOI" => i < Len(z)
  BY EndOfText DEF Text
<1>2. PICK nameEnd : NameLoop(nameEnd, z) /\ Variable(z, p) = VariableTo(z, p, nameEnd[p + 1])
  BY VariableFacts
<1> DEFINE end == nameEnd[p + 1]
           stop == Find(z, end + 1, Space \cup {")"})
<1>3. end \in p + 1 .. Len(z)
  BY <1>1, <1>2, NameForward, ForwardLoops DEF NameLoop
<1> HIDE DEF end
<1>4. Ch(z, end) = "(" => end + 1 \in 0 .. Len(z)
  BY <1>1, <1>3
<1>5. Ch(z, end) = "(" => stop \in end + 1 .. Len(z) /\ (Ch(z, stop) = ")" => stop < Len(z))
  BY <1>1, <1>3, <1>4, FindFacts
<1>6. \/ VariableTo(z, p, end).end = end
      \/ Ch(z, end) = "(" /\ VariableTo(z, p, end).end = stop
      \/ Ch(z, end) = "(" /\ Ch(z, stop) = ")" /\ VariableTo(z, p, end).end = stop + 1
  BY DEF VariableTo, T
<1> HIDE DEF stop
<1> QED
  BY <1>1, <1>2, <1>3, <1>5, <1>6 DEF end

-----------------------------------------------------------------------------

(* Comments, and the operators that begin as they do, have at least one    *)
(* character and end in the source, also when they are not closed.         *)
LEMMA CommentEnds ==
  ASSUME NEW z \in Text, NEW p \in 0 .. Len(z) - 1
  PROVE  Slash(z, p).end \in p + 1 .. Len(z) /\ Minus(z, p).end \in p + 1 .. Len(z)
<1> DEFINE n == Len(z)
           star(i) == Ch(z, i - 1) = "*" /\ Ch(z, i) = "/"
           closes == {i \in p + 3 .. n - 1 : star(i)}
           close == CHOOSE i \in closes : \A j \in closes : i <= j
<1>1. n \in Nat /\ p \in Nat /\ p < n
  BY DEF Text
<1>2. \A i \in Nat : Ch(z, i) # "EOI" => i < n
  BY EndOfText, <1>1
<1>3. Slash(z, p).end \in p + 1 .. n
  <2>1. closes # {} => close \in closes
    <3>1. closes \subseteq Nat
      BY <1>1
    <3> HIDE DEF closes
    <3> QED
      BY <3>1, LeastOf
  <2>2. closes # {} => 1 + close \in p + 1 .. n
    <3> HIDE DEF close, n
    <3> QED
      BY <1>1, <2>1
  <2>3. \/ Slash(z, p).end = p + 1
        \/ Slash(z, p).end = n
        \/ closes # {} /\ Slash(z, p).end = 1 + close
    BY DEF Slash, T
  <2> HIDE DEF close, closes, n
  <2> QED
    BY <1>1, <2>2, <2>3
<1>4. Minus(z, p).end \in p + 1 .. n
  <2>1. /\ Ch(z, p + 1) = "-" => p + 2 \in 0 .. n
        /\ Ch(z, p + 1) = ">" => p + 2 \in 0 .. n
        /\ Ch(z, p + 1) = ">" /\ Ch(z, p + 2) = ">" => p + 3 \in 0 .. n
    BY <1>1, <1>2
  <2>2. CASE Ch(z, p + 1) = "-"
    <3>1. Minus(z, p).end = Find(z, p + 2, {"LF"})
      BY <2>2 DEF Minus, T
    <3> QED
      BY <1>1, <2>1, <2>2, <3>1, FindFacts
  <2>3. CASE Ch(z, p + 1) = ">"
    BY <1>1, <2>1, <2>3 DEF Minus, T
  <2>4. CASE Ch(z, p + 1) \notin {"-", ">"}
    BY <1>1, <2>4 DEF Minus, T
  <2> QED
    BY <2>2, <2>3, <2>4
<1> QED
  BY <1>3, <1>4

(* An operator has one character, or two that are both in the source.      *)
LEMMA OperatorEnds ==
  ASSUME NEW z \in Text, NEW p \in 0 .. Len(z) - 1
  PROVE  OperatorAt(z, p).end \in p + 1 .. Len(z)
<1> DEFINE pairs == {pair \in Pairs : pair[1] = Ch(z, p) /\ pair[2] = Ch(z, p + 1)}
<1>1. Len(z) \in Nat /\ p \in Nat /\ p < Len(z)
  BY DEF Text
<1>2. pairs # {} => p + 1 < Len(z)
  <2>1. \A pair \in Pairs : pair[2] # "EOI"
    BY DEF Pairs
  <2>2. pairs # {} => Ch(z, p + 1) # "EOI"
    BY <2>1
  <2> QED
    BY <1>1, <2>2, EndOfText
<1>3. OperatorAt(z, p).end = IF pairs = {} THEN p + 1 ELSE p + 2
  BY DEF OperatorAt, T
<1> HIDE DEF pairs
<1> QED
  BY <1>1, <1>2, <1>3

(* Names and keywords have at least one character and end in the source.   *)
LEMMA NameEnds ==
  ASSUME NEW z \in Text, NEW p \in 0 .. Len(z) - 1, NEW flags
  PROVE  /\ Bracketed(z, p).end \in p + 1 .. Len(z)
         /\ Identifier(z, p).end \in p + 1 .. Len(z)
         /\ KeywordOrId(z, p, flags).end \in p + 1 .. Len(z)
<1>1. Len(z) \in Nat /\ p \in Nat /\ p < Len(z) /\ p + 1 \in 0 .. Len(z)
  BY DEF Text
<1>2. \A i \in Nat : Ch(z, i) # "EOI" => i < Len(z)
  BY EndOfText, <1>1
<1>3. Bracketed(z, p).end \in p + 1 .. Len(z)
  BY <1>1, <1>2, FindFacts DEF Bracketed, T
<1>4. Identifier(z, p).end \in p + 1 .. Len(z)
  BY <1>1, PastFacts, NoClassHasEnd DEF Identifier, T
<1>5. KeywordOrId(z, p, flags).end \in p + 1 .. Len(z)
  <2> DEFINE end == Past(z, p + 1, KeywordChars)
  <2>1. end \in p + 1 .. Len(z)
    BY <1>1, PastFacts, NoClassHasEnd
  <2>2. Past(z, end, IdChars) \in end .. Len(z)
    BY <1>1, <2>1, PastFacts, NoClassHasEnd
  <2>3. KeywordOrId(z, p, flags).end \in {end, Past(z, end, IdChars)}
    BY DEF KeywordOrId, finishKeyword, T
  <2> HIDE DEF end
  <2> QED
    BY <1>1, <2>1, <2>2, <2>3
<1> QED
  BY <1>3, <1>4, <1>5

(* A blob ends in the source, also one that is not closed.                 *)
LEMMA BlobEnds ==
  ASSUME NEW z \in Text, NEW p \in 0 .. Len(z) - 1, Ch(z, p + 1) = "'"
  PROVE  Blob(z, p).end \in p + 1 .. Len(z)
<1> DEFINE digits == Past(z, p + 2, XDigits)
           quote == Find(z, digits, {"'"})
<1>1. Len(z) \in Nat /\ p \in Nat /\ p < Len(z)
  BY DEF Text
<1>2. \A i \in Nat : Ch(z, i) # "EOI" => i < Len(z)
  BY EndOfText, <1>1
<1>3. p + 2 \in 0 .. Len(z)
  BY <1>1, <1>2
<1>4. digits \in p + 2 .. Len(z)
  BY <1>1, <1>3, PastFacts, NoClassHasEnd
<1>5. quote \in digits .. Len(z)
  BY <1>1, <1>4, FindFacts
<1>6. Blob(z, p).end = IF Ch(z, quote) = "EOI" THEN quote ELSE quote + 1
  BY DEF Blob, T
<1> HIDE DEF digits, quote
<1> QED
  BY <1>1, <1>2, <1>4, <1>5, <1>6

(* The parts of a number together. *)
FractionTo(z, p, sep) == FractionFrom(z, p, sep, WholeTo(z, p, sep))
NumberTo(z, p, sep)   == PowerFrom(z, p, sep, FractionTo(z, p, sep))
NumberType(z, p, sep) ==
  LET whole    == WholeTo(z, p, sep)
      fraction == FractionTo(z, p, sep)
      number   == NumberTo(z, p, sep)
  IN  IF Past(z, number, IdChars) > number THEN "ILLEGAL"
      ELSE IF \/ QuotedIn(z, p, sep, StartOf(z, p), whole) \/ QuotedIn(z, p, sep, whole + 1, fraction)
              \/ QuotedIn(z, p, sep, fraction + 2, number)
      THEN "QNUMBER"
      ELSE IF number > whole THEN "FLOAT" ELSE "INTEGER"

(* They make up the number.                                                *)
LEMMA NumberFacts ==
  ASSUME NEW z, NEW p, NEW sep
  PROVE  scanNumber(z, p, sep) = T(NumberType(z, p, sep), Past(z, NumberTo(z, p, sep), IdChars))
  BY DEF scanNumber, NumberType, NumberTo, FractionTo

(* They follow each other in the source, and the number is not empty,      *)
(* whatever it has of a fraction, an exponent and separators.  A           *)
(* hexadecimal is never looked at again as a decimal: 0x has a digit       *)
(* before it.                                                              *)
LEMMA NumberOrder ==
  ASSUME NEW z \in Text, NEW p \in 0 .. Len(z) - 1, NEW sep, sep # "EOI",
         Ch(z, p) \in Digits \/ (Ch(z, p) = "." /\ Ch(z, p + 1) \in Digits)
  PROVE  LET whole    == WholeTo(z, p, sep)
             fraction == FractionTo(z, p, sep)
             number   == NumberTo(z, p, sep)
         IN  /\ StartOf(z, p) \in p .. whole /\ whole \in p .. Len(z)
             /\ fraction \in whole .. Len(z) /\ fraction > p
             /\ number \in fraction .. Len(z)
             /\ PowerAt(z, p, fraction) => fraction + 2 <= number
<1> DEFINE n == Len(z)
           seps == SepSet(sep)
           whole == WholeTo(z, p, sep)
           fraction == FractionTo(z, p, sep)
           number == NumberTo(z, p, sep)
<1>1. n \in Nat /\ p \in Nat /\ p < n
  BY DEF Text
<1>2. \A i \in Nat : Ch(z, i) # "EOI" => i < n
  BY EndOfText, <1>1
<1>3. "EOI" \notin Digits \cup seps /\ "EOI" \notin DigitsOf(z, p) \cup seps
      /\ "EOI" \notin XDigits
  BY NoClassHasEnd DEF SepSet, DigitsOf
<1> HIDE DEF n, seps
<1>past. ASSUME NEW i \in 0 .. n, NEW chars, "EOI" \notin chars
         PROVE  /\ Past(z, i, chars) \in i .. n
                /\ Ch(z, i) \in chars => Past(z, i, chars) > i
  BY <1>past, PastFacts DEF n
<1>4. StartOf(z, p) \in p .. whole /\ whole \in p .. n /\ (whole = p => Ch(z, p) = ".")
      /\ (IsHex(z, p) => whole > p)
  <2>1. CASE Ch(z, p) = "."
    <3>1. ~IsHex(z, p)
      BY <2>1 DEF IsHex
    <3>2. whole = p /\ StartOf(z, p) = p
      BY <2>1, <3>1 DEF WholeTo, StartOf
    <3> QED
      BY <1>1, <2>1, <3>1, <3>2
  <2>2. CASE Ch(z, p) # "."
    <3> DEFINE start == StartOf(z, p)
    <3>1. whole = Past(z, start, DigitsOf(z, p) \cup seps) /\ Ch(z, p) \in Digits
      BY <2>2 DEF WholeTo, seps
    <3>2. IsHex(z, p) => p + 2 < n /\ start = p + 3
      BY <1>1, <1>2, <1>3 DEF IsHex, StartOf
    <3>3. ~IsHex(z, p) => start = p /\ Ch(z, p) \in DigitsOf(z, p)
      BY <3>1 DEF StartOf, DigitsOf
    <3> HIDE DEF start
    <3>4. start \in 0 .. n /\ start >= p /\ (IsHex(z, p) => start > p)
      BY <1>1, <3>2, <3>3
    <3>5. whole \in start .. n /\ (Ch(z, start) \in DigitsOf(z, p) => whole > start)
      BY <1>3, <1>past, <3>1, <3>4
    <3> HIDE DEF whole
    <3>6. whole > p
      BY <1>1, <3>3, <3>4, <3>5
    <3> QED
      BY <1>1, <3>4, <3>5, <3>6 DEF start
  <2> QED
    BY <2>1, <2>2
<1> HIDE DEF whole
<1>5. fraction \in whole .. n /\ fraction > p
  <2>1. CASE ~IsHex(z, p) /\ Ch(z, whole) = "."
    <3>1. whole + 1 \in 0 .. n
      BY <1>1, <1>2, <1>4, <2>1
    <3>2. Past(z, whole + 1, Digits \cup seps) \in whole + 1 .. n
      BY <1>3, <1>past, <3>1
    <3>3. fraction = Past(z, whole + 1, Digits \cup seps)
      BY <2>1 DEF FractionTo, FractionFrom, whole, seps
    <3> HIDE DEF fraction
    <3> QED
      BY <1>1, <1>4, <3>2, <3>3
  <2>2. CASE ~(~IsHex(z, p) /\ Ch(z, whole) = ".")
    <3>1. fraction = whole
      BY <2>2 DEF FractionTo, FractionFrom, whole
    <3>2. whole # p
      BY <1>4, <2>2
    <3> HIDE DEF fraction
    <3> QED
      BY <1>1, <1>4, <3>1, <3>2
  <2> QED
    BY <2>1, <2>2
<1> HIDE DEF fraction
<1>6. number \in fraction .. n /\ (PowerAt(z, p, fraction) => fraction + 2 <= number)
  <2>1. CASE PowerAt(z, p, fraction)
    <3>1. fraction + 2 \in 0 .. n
      <4>1. Ch(z, fraction + 1) # "EOI"
        BY <2>1, NoClassHasEnd DEF PowerAt
      <4> QED
        BY <1>1, <1>2, <1>4, <1>5, <4>1
    <3>2. Past(z, fraction + 2, Digits \cup seps) \in fraction + 2 .. n
      BY <1>3, <1>past, <3>1
    <3>3. number = Past(z, fraction + 2, Digits \cup seps)
      BY <2>1 DEF NumberTo, PowerFrom, fraction, seps
    <3> HIDE DEF number
    <3> QED
      BY <1>1, <1>4, <1>5, <3>2, <3>3
  <2>2. CASE ~PowerAt(z, p, fraction)
    <3>1. number = fraction
      BY <2>2 DEF NumberTo, PowerFrom, fraction
    <3> QED
      BY <1>1, <1>4, <1>5, <2>2, <3>1
  <2> QED
    BY <2>1, <2>2
<1> QED
  BY <1>4, <1>5, <1>6 DEF n, whole, fraction

(* A number has at least one character and ends in the source.             *)
LEMMA NumberEnds ==
  ASSUME NEW z \in Text, NEW p \in 0 .. Len(z) - 1, NEW sep, sep # "EOI",
         Ch(z, p) \in Digits \/ (Ch(z, p) = "." /\ Ch(z, p + 1) \in Digits)
  PROVE  scanNumber(z, p, sep).end \in p + 1 .. Len(z)
<1> DEFINE number == NumberTo(z, p, sep)
           fraction == FractionTo(z, p, sep)
           whole == WholeTo(z, p, sep)
<1>1. Len(z) \in Nat /\ p \in Nat /\ p < Len(z)
  BY DEF Text
<1>2. /\ whole \in p .. Len(z) /\ fraction \in whole .. Len(z) /\ fraction > p
      /\ number \in fraction .. Len(z)
  BY NumberOrder
<1>3. scanNumber(z, p, sep).end = Past(z, number, IdChars)
  BY NumberFacts DEF T
<1> HIDE DEF number, fraction, whole
<1>4. number \in 0 .. Len(z) /\ number > p
  BY <1>1, <1>2
<1>5. Past(z, number, IdChars) \in number .. Len(z)
  BY <1>4, PastFacts, NoClassHasEnd
<1> QED
  BY <1>1, <1>3, <1>4, <1>5

-----------------------------------------------------------------------------

(* The scanner takes at least one character, and only what is there.       *)
Goes(token, z, p) == token.end \in p + 1 .. Len(z)

(* nextToken goes forward at every character but NUL, and there it stays.  *)
LEMMA ScanAdvances ==
  ASSUME NEW z \in Text, NEW p \in 0 .. Len(z) - 1, NEW sep, sep # "EOI", NEW flags
  PROVE  \/ Goes(nextToken(z, p, sep, flags), z, p)
         \/ nextToken(z, p, sep, flags) = T("ILLEGAL", p) /\ Ch(z, p) = "NUL"
<1> DEFINE token == nextToken(z, p, sep, flags)
           class == classAt(z, p)
<1>1. Len(z) \in Nat /\ p \in Nat /\ p < Len(z) /\ Ch(z, p) # "EOI" /\ p + 1 \in 0 .. Len(z)
  BY EndOfText DEF Text
<1>2. \A i \in Nat : Ch(z, i) # "EOI" => i < Len(z)
  BY EndOfText, <1>1
<1>3. class \in Classes
  BY ClassFacts DEF classAt
<1>4. CASE class = "SPACE"
  <2>1. token.end = Past(z, p + 1, Space)
    BY <1>4 DEF nextToken, T
  <2> QED
    BY <1>1, <2>1, PastFacts, NoClassHasEnd DEF Goes
<1>5. CASE class = "MINUS"
  <2>1. token = Minus(z, p)
    BY <1>5 DEF nextToken
  <2> QED
    BY <2>1, CommentEnds DEF Goes
<1>6. CASE class = "SLASH"
  <2>1. token = Slash(z, p)
    BY <1>6 DEF nextToken
  <2> QED
    BY <2>1, CommentEnds DEF Goes
<1>7. CASE class = "OPERATOR"
  <2>1. token = OperatorAt(z, p)
    BY <1>7 DEF nextToken
  <2> QED
    BY <2>1, OperatorEnds DEF Goes
<1>8. CASE class = "QUOTE"
  <2>1. token = Quoted(z, p)
    BY <1>8 DEF nextToken
  <2> QED
    BY <2>1, QuotedEnds DEF Goes
<1>9. CASE class = "QUOTE2"
  <2>1. token = Bracketed(z, p)
    BY <1>9 DEF nextToken
  <2> QED
    BY <2>1, NameEnds DEF Goes
<1>10. CASE class = "DOT" /\ Ch(z, p + 1) \notin Digits
  <2>1. token.end = p + 1
    BY <1>10 DEF nextToken, T
  <2> QED
    BY <1>1, <2>1 DEF Goes
<1>11. CASE class = "DIGIT" \/ (class = "DOT" /\ Ch(z, p + 1) \in Digits)
  <2>1. token = scanNumber(z, p, sep)
    BY <1>11 DEF nextToken
  <2>2. Ch(z, p) \in Digits \/ (Ch(z, p) = "." /\ Ch(z, p + 1) \in Digits)
    BY <1>11, ClassFacts DEF classAt
  <2> QED
    BY <2>1, <2>2, NumberEnds DEF Goes
<1>12. CASE class = "VARNUM"
  <2>1. token.end = Past(z, p + 1, Digits)
    BY <1>12 DEF nextToken, T
  <2> QED
    BY <1>1, <2>1, PastFacts, NoClassHasEnd DEF Goes
<1>13. CASE class \in {"DOLLAR", "VARALPHA"}
  <2>1. token = Variable(z, p)
    BY <1>13 DEF nextToken
  <2> QED
    BY <2>1, VariableEnds DEF Goes
<1>14. CASE class = "KYWD0"
  <2>1. token = KeywordOrId(z, p, flags)
    BY <1>14 DEF nextToken
  <2> QED
    BY <2>1, NameEnds DEF Goes
<1>15. CASE class = "X" /\ Ch(z, p + 1) = "'"
  <2>1. token = Blob(z, p)
    BY <1>15 DEF nextToken
  <2> QED
    BY <1>15, <2>1, BlobEnds DEF Goes
<1>16. CASE class = "BOM" /\ Ch(z, p + 1) = "BB" /\ Ch(z, p + 2) = "BF"
  <2>1. token.end = p + 3
    BY <1>16 DEF nextToken, T
  <2> QED
    BY <1>1, <1>2, <1>16, <2>1 DEF Goes
<1>17. CASE \/ class \in {"KYWD", "ID"} \/ (class = "X" /\ Ch(z, p + 1) # "'")
            \/ (class = "BOM" /\ (Ch(z, p + 1) # "BB" \/ Ch(z, p + 2) # "BF"))
  <2>1. token = Identifier(z, p)
    BY <1>17 DEF nextToken
  <2> QED
    BY <2>1, NameEnds DEF Goes
<1>18. CASE class = "NUL"
  <2>1. token = T("ILLEGAL", p)
    BY <1>18 DEF nextToken
  <2> QED
    BY <1>1, <1>18, <2>1, ClassFacts DEF classAt
<1>19. CASE class = "ILLEGAL"
  <2>1. token.end = p + 1
    BY <1>19 DEF nextToken, Illegal, T
  <2> QED
    BY <1>1, <2>1 DEF Goes
<1> QED
  BY <1>3, <1>4, <1>5, <1>6, <1>7, <1>8, <1>9, <1>10, <1>11, <1>12, <1>13, <1>14, <1>15, <1>16,
     <1>17, <1>18, <1>19 DEF Classes

(* What tokenize is called with, as InputsAssumption has it.               *)
Request == [source : Seq(STRING \ {"EOI"}), emitTrivia : BOOLEAN,
            digitSep : STRING \ {"EOI"}, flags : SUBSET DOMAIN maskFlags]

(* The source of a request is a text.                                      *)
LEMMA RequestText ==
  ASSUME NEW sql \in Request
  PROVE  /\ sql.source \in Text /\ Len(sql.source) \in Nat
         /\ sql.digitSep # "EOI"
<1>1. sql.source \in Seq(STRING \ {"EOI"}) /\ sql.digitSep # "EOI"
  BY DEF Request
<1>2. STRING \ {"EOI"} \subseteq Characters
  BY DEF Characters
<1>3. sql.source \in Text
  BY <1>1, <1>2, SeqMonotonic DEF Text
<1> QED
  BY <1>1, <1>3 DEF Text

(* ScanAdvances for a request, as the loop of TokenStreamImpl.next needs   *)
(* it: trivia are never empty, and an empty token means NUL.               *)
LEMMA ScanFacts ==
  ASSUME NEW sql \in Request, NEW p \in 0 .. Len(sql.source) - 1
  PROVE  /\ Scan(sql, p).end \in p .. Len(sql.source)
         /\ Scan(sql, p).type \in Trivia => Scan(sql, p).end \in p + 1 .. Len(sql.source)
         /\ Scan(sql, p).end = p => Ch(sql.source, p) = "NUL"
<1>1. sql.source \in Text /\ sql.digitSep # "EOI" /\ Len(sql.source) \in Nat /\ p \in Nat /\ p < Len(sql.source)
  BY RequestText
<1>2. CASE Goes(Scan(sql, p), sql.source, p)
  BY <1>1, <1>2 DEF Goes
<1>3. CASE Scan(sql, p) = T("ILLEGAL", p) /\ Ch(sql.source, p) = "NUL"
  BY <1>1, <1>3 DEF T, Trivia
<1> QED
  BY <1>1, <1>2, <1>3, ScanAdvances DEF Scan
-----------------------------------------------------------------------------
(* The last of some positions.                                             *)
LastOf(S) == CHOOSE i \in S : \A j \in S : j <= i

(* A bounded set of positions has a last one, and no other.                *)
LEMMA LastFacts ==
  ASSUME NEW n \in Nat, NEW S, S \subseteq 0 .. n, S # {}
  PROVE  /\ LastOf(S) \in S
         /\ \A m \in S : (\A j \in S : j <= m) => m = LastOf(S)
<1>1. \E m \in S : \A k \in S : k <= m
  BY GreatestOf
<1>2. LastOf(S) \in S /\ \A j \in S : j <= LastOf(S)
  BY <1>1 DEF LastOf
<1>3. ASSUME NEW m \in S, \A j \in S : j <= m
      PROVE  m = LastOf(S)
  <2>1. m \in 0 .. n /\ LastOf(S) \in 0 .. n
    BY <1>2, <1>3
  <2>2. m <= LastOf(S) /\ LastOf(S) <= m
    BY <1>2, <1>3
  <2> QED
    BY <2>1, <2>2
<1> QED
  BY <1>2, <1>3

(* Advance leads to the end of the token.                                  *)
LEMMA AdvanceFacts ==
  ASSUME NEW z, NEW from \in Cursor, NEW end \in Nat, from.offset <= end
  PROVE  Advance(z, from, end) \in Cursor /\ Advance(z, from, end).offset = end
<1> DEFINE breaks == {i \in from.offset .. end - 1 : Ch(z, i) = "LF"}
<1>1. from.offset \in Nat /\ from.line \in Nat /\ from.col \in Nat
  BY DEF Cursor
<1>2. CASE breaks = {}
  <2>1. Advance(z, from, end) = [from EXCEPT !.offset = end, !.col = @ + end - from.offset]
    BY <1>2 DEF Advance
  <2> HIDE DEF breaks
  <2>2. from.col + end - from.offset \in Nat
    BY <1>1
  <2> QED
    BY <2>1, <2>2 DEF Cursor
<1>3. CASE breaks # {}
  <2>1. breaks \subseteq 0 .. end /\ IsFiniteSet(breaks)
    <3>1. breaks \subseteq 0 .. end
      BY <1>1
    <3>2. IsFiniteSet(0 .. end)
      BY FS_Interval
    <3> HIDE DEF breaks
    <3> QED
      BY <3>1, <3>2, FS_Subset
  <2>2. Cardinality(breaks) \in Nat
    BY <2>1, FS_CardinalityType
  <2>3. LastOf(breaks) \in breaks
    <3> HIDE DEF breaks
    <3> QED
      BY <1>3, <2>1, LastFacts
  <2>4. LastOf(breaks) \in Nat /\ LastOf(breaks) <= end - 1
    BY <1>1, <2>3
  <2>5. Advance(z, from, end) =
          [offset |-> end, line |-> from.line + Cardinality(breaks), col |-> end - 1 - LastOf(breaks)]
    BY <1>3 DEF Advance, LastOf
  <2> HIDE DEF breaks
  <2>6. end - 1 - LastOf(breaks) \in Nat /\ from.line + Cardinality(breaks) \in Nat
    BY <1>1, <2>2, <2>4
  <2> QED
    BY <2>5, <2>6 DEF Cursor
<1> QED
  BY <1>2, <1>3

(* Advance keeps line and column those of the offset, however many line    *)
(* breaks there are between: the ones before the token and the ones in it  *)
(* are all there are.                                                      *)
LEMMA LocatedFacts ==
  ASSUME NEW z, NEW a \in Nat, NEW b \in Nat, a <= b
  PROVE  Advance(z, LineColAt(z, a), b) = LineColAt(z, b)
<1> DEFINE A == {i \in 0 .. a - 1 : Ch(z, i) = "LF"}
           B == {i \in a .. b - 1 : Ch(z, i) = "LF"}
           D == {i \in 0 .. b - 1 : Ch(z, i) = "LF"}
           from == LineColAt(z, a)
<1>1. D = A \cup B /\ A \cap B = {} /\ A \subseteq 0 .. b /\ B \subseteq 0 .. b
      /\ \A i \in A, j \in B : i <= j
  OBVIOUS
<1>2. /\ from.offset = a /\ from.line = 1 + Cardinality(A)
      /\ from.col = IF A = {} THEN a ELSE a - 1 - LastOf(A)
  BY DEF LineColAt, LastOf
<1>3. from = [offset |-> a, line |-> 1 + Cardinality(A), col |-> IF A = {} THEN a ELSE a - 1 - LastOf(A)]
  BY DEF LineColAt, LastOf
<1>4. LineColAt(z, b) =
        [offset |-> b, line |-> 1 + Cardinality(D), col |-> IF D = {} THEN b ELSE b - 1 - LastOf(D)]
  BY DEF LineColAt, LastOf
<1>5. Advance(z, from, b) =
        IF B = {} THEN [from EXCEPT !.offset = b, !.col = @ + b - a]
        ELSE [offset |-> b, line |-> from.line + Cardinality(B), col |-> b - 1 - LastOf(B)]
  BY <1>2 DEF Advance, LastOf
<1> HIDE DEF A, B, D, from
<1>last. ASSUME NEW S, S \subseteq 0 .. b, S # {}
         PROVE  LastOf(S) \in S /\ LastOf(S) \in Nat /\ \A m \in S : (\A j \in S : j <= m) => m = LastOf(S)
  <2>1. /\ LastOf(S) \in S
        /\ \A m \in S : (\A j \in S : j <= m) => m = LastOf(S)
    BY <1>last, LastFacts
  <2>2. LastOf(S) \in 0 .. b
    BY <1>last, <2>1
  <2> QED
    BY <2>1, <2>2
<1>6. CASE B = {}
  <2>1. D = A
    BY <1>1, <1>6
  <2>2. A # {} => LastOf(A) \in Nat
    BY <1>1, <1>last
  <2>3. from.col + b - a = IF A = {} THEN b ELSE b - 1 - LastOf(A)
    BY <1>2, <2>2
  <2>4. Advance(z, from, b) = [offset |-> b, line |-> from.line, col |-> from.col + b - a]
    BY <1>3, <1>5, <1>6
  <2> QED
    BY <1>2, <1>4, <2>1, <2>3, <2>4 DEF from
<1>7. CASE B # {}
  <2>1. IsFiniteSet(A) /\ IsFiniteSet(B)
    <3>1. IsFiniteSet(0 .. b)
      BY FS_Interval
    <3> QED
      BY <1>1, <3>1, FS_Subset
  <2>2. Cardinality(A) \in Nat /\ Cardinality(B) \in Nat /\ Cardinality(A \cap B) = 0
    BY <1>1, <2>1, FS_CardinalityType, FS_EmptySet
  <2>3. Cardinality(D) = Cardinality(A) + Cardinality(B)
    <3>1. Cardinality(A \cup B) = Cardinality(A) + Cardinality(B) - Cardinality(A \cap B)
      BY <2>1, FS_Union
    <3> QED
      BY <1>1, <2>2, <3>1
  <2>4. LastOf(B) \in B /\ LastOf(B) \in D /\ \A j \in B : j <= LastOf(B)
    <3>1. \E m \in B : \A k \in B : k <= m
      BY <1>1, <1>7, GreatestOf
    <3> QED
      BY <1>1, <3>1 DEF LastOf
  <2>5. \A j \in D : j <= LastOf(B)
    BY <1>1, <2>4
  <2>6. LastOf(B) = LastOf(D)
    <3>1. D \subseteq 0 .. b /\ D # {}
      BY <1>1, <1>7
    <3> QED
      BY <2>4, <2>5, <3>1, <1>last
  <2>7. from.line + Cardinality(B) = 1 + Cardinality(D)
    BY <1>2, <2>2, <2>3
  <2> QED
    BY <1>4, <1>5, <1>7, <2>4, <2>6, <2>7 DEF from
<1> QED
  BY <1>6, <1>7 DEF from
-----------------------------------------------------------------------------

(* OnlyTrivia follows its recursive definition: nothing is trivia only,    *)
(* and what is trivia only is so with a trivia token before it.            *)
LEMMA TriviaFacts ==
  ASSUME NEW sql, NEW to \in Nat
  PROVE  /\ OnlyTrivia(sql, to, to)
         /\ \A p \in 0 .. to : /\ p # to /\ Scan(sql, p).type \in Trivia
                              /\ Scan(sql, p).end \in p + 1 .. to
                              /\ OnlyTrivia(sql, Scan(sql, p).end, to)
                              => OnlyTrivia(sql, p, to)
<1> DEFINE S == 0 .. to
           C == {p \in S : /\ p # to /\ Scan(sql, p).type \in Trivia
                           /\ Scan(sql, p).end \in p + 1 .. to}
           step == [p \in S |-> IF p \in C THEN Scan(sql, p).end ELSE p]
           result == [p \in S |-> p = to]
           measure == [p \in S |-> to - p]
           Recurs(f) == f = [p \in S |->
                              IF /\ p # to /\ Scan(sql, p).type \in Trivia
                                 /\ Scan(sql, p).end \in p + 1 .. to
                              THEN f[Scan(sql, p).end] ELSE p = to]
           only == CHOOSE f : Recurs(f)
<1>1. Terminates(S, C, step, measure, to) /\ result \in [S -> BOOLEAN]
  <2>1. \A p \in C : p \in S /\ step[p] = Scan(sql, p).end /\ step[p] \in S /\ p < step[p]
    OBVIOUS
  <2>2. step \in [S -> S]
    BY <2>1
  <2>3. measure \in [S -> 0 .. to]
    OBVIOUS
  <2>4. \A p \in C : measure[step[p]] < measure[p]
    <3> HIDE DEF C, step
    <3> QED
      BY <2>1
  <2>5. C \subseteq S /\ result \in [S -> BOOLEAN]
    OBVIOUS
  <2> HIDE DEF S, C, step, measure, result
  <2> QED
    BY <2>2, <2>3, <2>4, <2>5 DEF Terminates
<1>2. Recurs(only)
  <2>1. PICK f : f \in [S -> BOOLEAN] /\ Loops(f, S, C, step, result)
    <3> HIDE DEF S, C, step, measure, result
    <3> QED
      BY <1>1, LoopDefined
  <2>2. \A p \in S : f[p] = IF p \in C THEN f[Scan(sql, p).end] ELSE p = to
    BY <2>1 DEF Loops
  <2>3. Recurs(f)
    BY <2>1, <2>2
  <2> HIDE DEF Recurs
  <2> QED
    BY <2>3
<1>3. \A from : OnlyTrivia(sql, from, to) <=> from \in S /\ only[from]
  BY DEF OnlyTrivia
<1> HIDE DEF only
<1>4. only[to] = (to = to)
  BY <1>2
<1>5. \A p \in C : only[p] = only[Scan(sql, p).end]
  BY <1>2
<1>6. to \in S
  OBVIOUS
<1> QED
  BY <1>3, <1>4, <1>5, <1>6

(* What the loop over trivia in TokenStreamImpl.next does to the cursor.   *)
Skipped(sql, from, at) ==
  /\ at \in Cursor /\ at.offset \in from.offset .. Len(sql.source)
  /\ sql.emitTrivia => at = from
  /\ from = LineColAt(sql.source, from.offset) => at = LineColAt(sql.source, at.offset)
  /\ OnlyTrivia(sql, from.offset, at.offset)

(* SkipTrivia does so from any cursor in the source. It is a recursive     *)
(* function over cursors; trivia tokens are not empty, which bounds it.    *)
LEMMA SkipFacts ==
  ASSUME NEW sql \in Request, NEW from \in Cursor, from.offset <= Len(sql.source)
  PROVE  Skipped(sql, from, SkipTrivia(sql, from))
<1> DEFINE n == Len(sql.source)
           cond(c) == c.offset < n /\ ~sql.emitTrivia /\ Scan(sql, c.offset).type \in Trivia
           after(c) == Advance(sql.source, c, Scan(sql, c.offset).end)
           C == {c \in Cursor : cond(c)}
           step == [c \in Cursor |-> IF c \in C THEN after(c) ELSE c]
           result == [c \in Cursor |-> c]
           measure == [c \in Cursor |-> IF c.offset < n THEN n - c.offset ELSE 0]
           Recurs(f) == f = [c \in Cursor |->
                              IF /\ c.offset < Len(sql.source) /\ ~sql.emitTrivia
                                 /\ Scan(sql, c.offset).type \in Trivia
                              THEN f[Advance(sql.source, c, Scan(sql, c.offset).end)] ELSE c]
           skip == CHOOSE f : Recurs(f)
<1>1. n \in Nat /\ sql.emitTrivia \in BOOLEAN
  BY DEF Request
<1>2. \A c \in Cursor : c.offset \in Nat
  BY DEF Cursor
<1>3. ASSUME NEW c \in C
      PROVE  /\ c \in Cursor /\ c.offset < n /\ ~sql.emitTrivia /\ Scan(sql, c.offset).type \in Trivia
             /\ step[c] = after(c) /\ step[c] \in Cursor /\ step[c].offset = Scan(sql, c.offset).end
             /\ step[c].offset \in c.offset + 1 .. n
  <2>1. c \in Cursor /\ c.offset < n /\ ~sql.emitTrivia /\ Scan(sql, c.offset).type \in Trivia
        /\ step[c] = after(c)
    OBVIOUS
  <2> HIDE DEF C, step
  <2>2. c.offset \in 0 .. n - 1
    BY <1>1, <1>2, <2>1
  <2>3. Scan(sql, c.offset).end \in c.offset + 1 .. n
    BY <2>1, <2>2, ScanFacts
  <2>4. Scan(sql, c.offset).end \in Nat /\ c.offset <= Scan(sql, c.offset).end
    BY <1>1, <2>2, <2>3
  <2>5. after(c) \in Cursor /\ after(c).offset = Scan(sql, c.offset).end
    BY <2>1, <2>4, AdvanceFacts
  <2> QED
    BY <2>1, <2>3, <2>5
<1> HIDE DEF n
<1>4. Terminates(Cursor, C, step, measure, n) /\ result \in [Cursor -> Cursor]
  <2>1. step \in [Cursor -> Cursor]
    <3>1. \A c \in C : after(c) \in Cursor
      BY <1>3
    <3> HIDE DEF C
    <3> QED
      BY <3>1
  <2>2. measure \in [Cursor -> 0 .. n]
    BY <1>1, <1>2
  <2>3. \A c \in C : measure[step[c]] < measure[c]
    <3> HIDE DEF C, step
    <3> QED
      BY <1>1, <1>2, <1>3
  <2>4. C \subseteq Cursor /\ result \in [Cursor -> Cursor]
    OBVIOUS
  <2> HIDE DEF C, step, measure, result
  <2> QED
    BY <1>1, <2>1, <2>2, <2>3, <2>4 DEF Terminates
<1>5. Recurs(skip)
  <2>1. PICK f : f \in [Cursor -> Cursor] /\ Loops(f, Cursor, C, step, result)
    <3> HIDE DEF C, step, measure, result
    <3> QED
      BY <1>4, LoopDefined
  <2>2. \A c \in Cursor : f[c] = IF cond(c) THEN f[after(c)] ELSE c
    BY <2>1 DEF Loops
  <2>3. Recurs(f)
    BY <2>1, <2>2 DEF n
  <2> HIDE DEF Recurs
  <2> QED
    BY <2>3
<1>6. SkipTrivia(sql, from) = skip[from]
  BY DEF SkipTrivia
<1> HIDE DEF skip
<1>7. \A c \in Cursor : skip[c] = IF c \in C THEN skip[after(c)] ELSE c
  BY <1>5 DEF n
<1> DEFINE P == {c \in Cursor : c.offset <= n => Skipped(sql, c, skip[c])}
<1>8. ASSUME NEW c \in Cursor, c \notin C
      PROVE  c \in P
  <2>1. skip[c] = c
    BY <1>7, <1>8
  <2>2. c.offset <= n => Skipped(sql, c, c)
    BY <1>1, <1>2, TriviaFacts DEF Skipped, n
  <2> QED
    BY <2>1, <2>2
<1>9. ASSUME NEW c \in C, step[c] \in P
      PROVE  c \in P
  <2> DEFINE d == step[c]
             at == skip[d]
  <2>1. /\ c \in Cursor /\ c.offset < n /\ ~sql.emitTrivia /\ Scan(sql, c.offset).type \in Trivia
        /\ d = after(c) /\ d \in Cursor /\ d.offset = Scan(sql, c.offset).end
        /\ d.offset \in c.offset + 1 .. n
    BY <1>3
  <2>2. skip[c] = at
    <3> HIDE DEF step
    <3> QED
      BY <1>7, <2>1
  <2> HIDE DEF d
  <2>3. Skipped(sql, d, at)
    <3> HIDE DEF C, step
    <3> QED
      BY <1>1, <1>2, <1>9, <2>1 DEF d
  <2> HIDE DEF at, C, P, step
  <2>4. c.offset \in Nat /\ at \in Cursor /\ at.offset \in Nat /\ at.offset \in d.offset .. n
    BY <1>2, <2>1, <2>3 DEF Skipped, n
  <2>5. at.offset \in c.offset .. n /\ c.offset \in 0 .. at.offset /\ c.offset # at.offset
        /\ d.offset \in c.offset + 1 .. at.offset
    BY <1>1, <2>1, <2>4
  <2>6. c = LineColAt(sql.source, c.offset) => d = LineColAt(sql.source, d.offset)
    <3>1. d.offset \in Nat /\ c.offset <= d.offset
      BY <1>2, <2>1, <2>4
    <3> QED
      BY <2>1, <2>4, <3>1, LocatedFacts
  <2>7. OnlyTrivia(sql, c.offset, at.offset)
    BY <2>1, <2>3, <2>4, <2>5, TriviaFacts DEF Skipped
  <2>8. Skipped(sql, c, at)
    BY <2>1, <2>3, <2>4, <2>5, <2>6, <2>7 DEF Skipped, n
  <2> QED
    BY <2>1, <2>2, <2>8 DEF P
<1>10. \A c \in Cursor : c \in P
  <2>1. P \in SUBSET Cursor
    OBVIOUS
  <2> HIDE DEF C, P, step, measure
  <2> QED
    BY <1>4, <1>8, <1>9, <2>1, LoopInduction
<1> QED
  BY <1>6, <1>10 DEF n
-----------------------------------------------------------------------------

(* Where a token ends, and the source before the first one.                *)
EndOf(tokens, i) == IF i = 0 THEN 0 ELSE tokens[i].span.offset + tokens[i].span.length

(* The types of the stream's state.                                        *)
StreamOK ==
  /\ input \in Inputs /\ done \in BOOLEAN
  /\ cursor \in Cursor /\ cursor.offset <= Len(input.source)
  /\ \E S : emitted \in Seq(S)
(* The next token is searched from where the last one ended.               *)
InStep == ~done => cursor.offset = EndOf(emitted, Len(emitted))

StreamInv == StreamOK /\ InStep /\ TokensTile /\ CursorLocated

(* What InputsAssumption says of the stream's input.                       *)
LEMMA InputFacts ==
  ASSUME input \in Inputs
  PROVE  input \in Request /\ Len(input.source) \in Nat
<1>1. input \in Request
  BY InputsAssumption DEF Request
<1> QED
  BY <1>1 DEF Request

(* It holds before the first token.                                        *)
LEMMA StartsTiled ==
  ASSUME StreamInit
  PROVE  StreamInv
<1>1. /\ input \in Inputs /\ cursor = Start /\ emitted = <<>> /\ done = FALSE
      /\ Len(input.source) \in Nat /\ Len(emitted) = 0
  BY InputFacts DEF StreamInit
<1>2. Start \in Cursor /\ Start.offset = 0
  BY DEF Start, Cursor
<1>3. StreamOK
  <2>1. <<>> \in Seq({})
    OBVIOUS
  <2>2. \E S : emitted \in Seq(S)
    BY <1>1, <2>1
  <2>3. cursor \in Cursor /\ cursor.offset <= Len(input.source)
    BY <1>1, <1>2
  <2> QED
    BY <1>1, <2>2, <2>3 DEF StreamOK
<1>4. InStep
  BY <1>1, <1>2 DEF InStep, EndOf
<1>5. TokensTile
  <2>1. OnlyTrivia(input, 0, 0)
    BY TriviaFacts
  <2> QED
    BY <1>1, <1>2, <2>1 DEF TokensTile, OnlyNulStops
<1>6. CursorLocated
  <2>1. {i \in 0 .. 0 - 1 : Ch(input.source, i) = "LF"} = {}
    OBVIOUS
  <2>2. Cardinality({}) = 0
    BY FS_EmptySet
  <2>3. LineColAt(input.source, 0) = Start
    BY <2>1, <2>2 DEF LineColAt, Start
  <2> QED
    BY <1>1, <1>2, <2>3 DEF CursorLocated
<1> QED
  BY <1>3, <1>4, <1>5, <1>6 DEF StreamInv

(* Where the gap after a token ends.                                       *)
TokenAfter(i) == IF i = Len(emitted) THEN cursor.offset ELSE emitted[i + 1].span.offset

(* TokensTile for one gap.                                                 *)
LEMMA TileFacts ==
  ASSUME TokensTile, NEW i \in 0 .. Len(emitted)
  PROVE  IF input.emitTrivia THEN EndOf(emitted, i) = TokenAfter(i)
         ELSE OnlyTrivia(input, EndOf(emitted, i), TokenAfter(i))
  BY DEF TokensTile, EndOf, TokenAfter

(* Skipping trivia keeps the cursor located, and passes only trivia.       *)
LEMMA SkipKeeps ==
  ASSUME StreamInv
  PROVE  LET at == SkipTrivia(input, cursor)
         IN  /\ at \in Cursor /\ at.offset \in cursor.offset .. Len(input.source)
             /\ input.emitTrivia => at = cursor
             /\ at = LineColAt(input.source, at.offset)
             /\ OnlyTrivia(input, cursor.offset, at.offset)
<1>1. input \in Request /\ cursor \in Cursor /\ cursor.offset <= Len(input.source)
      /\ cursor = LineColAt(input.source, cursor.offset)
  BY InputFacts DEF StreamInv, StreamOK, CursorLocated
<1> QED
  BY <1>1, SkipFacts DEF Skipped

(* A call of next that returns a token keeps the invariant: the new token  *)
(* adds a gap that ends where it starts, and the cursor moves to its end.  *)
LEMMA TokenTiles ==
  ASSUME StreamInv, NextToken
  PROVE  StreamInv'
<1> DEFINE at == SkipTrivia(input, cursor)
           scanned == Scan(input, at.offset)
           token == [type |-> scanned.type,
                     text |-> SubSeq(input.source, at.offset + 1, scanned.end),
                     span |-> [offset |-> at.offset, length |-> scanned.end - at.offset,
                               line |-> at.line, col |-> at.col]]
           n == Len(emitted)
<1>1. /\ at \in Cursor /\ at.offset \in cursor.offset .. Len(input.source)
      /\ input.emitTrivia => at = cursor
      /\ at = LineColAt(input.source, at.offset)
      /\ OnlyTrivia(input, cursor.offset, at.offset)
  BY SkipKeeps
<1>2. /\ input \in Inputs /\ input \in Request /\ Len(input.source) \in Nat
      /\ input.emitTrivia \in BOOLEAN /\ cursor \in Cursor /\ cursor.offset \in Nat
  BY InputFacts DEF StreamInv, StreamOK, Request, Cursor
<1>3. /\ ~done /\ at.offset < Len(input.source) /\ scanned.end # at.offset
      /\ cursor' = Advance(input.source, at, scanned.end)
      /\ emitted' = Append(emitted, token)
      /\ input' = input /\ done' = done
  BY DEF NextToken
<1>4. PICK S : emitted \in Seq(S)
  BY DEF StreamInv, StreamOK
<1>5. n \in Nat
  BY <1>4
<1>6. at.offset \in 0 .. Len(input.source) - 1
  BY <1>1, <1>2, <1>3
<1>7. scanned.end \in at.offset + 1 .. Len(input.source)
  <2>1. scanned.end \in at.offset .. Len(input.source)
    BY <1>2, <1>6, ScanFacts
  <2> QED
    BY <1>2, <1>3, <1>6, <2>1
<1>8. cursor' \in Cursor /\ cursor'.offset = scanned.end
      /\ cursor' = LineColAt(input.source, scanned.end)
  <2>1. at.offset \in Nat /\ scanned.end \in Nat /\ at.offset <= scanned.end
    BY <1>2, <1>6, <1>7
  <2>2. cursor' \in Cursor /\ cursor'.offset = scanned.end
    BY <1>1, <1>3, <2>1, AdvanceFacts
  <2>3. Advance(input.source, LineColAt(input.source, at.offset), scanned.end)
          = LineColAt(input.source, scanned.end)
    BY <2>1, LocatedFacts
  <2> QED
    BY <1>1, <1>3, <2>2, <2>3
<1>9. token.span.offset = at.offset /\ token.span.length = scanned.end - at.offset
      /\ token.span.line = at.line /\ token.span.col = at.col
  OBVIOUS
<1> HIDE DEF at, scanned, token
<1>10. emitted' \in Seq(S \cup {token})
  BY <1>3, <1>4, SeqMonotonic, AppendProperties
<1>11. Len(emitted') = n + 1 /\ emitted'[n + 1] = token
       /\ \A i \in 1 .. n : emitted'[i] = emitted[i]
  BY <1>3, <1>4, AppendProperties
<1> HIDE DEF n
<1>12. EndOf(emitted', n + 1) = scanned.end
  BY <1>2, <1>5, <1>6, <1>7, <1>9, <1>11 DEF EndOf
<1>13. StreamOK'
  BY <1>2, <1>3, <1>7, <1>8, <1>10 DEF StreamInv, StreamOK
<1>14. InStep'
  BY <1>8, <1>11, <1>12 DEF InStep
<1>15. CursorLocated'
  <2>1. ASSUME NEW i \in 1 .. n + 1
        PROVE  [offset |-> emitted'[i].span.offset, line |-> emitted'[i].span.line,
                col |-> emitted'[i].span.col] = LineColAt(input.source, emitted'[i].span.offset)
    <3>1. CASE i = n + 1
      <4>1. at = [offset |-> at.offset, line |-> at.line, col |-> at.col]
        BY <1>1 DEF Cursor
      <4> QED
        BY <1>1, <1>9, <1>11, <3>1, <4>1
    <3>2. CASE i # n + 1
      <4>1. i \in 1 .. n
        BY <1>5, <3>2
      <4>2. i \in DOMAIN emitted
        BY <1>4, <4>1 DEF n
      <4> QED
        BY <1>11, <4>1, <4>2 DEF StreamInv, CursorLocated
    <3> QED
      BY <3>1, <3>2
  <2>2. DOMAIN emitted' = 1 .. n + 1
    BY <1>10, <1>11, LenProperties
  <2> QED
    BY <1>3, <1>8, <2>1, <2>2 DEF CursorLocated
<1>16. TokensTile'
  <2> DEFINE next(i) == TokenAfter(i)
             next1(i) == IF i = n + 1 THEN cursor'.offset ELSE emitted'[i + 1].span.offset
  <2>1. \A i \in 0 .. n : IF input.emitTrivia THEN EndOf(emitted, i) = next(i)
                          ELSE OnlyTrivia(input, EndOf(emitted, i), next(i))
    BY TileFacts DEF StreamInv, n
  <2>2. \A i \in 0 .. n : EndOf(emitted', i) = EndOf(emitted, i)
    BY <1>5, <1>11 DEF EndOf
  <2>3. EndOf(emitted, n) = cursor.offset
    BY <1>3 DEF StreamInv, InStep, n
  <2>4. next1(n) = at.offset /\ next1(n + 1) = scanned.end
    BY <1>5, <1>8, <1>9, <1>11
  <2>5. \A i \in 0 .. n : i # n => next1(i) = next(i)
    BY <1>5, <1>11 DEF TokenAfter, n
  <2> HIDE DEF next, next1
  <2>6. ASSUME NEW i \in 0 .. n + 1
        PROVE  IF input.emitTrivia THEN EndOf(emitted', i) = next1(i)
               ELSE OnlyTrivia(input, EndOf(emitted', i), next1(i))
    <3>1. CASE i = n + 1
      <4>1. scanned.end \in Nat
        BY <1>2, <1>6, <1>7
      <4> QED
        BY <1>12, <2>4, <3>1, <4>1, TriviaFacts
    <3>2. CASE i = n
      <4>1. i \in 0 .. n
        BY <1>5, <3>2
      <4> QED
        BY <1>1, <2>2, <2>3, <2>4, <3>2, <4>1
    <3>3. CASE i # n /\ i # n + 1
      <4>1. i \in 0 .. n
        BY <1>5, <3>3
      <4> QED
        BY <2>1, <2>2, <2>5, <3>3, <4>1
    <3> QED
      BY <3>1, <3>2, <3>3
  <2>7. OnlyNulStops'
    BY <1>3 DEF OnlyNulStops
  <2> QED
    BY <1>3, <1>11, <2>6, <2>7 DEF TokensTile, EndOf, next1
<1> QED
  BY <1>13, <1>14, <1>15, <1>16 DEF StreamInv

(* The last call keeps it as well: what is left is the end of the source,  *)
(* or starts with a NUL.                                                   *)
LEMMA DoneTiles ==
  ASSUME StreamInv, NextDone
  PROVE  StreamInv'
<1> DEFINE at == SkipTrivia(input, cursor)
           n == Len(emitted)
<1>1. /\ at \in Cursor /\ at.offset \in cursor.offset .. Len(input.source)
      /\ input.emitTrivia => at = cursor
      /\ at = LineColAt(input.source, at.offset)
      /\ OnlyTrivia(input, cursor.offset, at.offset)
  BY SkipKeeps
<1>2. /\ input \in Inputs /\ input \in Request /\ Len(input.source) \in Nat
      /\ input.emitTrivia \in BOOLEAN /\ cursor \in Cursor /\ cursor.offset \in Nat
  BY InputFacts DEF StreamInv, StreamOK, Request, Cursor
<1>3. /\ ~done
      /\ at.offset >= Len(input.source) \/ Scan(input, at.offset).end = at.offset
      /\ cursor' = at /\ done' = TRUE /\ input' = input /\ emitted' = emitted
  BY DEF NextDone
<1>4. n \in Nat
  BY DEF StreamInv, StreamOK
<1> HIDE DEF at, n
<1>5. StreamOK'
  <2>1. \E S : emitted' \in Seq(S)
    BY <1>3 DEF StreamInv, StreamOK
  <2>2. at.offset <= Len(input.source)
    BY <1>1, <1>2
  <2> QED
    BY <1>1, <1>2, <1>3, <2>1, <2>2 DEF StreamOK
<1>6. InStep'
  BY <1>3 DEF InStep
<1>7. CursorLocated'
  BY <1>1, <1>3 DEF StreamInv, CursorLocated
<1>8. OnlyNulStops'
  <2>1. at.offset < Len(input.source) => Ch(input.source, at.offset) = "NUL"
    <3>1. at.offset < Len(input.source) => at.offset \in 0 .. Len(input.source) - 1
      BY <1>1, <1>2
    <3> QED
      BY <1>1, <1>2, <1>3, <3>1, ScanFacts
  <2> QED
    BY <1>3, <2>1 DEF OnlyNulStops
<1>9. TokensTile'
  <2> DEFINE next(i) == TokenAfter(i)
             next1(i) == IF i = n THEN at.offset ELSE emitted[i + 1].span.offset
  <2>1. \A i \in 0 .. n : IF input.emitTrivia THEN EndOf(emitted, i) = next(i)
                          ELSE OnlyTrivia(input, EndOf(emitted, i), next(i))
    BY TileFacts DEF StreamInv, n
  <2>2. EndOf(emitted, n) = cursor.offset
    BY <1>3 DEF StreamInv, InStep, n
  <2>3. \A i \in 0 .. n : IF input.emitTrivia THEN EndOf(emitted, i) = next1(i)
                          ELSE OnlyTrivia(input, EndOf(emitted, i), next1(i))
    BY <1>1, <2>1, <2>2 DEF TokenAfter, n
  <2> QED
    BY <1>3, <1>8, <2>3 DEF TokensTile, EndOf, n
<1> QED
  BY <1>5, <1>6, <1>7, <1>9 DEF StreamInv

(* The invariant holds in every state of the stream.                       *)
THEOREM StreamInvariant == StreamSpec => []StreamInv
<1>1. StreamInit => StreamInv
  BY StartsTiled
<1>2. StreamInv /\ [StreamNext]_streamVars => StreamInv'
  <2> SUFFICES ASSUME StreamInv, [StreamNext]_streamVars
               PROVE  StreamInv'
    OBVIOUS
  <2>1. CASE NextToken
    BY <2>1, TokenTiles
  <2>2. CASE NextDone
    BY <2>2, DoneTiles
  <2>3. CASE UNCHANGED streamVars
    BY <2>3 DEF streamVars, StreamInv, StreamOK, InStep, EndOf, TokensTile, OnlyNulStops, CursorLocated
  <2> QED
    BY <2>1, <2>2, <2>3 DEF StreamNext
<1> QED
  BY <1>1, <1>2, PTL DEF StreamSpec

(* TokenStreamImpl.next loses nothing and repeats nothing of any source:   *)
(* the tokens it returns and the trivia it drops tile the source, and only *)
(* a NUL stops it before the end.                                          *)
THEOREM TokensAlwaysTile == StreamSpec => []TokensTile
<1>1. StreamInv => TokensTile
  BY DEF StreamInv
<1> QED
  BY <1>1, StreamInvariant, PTL

(* For every source, the line and column of the cursor and of every token  *)
(* returned are those of its offset.                                       *)
THEOREM CursorAlwaysLocated == StreamSpec => []CursorLocated
<1>1. StreamInv => CursorLocated
  BY DEF StreamInv
<1> QED
  BY <1>1, StreamInvariant, PTL
=============================================================================
