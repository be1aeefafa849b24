--------------------------- MODULE ScannerProofs ---------------------------
(***************************************************************************)
(* Proofs about nextToken, for every source: a token depends on nothing    *)
(* but its own characters, and not on the case of its letters. Both come   *)
(* from one simulation: if from p + d on the text y reads like z from p to *)
(* e, and z has a token there, then y has the same one.                    *)
(* What the scanner sees after e may be missing in y, so a test that       *)
(* succeeds there in y must be one that succeeds in z. The loops of Quoted *)
(* and Variable are followed from their end, by ForwardInduction.          *)
(* Then, of the texts of tokens: the hint given for an illegal one is      *)
(* true, and what src/util.ts makes of a quoted one or a blob is undone by *)
(* quoting it again. Last, of where they are: the carets that cite a token *)
(* are under it, by what line every offset is on.                          *)
(***************************************************************************)
EXTENDS TokenizerProofs, TokenDiagnostics
-----------------------------------------------------------------------------

(* The arms of aiClass that no letter takes.                               *)
NotALetter(c) ==
  \/ c \in Digits \/ c \in SpaceClass \/ c \in {"'", "DQ", "BT"} \/ c = "["
  \/ c \in {"@", "#", ":"} \/ c \in OperatorChars \/ c = "$" \/ c = "?" \/ c = "-" \/ c = "/"
  \/ c = "." \/ c = "EF" \/ c \in HighChars \ {"EF"} \/ c \in {"NUL", "EOI"}

(* The class of a letter, whichever order aiClass looks them up in: x and  *)
(* X may start a blob, y, z and _ start no keyword.                        *)
LEMMA LetterClasses ==
  ASSUME NEW c, ~NotALetter(c)
  PROVE  /\ c \in {"x", "X"} => aiClass(c) = "X"
         /\ c \in KywdChars => aiClass(c) = "KYWD"
         /\ c \in Letters \ (KywdChars \cup {"x", "X"}) => aiClass(c) = "KYWD0"
<1>1. "x" \notin KywdChars /\ "X" \notin KywdChars
  BY DEF KywdChars
<1>2. ASSUME c \in {"x", "X"}
      PROVE  aiClass(c) = "X"
  <2>1. c \notin KywdChars /\ c \notin Letters \ (KywdChars \cup {"x", "X"})
    BY <1>1, <1>2
  <2> QED
    BY <1>2, <2>1, Zenon DEF aiClass, NotALetter
<1>3. ASSUME c \in KywdChars
      PROVE  aiClass(c) = "KYWD"
  <2>1. c \notin {"x", "X"} /\ c \notin Letters \ (KywdChars \cup {"x", "X"})
    BY <1>1, <1>3
  <2> QED
    BY <1>3, <2>1, Zenon DEF aiClass, NotALetter
<1>4. ASSUME c \in Letters \ (KywdChars \cup {"x", "X"})
      PROVE  aiClass(c) = "KYWD0"
  BY <1>4, Zenon DEF aiClass, NotALetter
<1> QED
  BY <1>2, <1>3, <1>4

(* The letters LowerOf has for Upper, and the other characters the scanner *)
(* compares with.                                                          *)
LowerLetters == {"a", "b", "c", "d", "e", "f", "g", "h", "i", "j", "k", "l", "m",
                 "n", "o", "p", "q", "r", "s", "t", "u", "v", "w", "x", "y", "z"}
Others == {"EOI", "'", "DQ", "BT", "]", "LF", "*", "/", "-", ">", ":", "(", ")", ".", "+",
           "0", "BB", "BF", "=", "<", "|", "_"}

(* No letter is one of the characters the scanner tells apart by name.     *)
LEMMA LetterFacts ==
  /\ \A u \in Upper : LowerOf[u] \in LowerLetters
  /\ \A c \in Letters : /\ ~NotALetter(c) /\ c \notin Others /\ c \notin Digits
                        /\ c \notin Space /\ c \notin OperatorChars
<1>1. \A u \in Upper : LowerOf[u] \in LowerLetters
  BY DEF Upper, LowerOf, LowerLetters
<1>2. \A c \in Letters : c \in Upper \/ c \in LowerLetters
  BY <1>1 DEF Letters, Lower
<1>3. \A c \in LowerLetters : ~NotALetter(c)
  <2> SUFFICES ASSUME NEW c \in LowerLetters
               PROVE  ~NotALetter(c)
    OBVIOUS
  <2>1. c \notin Digits
    BY Zenon DEF LowerLetters, Digits
  <2>2. c \notin SpaceClass
    BY Zenon DEF LowerLetters, SpaceClass
  <2>3. c \notin OperatorChars
    BY Zenon DEF LowerLetters, OperatorChars
  <2>4. c \notin HighChars
    BY Zenon DEF LowerLetters, HighChars
  <2>5. c \notin {"'", "DQ", "BT", "[", "@", "#", ":", "$"}
    BY Zenon DEF LowerLetters
  <2>6. c \notin {"?", "-", "/", ".", "EF", "NUL", "EOI"}
    BY Zenon DEF LowerLetters
  <2> QED
    BY ONLY <2>1, <2>2, <2>3, <2>4, <2>5, <2>6, Zenon DEF NotALetter
<1>4. \A c \in Upper : ~NotALetter(c)
  <2> SUFFICES ASSUME NEW c \in Upper
               PROVE  ~NotALetter(c)
    OBVIOUS
  <2>1. c \notin Digits
    BY Zenon DEF Upper, Digits
  <2>2. c \notin SpaceClass
    BY Zenon DEF Upper, SpaceClass
  <2>3. c \notin OperatorChars
    BY Zenon DEF Upper, OperatorChars
  <2>4. c \notin HighChars
    BY Zenon DEF Upper, HighChars
  <2>5. c \notin {"'", "DQ", "BT", "[", "@", "#", ":", "$"}
    BY Zenon DEF Upper
  <2>6. c \notin {"?", "-", "/", ".", "EF", "NUL", "EOI"}
    BY Zenon DEF Upper
  <2> QED
    BY ONLY <2>1, <2>2, <2>3, <2>4, <2>5, <2>6, Zenon DEF NotALetter
<1>6. \A c \in LowerLetters : c \notin Others /\ c # "VT"
  <2> SUFFICES ASSUME NEW c \in LowerLetters
               PROVE  c \notin Others /\ c # "VT"
    OBVIOUS
  <2>1. c \notin {"EOI", "'", "DQ", "BT", "]", "LF", "*", "/"}
    BY Zenon DEF LowerLetters
  <2>2. c \notin {"-", ">", ":", "(", ")", ".", "+", "0"}
    BY Zenon DEF LowerLetters
  <2>3. c \notin {"BB", "BF", "=", "<", "|", "_", "VT"}
    BY Zenon DEF LowerLetters
  <2> QED
    BY ONLY <2>1, <2>2, <2>3, Zenon DEF Others
<1>7. \A c \in Upper : c \notin Others /\ c # "VT"
  <2> SUFFICES ASSUME NEW c \in Upper
               PROVE  c \notin Others /\ c # "VT"
    OBVIOUS
  <2>1. c \notin {"EOI", "'", "DQ", "BT", "]", "LF", "*", "/"}
    BY Zenon DEF Upper
  <2>2. c \notin {"-", ">", ":", "(", ")", ".", "+", "0"}
    BY Zenon DEF Upper
  <2>3. c \notin {"BB", "BF", "=", "<", "|", "_", "VT"}
    BY Zenon DEF Upper
  <2> QED
    BY ONLY <2>1, <2>2, <2>3, Zenon DEF Others
<1>5. \A c : ~NotALetter(c) => c \notin Digits /\ c \notin SpaceClass /\ c \notin OperatorChars
  BY DEF NotALetter
<1> QED
  BY <1>1, <1>2, <1>3, <1>4, <1>5, <1>6, <1>7 DEF Space

(* Both cases of a letter are in the same class and the same sets of       *)
(* characters, and no two letters share a case.                            *)
LEMMA SwapFacts ==
  ASSUME NEW u \in Upper
  PROVE  LET v == LowerOf[u]
         IN  /\ u \in Letters /\ v \in Letters /\ v \in Lower /\ u \notin Lower
             /\ u \in {"x", "X"} <=> v \in {"x", "X"}
             /\ u \in {"e", "E"} <=> v \in {"e", "E"}
             /\ u \in XDigits <=> v \in XDigits
             /\ aiClass(u) = aiClass(v)
             /\ \A w \in Upper : LowerOf[w] = LowerOf[u] => w = u
<1> DEFINE v == LowerOf[u]
<1>1. u \in Letters /\ v \in Letters /\ v \in Lower /\ v \in LowerLetters
  BY LetterFacts DEF Letters, Lower
<1>2. u \in {"x", "X"} <=> v \in {"x", "X"}
  BY DEF Upper, LowerOf
<1>3. u \in {"e", "E"} <=> v \in {"e", "E"}
  BY DEF Upper, LowerOf
<1>4. u \in XDigits <=> v \in XDigits
  BY DEF Upper, LowerOf, XDigits, Digits
<1>5. u \in KywdChars <=> v \in KywdChars
  <2>1. LowerOf["Y"] = "y" /\ LowerOf["Z"] = "z"
    BY DEF LowerOf
  <2>2. v = "y" => u = "Y"
    BY DEF Upper, LowerOf
  <2>3. v = "z" => u = "Z"
    BY DEF Upper, LowerOf
  <2>4. v \notin {"_", "Y", "Z"}
    BY <1>1 DEF LowerLetters
  <2>5. u \notin {"y", "z", "_"}
    BY DEF Upper
  <2> QED
    BY <2>1, <2>2, <2>3, <2>4, <2>5 DEF KywdChars
<1>6. aiClass(u) = aiClass(v)
  <2>1. ~NotALetter(u) /\ ~NotALetter(v)
    BY <1>1, LetterFacts
  <2> HIDE DEF v
  <2>2. CASE u \in {"x", "X"}
    BY <1>2, <2>1, <2>2, LetterClasses
  <2>3. CASE u \in KywdChars
    BY <1>5, <2>1, <2>3, LetterClasses
  <2>4. CASE u \notin {"x", "X"} /\ u \notin KywdChars
    BY <1>1, <1>2, <1>5, <2>1, <2>4, LetterClasses
  <2> QED
    BY <2>2, <2>3, <2>4
<1>7. u \notin Lower
  <2>1. \A c \in Lower : c \in LowerLetters
    BY LetterFacts DEF Lower
  <2>2. u \notin LowerLetters
    BY DEF Upper, LowerLetters
  <2> QED
    BY <2>1, <2>2
<1>8. \A w \in Upper : LowerOf[w] = LowerOf[u] => w = u
  BY SMTT(60) DEF Upper, LowerOf
<1> QED
  BY <1>1, <1>2, <1>3, <1>4, <1>6, <1>7, <1>8
-----------------------------------------------------------------------------

(* One character or a letter in either case, and alike as a separator.     *)
Like(a, b, seps) ==
  /\ a = b \/ \E u \in Upper : {a, b} = {u, LowerOf[u]}
  /\ a \in seps <=> b \in seps
Closed(chars, seps) == \A a, b : Like(a, b, seps) => (a \in chars <=> b \in chars)

(* Two characters that are alike but not the same are the cases of one     *)
(* letter.                                                                 *)
LEMMA LikeCases ==
  ASSUME NEW a, NEW b, NEW seps, Like(a, b, seps), a # b
  PROVE  \E u \in Upper : (a = u /\ b = LowerOf[u]) \/ (b = u /\ a = LowerOf[u])
<1>1. PICK u \in Upper : {a, b} = {u, LowerOf[u]}
  BY DEF Like
<1> QED
  BY <1>1

(* Characters that are alike scan alike: they are in one class, and        *)
(* keywords are looked up with the same letter for both.                   *)
LEMMA LikeFacts ==
  ASSUME NEW a, NEW b, NEW seps, Like(a, b, seps)
  PROVE  /\ aiClass(a) = aiClass(b)
         /\ UpperOf(a) = UpperOf(b)
         /\ a \notin Letters \/ b \notin Letters => a = b
<1>1. CASE a = b
  BY <1>1
<1>2. CASE a # b
  <2>1. PICK u \in Upper : (a = u /\ b = LowerOf[u]) \/ (b = u /\ a = LowerOf[u])
    BY <1>2, LikeCases
  <2>2. /\ u \in Letters /\ LowerOf[u] \in Letters /\ LowerOf[u] \in Lower /\ u \notin Lower
        /\ aiClass(u) = aiClass(LowerOf[u])
        /\ \A w \in Upper : LowerOf[w] = LowerOf[u] => w = u
    BY SwapFacts
  <2>3. UpperOf(u) = u
    BY <2>2 DEF UpperOf
  <2>4. UpperOf(LowerOf[u]) = u
    BY <2>2 DEF UpperOf
  <2> QED
    BY <2>1, <2>2, <2>3, <2>4
<1> QED
  BY <1>1, <1>2

(* The sets of characters the scanner tests for do not tell such           *)
(* characters apart.                                                       *)
LEMMA ClosedFacts ==
  ASSUME NEW seps
  PROVE  /\ Closed(Digits, seps) /\ Closed(XDigits, seps) /\ Closed(Space, seps)
         /\ Closed(IdChars, seps) /\ Closed(KeywordChars, seps)
         /\ Closed({"x", "X"}, seps) /\ Closed({"e", "E"}, seps) /\ Closed(seps, seps)
         /\ \A c \in Others : Closed({c}, seps)
         /\ \A A, B : Closed(A, seps) /\ Closed(B, seps) => Closed(A \cup B, seps)
<1>1. ASSUME NEW a, NEW b, Like(a, b, seps), a # b
      PROVE  /\ a \in Letters /\ b \in Letters
             /\ a \in {"x", "X"} <=> b \in {"x", "X"}
             /\ a \in {"e", "E"} <=> b \in {"e", "E"}
             /\ a \in XDigits <=> b \in XDigits
  <2>1. PICK u \in Upper : (a = u /\ b = LowerOf[u]) \/ (b = u /\ a = LowerOf[u])
    BY <1>1, LikeCases
  <2> QED
    BY <2>1, SwapFacts
<1>2. Closed(XDigits, seps) /\ Closed({"x", "X"}, seps) /\ Closed({"e", "E"}, seps)
  BY <1>1 DEF Closed
<1>3. Closed(Digits, seps) /\ Closed(Space, seps)
  BY <1>1, LetterFacts DEF Closed
<1>4. Closed(IdChars, seps) /\ Closed(KeywordChars, seps)
  BY <1>1 DEF Closed, IdChars, KeywordChars
<1>5. Closed(seps, seps)
  BY DEF Closed, Like
<1>6. \A c \in Others : Closed({c}, seps)
  BY <1>1, LetterFacts DEF Closed
<1>7. \A A, B : Closed(A, seps) /\ Closed(B, seps) => Closed(A \cup B, seps)
  BY DEF Closed
<1> QED
  BY <1>2, <1>3, <1>4, <1>5, <1>6, <1>7

(* From p to e, y reads d characters further on as z does here; after e it *)
(* does so as long as there is any of it.                                  *)
Match(y, z, p, e, d, seps) ==
  /\ z \in Text /\ y \in Text /\ p \in Nat /\ e \in p + 1 .. Len(z)
  /\ d \in Int /\ p + d >= 0 /\ e + d <= Len(y)
  /\ \A k \in Nat :
       k >= p => \/ Like(Ch(y, k + d), Ch(z, k), seps)
                 \/ k >= e /\ Ch(y, k + d) = "EOI"

(* A test of the scanner before e has one outcome in both texts, and one   *)
(* after e fails in y if it fails in z: lookahead finds no more in y than  *)
(* in z.                                                                   *)
LEMMA MatchAt ==
  ASSUME NEW y, NEW z, NEW p, NEW e, NEW d, NEW seps, Match(y, z, p, e, d, seps),
         NEW k \in Nat, k >= p, NEW chars, Closed(chars, seps), "EOI" \notin chars
  PROVE  /\ k < e => (Ch(y, k + d) \in chars <=> Ch(z, k) \in chars)
         /\ Ch(y, k + d) \in chars => Ch(z, k) \in chars
<1>1. \/ Like(Ch(y, k + d), Ch(z, k), seps)
      \/ k >= e /\ Ch(y, k + d) = "EOI"
  BY DEF Match
<1>2. Like(Ch(y, k + d), Ch(z, k), seps) => (Ch(y, k + d) \in chars <=> Ch(z, k) \in chars)
  BY DEF Closed
<1>3. ~(k < e /\ k >= e)
  BY DEF Match
<1> QED
  BY <1>1, <1>2, <1>3

(* The same for a test for one character, and for the end of the text.     *)
LEMMA MatchIs ==
  ASSUME NEW y, NEW z, NEW p, NEW e, NEW d, NEW seps, Match(y, z, p, e, d, seps),
         NEW k \in Nat, k >= p
  PROVE  /\ \A c \in Others \ {"EOI"} :
              /\ k < e => (Ch(y, k + d) = c <=> Ch(z, k) = c)
              /\ Ch(y, k + d) = c => Ch(z, k) = c
         /\ Ch(z, k) = "EOI" => Ch(y, k + d) = "EOI"
         /\ k < e => Ch(y, k + d) # "EOI" /\ Ch(z, k) # "EOI" /\ Like(Ch(y, k + d), Ch(z, k), seps)
<1>1. ASSUME NEW c \in Others \ {"EOI"}
      PROVE  /\ k < e => (Ch(y, k + d) = c <=> Ch(z, k) = c)
             /\ Ch(y, k + d) = c => Ch(z, k) = c
  <2>1. Closed({c}, seps) /\ "EOI" \notin {c}
    BY ClosedFacts
  <2> QED
    BY <2>1, MatchAt
<1>2. \/ Like(Ch(y, k + d), Ch(z, k), seps)
      \/ k >= e /\ Ch(y, k + d) = "EOI"
  BY DEF Match
<1>3. "EOI" \notin Letters
  BY LetterFacts DEF Others
<1>4. Like(Ch(y, k + d), Ch(z, k), seps) => (Ch(z, k) = "EOI" <=> Ch(y, k + d) = "EOI")
  BY <1>3, LikeFacts
<1>5. k < e => k < Len(z) /\ ~(k >= e)
  BY DEF Match, Text
<1>6. k < e => Ch(z, k) # "EOI"
  BY <1>5, EndOfText DEF Match, Text
<1> QED
  BY <1>1, <1>2, <1>4, <1>5, <1>6

(* What a test for the character c at k says of both.                      *)
Agree(y, z, e, d, k, c) ==
  /\ k < e => (Ch(y, k + d) = c <=> Ch(z, k) = c) /\ Ch(y, k + d) # "EOI" /\ Ch(z, k) # "EOI"
  /\ Ch(y, k + d) = c => Ch(z, k) = c
  /\ Ch(z, k) = "EOI" => Ch(y, k + d) = "EOI"

(* A test for one character is such a test.                                *)
LEMMA MatchAgrees ==
  ASSUME NEW y, NEW z, NEW p, NEW e, NEW d, NEW seps, Match(y, z, p, e, d, seps),
         NEW k \in Nat, k >= p, NEW c \in Others \ {"EOI"}
  PROVE  Agree(y, z, e, d, k, c)
BY MatchIs DEF Agree

(* The bounds of a match; a z that ends with the token ends where y does.  *)
LEMMA MatchFacts ==
  ASSUME NEW y, NEW z, NEW p, NEW e, NEW d, NEW seps, Match(y, z, p, e, d, seps)
  PROVE  /\ z \in Text /\ y \in Text /\ p \in Nat /\ e \in Nat /\ p < e /\ e <= Len(z)
         /\ Len(z) \in Nat /\ Len(y) \in Nat /\ d \in Int /\ p + d \in Nat /\ e + d <= Len(y)
         /\ \A k \in Nat : k >= p => k + d \in Nat
         /\ \A k : k \in p .. e => k \in 0 .. Len(z) /\ k + d \in 0 .. Len(y)
         /\ Ch(z, e) = "EOI" => e = Len(z) /\ e + d = Len(y)
<1>1. /\ z \in Text /\ y \in Text /\ p \in Nat /\ e \in Nat /\ p < e /\ e <= Len(z)
      /\ Len(z) \in Nat /\ Len(y) \in Nat /\ d \in Int /\ p + d \in Nat /\ e + d <= Len(y)
      /\ \A k \in Nat : k >= p => k + d \in Nat
      /\ \A k : k \in p .. e => k \in 0 .. Len(z) /\ k + d \in 0 .. Len(y)
  BY DEF Match, Text
<1>2. ASSUME Ch(z, e) = "EOI"
      PROVE  e = Len(z) /\ e + d = Len(y)
  <2>0. e \in Nat /\ e >= p
    BY <1>1
  <2>1. Ch(y, e + d) = "EOI"
    BY <1>2, <2>0, MatchIs
  <2>2. e >= Len(z) /\ e + d >= Len(y)
    BY <1>1, <1>2, <2>1, EndOfText
  <2> QED
    BY <1>1, <2>2
<1> QED
  BY <1>1, <1>2

(* A loop over a set of characters that ends in the token ends at the same *)
(* character in y.                                                         *)
LEMMA PastMatch ==
  ASSUME NEW y, NEW z, NEW p, NEW e, NEW d, NEW seps, Match(y, z, p, e, d, seps),
         NEW chars, Closed(chars, seps), "EOI" \notin chars,
         NEW i \in p .. e, Past(z, i, chars) <= e
  PROVE  Past(y, i + d, chars) = Past(z, i, chars) + d
<1> DEFINE past == Past(z, i, chars)
<1>1. /\ z \in Text /\ y \in Text /\ p \in Nat /\ e \in Nat /\ p < e /\ e <= Len(z)
      /\ Len(z) \in Nat /\ Len(y) \in Nat /\ d \in Int /\ p + d \in Nat /\ e + d <= Len(y)
      /\ i \in 0 .. Len(z) /\ i + d \in 0 .. Len(y)
  BY MatchFacts
<1>2. past \in i .. Len(z) /\ Ch(z, past) \notin chars /\ \A k \in i .. past - 1 : Ch(z, k) \in chars
  BY <1>1, PastFacts
<1>3. past <= e
  OBVIOUS
<1> HIDE DEF past
<1>4. past \in Nat /\ past >= p /\ past + d \in i + d .. Len(y)
  BY <1>1, <1>2, <1>3
<1>5. Ch(y, past + d) \notin chars
  BY <1>2, <1>4, MatchAt
<1>6. ASSUME NEW k \in i + d .. (past + d) - 1
      PROVE  Ch(y, k) \in chars
  <2>1. k - d \in i .. past - 1 /\ k - d \in Nat /\ k - d >= p /\ k - d < e /\ (k - d) + d = k
    BY <1>1, <1>2, <1>3
  <2>2. Ch(z, k - d) \in chars
    BY <1>2, <2>1
  <2>3. Ch(y, (k - d) + d) \in chars
    BY <2>1, <2>2, MatchAt
  <2> QED
    BY <2>1, <2>3
<1>7. Past(y, i + d, chars) = past + d
  BY <1>1, <1>4, <1>5, <1>6, PastIs
<1> QED
  BY <1>7 DEF past

(* So does a search that ends in the token.                                *)
LEMMA FindMatch ==
  ASSUME NEW y, NEW z, NEW p, NEW e, NEW d, NEW seps, Match(y, z, p, e, d, seps),
         NEW chars, Closed(chars, seps), "EOI" \notin chars,
         NEW i \in p .. e, Find(z, i, chars) <= e
  PROVE  Find(y, i + d, chars) = Find(z, i, chars) + d
<1> DEFINE find == Find(z, i, chars)
           stops == chars \cup {"EOI"}
<1>1. /\ z \in Text /\ y \in Text /\ p \in Nat /\ e \in Nat /\ p < e /\ e <= Len(z)
      /\ Len(z) \in Nat /\ Len(y) \in Nat /\ d \in Int /\ p + d \in Nat /\ e + d <= Len(y)
      /\ i \in 0 .. Len(z) /\ i + d \in 0 .. Len(y)
  BY MatchFacts
<1>2. find \in i .. Len(z) /\ Ch(z, find) \in stops /\ \A k \in i .. find - 1 : Ch(z, k) \notin stops
  BY <1>1, FindFacts
<1>3. find <= e
  OBVIOUS
<1> HIDE DEF find
<1>4. find \in Nat /\ find >= p /\ find + d \in i + d .. Len(y)
  BY <1>1, <1>2, <1>3
<1>5. Ch(y, find + d) \in stops
  <2>1. Ch(z, find) = "EOI" => Ch(y, find + d) = "EOI"
    BY <1>4, MatchIs
  <2>2. Ch(z, find) \in chars /\ find < e => Ch(y, find + d) \in chars
    BY <1>4, MatchAt
  <2>3. ~(find < e) => Ch(y, find + d) \in stops
    <3>1. ~(find < e) => \/ Like(Ch(y, find + d), Ch(z, find), seps)
                         \/ Ch(y, find + d) = "EOI"
      BY <1>4 DEF Match
    <3>2. Ch(z, find) \in chars /\ Like(Ch(y, find + d), Ch(z, find), seps) => Ch(y, find + d) \in chars
      BY DEF Closed
    <3> QED
      BY <1>2, <2>1, <3>1, <3>2
  <2> QED
    BY <1>2, <2>1, <2>2, <2>3
<1>6. ASSUME NEW k \in i + d .. (find + d) - 1
      PROVE  Ch(y, k) \notin stops
  <2>1. k - d \in i .. find - 1 /\ k - d \in Nat /\ k - d >= p /\ k - d < e /\ (k - d) + d = k
    BY <1>1, <1>2, <1>3
  <2>2. Ch(z, k - d) \notin chars
    BY <1>2, <2>1
  <2>3. Ch(y, (k - d) + d) \notin chars
    BY <2>1, <2>2, MatchAt
  <2>4. Ch(y, (k - d) + d) # "EOI"
    BY <2>1, MatchIs
  <2> QED
    BY <2>1, <2>3, <2>4
<1>7. Find(y, i + d, chars) = find + d
  BY <1>1, <1>4, <1>5, <1>6, FindIs
<1> QED
  BY <1>7 DEF find

(* What y has at p + d, as the token z has at p ends at e.                 *)
Scans(alone, token, e, d) == token.end = e => alone = T(token.type, e + d)

(* Hence the tokens that are one loop: spaces, ?NNN and identifiers.       *)
LEMMA RunMatch ==
  ASSUME NEW y, NEW z, NEW p, NEW e, NEW d, NEW seps, Match(y, z, p, e, d, seps),
         NEW type, NEW chars, Closed(chars, seps), "EOI" \notin chars
  PROVE  Scans(T(type, Past(y, p + d + 1, chars)), T(type, Past(z, p + 1, chars)), e, d)
<1> SUFFICES ASSUME Past(z, p + 1, chars) = e
             PROVE  Past(y, p + d + 1, chars) = e + d
  BY DEF Scans, T
<1>1. p \in Nat /\ e \in Nat /\ p < e /\ d \in Int
  BY MatchFacts
<1>2. p + 1 \in p .. e /\ Past(z, p + 1, chars) <= e /\ p + d + 1 = (p + 1) + d
  BY <1>1
<1>3. Past(y, (p + 1) + d, chars) = Past(z, p + 1, chars) + d
  BY <1>2, PastMatch
<1> QED
  BY <1>2, <1>3

(* The same for [names].                                                   *)
LEMMA BracketedMatch ==
  ASSUME NEW y, NEW z, NEW p, NEW e, NEW d, NEW seps, Match(y, z, p, e, d, seps)
  PROVE  Scans(Bracketed(y, p + d), Bracketed(z, p), e, d)
<1> SUFFICES ASSUME Bracketed(z, p).end = e
             PROVE  Bracketed(y, p + d) = T(Bracketed(z, p).type, e + d)
  BY DEF Scans
<1> DEFINE close == Find(z, p + 1, {"]"})
<1>1. p \in Nat /\ e \in Nat /\ p < e /\ d \in Int /\ Len(z) \in Nat /\ e <= Len(z) /\ z \in Text
  BY MatchFacts
<1>2. p + 1 \in p .. e /\ p + 1 \in 0 .. Len(z) /\ p + d + 1 = (p + 1) + d
  BY <1>1
<1>3. close \in p + 1 .. Len(z)
  BY <1>1, <1>2, FindFacts
<1>4. Bracketed(z, p) = IF Ch(z, close) = "EOI" THEN T("ILLEGAL", close) ELSE T("ID", close + 1)
  BY DEF Bracketed
<1>5. e = IF Ch(z, close) = "EOI" THEN close ELSE close + 1
  BY <1>4 DEF T
<1>6. close <= e
  BY <1>1, <1>3, <1>5
<1>7. Find(y, p + d + 1, {"]"}) = close + d
  <2>1. Closed({"]"}, seps) /\ "EOI" \notin {"]"}
    BY ClosedFacts DEF Others
  <2> QED
    BY <1>2, <1>6, <2>1, FindMatch
<1>8. Bracketed(y, p + d) =
        IF Ch(y, close + d) = "EOI" THEN T("ILLEGAL", close + d) ELSE T("ID", close + d + 1)
  BY <1>7 DEF Bracketed
<1> HIDE DEF close
<1>9. close \in Nat /\ close >= p
  BY <1>1, <1>3
<1>10. Ch(z, close) = "EOI" <=> Ch(y, close + d) = "EOI"
  <2>1. Ch(z, close) # "EOI" => close < e
    BY <1>1, <1>3, <1>5
  <2> QED
    BY <1>9, <2>1, MatchIs
<1>11. close + d + 1 = (close + 1) + d
  BY <1>1, <1>9
<1> QED
  BY <1>4, <1>5, <1>8, <1>10, <1>11 DEF T

(* The same for -, -> and ->>, which look ahead, and for -- comments.      *)
LEMMA MinusMatch ==
  ASSUME NEW y, NEW z, NEW p, NEW e, NEW d, NEW seps, Match(y, z, p, e, d, seps)
  PROVE  Scans(Minus(y, p + d), Minus(z, p), e, d)
<1> SUFFICES ASSUME Minus(z, p).end = e
             PROVE  Minus(y, p + d) = T(Minus(z, p).type, e + d)
  BY DEF Scans
<1>1. p \in Nat /\ e \in Nat /\ p < e /\ d \in Int /\ Len(z) \in Nat /\ e <= Len(z) /\ z \in Text
  BY MatchFacts
<1>2. /\ p + 1 \in Nat /\ p + 1 >= p /\ p + d + 1 = (p + 1) + d
      /\ p + 2 \in Nat /\ p + 2 >= p /\ p + d + 2 = (p + 2) + d
      /\ p + d + 3 = (p + 3) + d
  BY <1>1
<1>at. Agree(y, z, e, d, p + 1, "-") /\ Agree(y, z, e, d, p + 1, ">") /\ Agree(y, z, e, d, p + 2, ">")
  BY <1>2, MatchAgrees DEF Others
<1>3. CASE Ch(z, p + 1) = "-"
  <2>1. Minus(z, p) = T("COMMENT", Find(z, p + 2, {"LF"})) /\ Find(z, p + 2, {"LF"}) = e
    BY <1>3 DEF Minus, T
  <2>2. p + 2 \in 0 .. Len(z)
    <3>1. p + 1 < Len(z)
      BY <1>1, <1>2, <1>3, EndOfText
    <3> QED
      BY <1>1, <3>1
  <2>3. e \in p + 2 .. Len(z)
    BY <1>1, <2>1, <2>2, FindFacts
  <2>4. p + 2 \in p .. e /\ p + 1 < e
    BY <1>1, <2>3
  <2>5. Find(y, p + d + 2, {"LF"}) = e + d
    <3>1. Closed({"LF"}, seps) /\ "EOI" \notin {"LF"}
      BY ClosedFacts DEF Others
    <3> QED
      BY <1>1, <1>2, <2>1, <2>4, <3>1, FindMatch
  <2>6. Ch(y, p + d + 1) = "-"
    BY <1>2, <1>3, <2>4, <1>at DEF Agree
  <2> QED
    BY <2>1, <2>5, <2>6 DEF Minus, T
<1>4. CASE Ch(z, p + 1) = ">"
  <2>1. Minus(z, p) = T("PTR", e) /\ e = IF Ch(z, p + 2) = ">" THEN p + 3 ELSE p + 2
    BY <1>4 DEF Minus, T
  <2>2. p + 1 < e /\ (Ch(z, p + 2) = ">" => p + 2 < e)
    BY <1>1, <2>1
  <2>3. Ch(y, p + d + 1) = ">"
    BY <1>2, <1>4, <2>2, <1>at DEF Agree
  <2>4. Ch(y, p + d + 2) = ">" <=> Ch(z, p + 2) = ">"
    BY <1>2, <2>2, <1>at DEF Agree
  <2>5. e + d = IF Ch(y, p + d + 2) = ">" THEN p + d + 3 ELSE p + d + 2
    BY <1>2, <2>1, <2>4
  <2> QED
    BY <2>1, <2>3, <2>5 DEF Minus, T
<1>5. CASE Ch(z, p + 1) \notin {"-", ">"}
  <2>1. Minus(z, p) = T("MINUS", e) /\ e = p + 1
    BY <1>5 DEF Minus, T
  <2>2. Ch(y, p + d + 1) \notin {"-", ">"}
    BY <1>2, <1>5, <1>at DEF Agree
  <2>3. Minus(y, p + d) = T("MINUS", p + d + 1)
    BY <2>2 DEF Minus
  <2> QED
    BY <1>2, <2>1, <2>3 DEF T
<1> QED
  BY <1>3, <1>4, <1>5

(* The same for / and for comments, also one that is not closed: that one  *)
(* ends with the text.                                                     *)
LEMMA SlashMatch ==
  ASSUME NEW y, NEW z, NEW p, NEW e, NEW d, NEW seps, Match(y, z, p, e, d, seps)
  PROVE  Scans(Slash(y, p + d), Slash(z, p), e, d)
<1> SUFFICES ASSUME Slash(z, p).end = e
             PROVE  Slash(y, p + d) = T(Slash(z, p).type, e + d)
  BY DEF Scans
<1> DEFINE closes == {i \in p + 3 .. Len(z) - 1 : Ch(z, i - 1) = "*" /\ Ch(z, i) = "/"}
           close == CHOOSE i \in closes : \A j \in closes : i <= j
           closesY == {i \in p + d + 3 .. Len(y) - 1 : Ch(y, i - 1) = "*" /\ Ch(y, i) = "/"}
           closeY == CHOOSE i \in closesY : \A j \in closesY : i <= j
<1>1. p \in Nat /\ e \in Nat /\ p < e /\ d \in Int /\ Len(z) \in Nat /\ e <= Len(z) /\ z \in Text
      /\ Len(y) \in Nat /\ e + d <= Len(y) /\ p + d \in Nat
  BY MatchFacts
<1>2. /\ p + 1 \in Nat /\ p + 1 >= p /\ p + d + 1 = (p + 1) + d
      /\ p + 2 \in Nat /\ p + 2 >= p /\ p + d + 2 = (p + 2) + d
  BY <1>1
<1>at. Agree(y, z, e, d, p + 1, "*") /\ Agree(y, z, e, d, p + 2, "*")
  BY <1>2, MatchAgrees DEF Others
<1>3. Slash(z, p) = IF Ch(z, p + 1) # "*" \/ Ch(z, p + 2) = "EOI" THEN T("SLASH", p + 1)
                    ELSE IF closes = {} THEN T("COMMENT", Len(z)) ELSE T("COMMENT", 1 + close)
  BY DEF Slash
<1>4. Slash(y, p + d) = IF Ch(y, p + d + 1) # "*" \/ Ch(y, p + d + 2) = "EOI" THEN T("SLASH", p + d + 1)
                    ELSE IF closesY = {} THEN T("COMMENT", Len(y)) ELSE T("COMMENT", 1 + closeY)
  BY DEF Slash
<1>5. \A i \in closesY : /\ i - d \in p + 3 .. Len(z) - 1 => i - d \in closes
                         /\ i - d \in Nat /\ i - d >= p + 3 /\ Ch(z, i - d) = "/"
  <2> SUFFICES ASSUME NEW i \in closesY
               PROVE  /\ i - d \in p + 3 .. Len(z) - 1 => i - d \in closes
                      /\ i - d \in Nat /\ i - d >= p + 3 /\ Ch(z, i - d) = "/"
    OBVIOUS
  <2>1. i \in p + d + 3 .. Len(y) - 1 /\ Ch(y, i - 1) = "*" /\ Ch(y, i) = "/"
    OBVIOUS
  <2>2. /\ i - d \in Nat /\ i - d >= p /\ i - d >= p + 3 /\ (i - d) + d = i
        /\ i - d - 1 \in Nat /\ i - d - 1 >= p /\ (i - d - 1) + d = i - 1
    BY <1>1, <2>1
  <2>3. Agree(y, z, e, d, i - d, "/") /\ Agree(y, z, e, d, i - d - 1, "*")
    BY <2>2, MatchAgrees DEF Others
  <2>4. Ch(z, i - d) = "/" /\ Ch(z, i - d - 1) = "*"
    BY <2>1, <2>2, <2>3 DEF Agree
  <2> QED
    BY <2>2, <2>4
<1>6. \A i \in closes : i < e => i + d \in closesY
  <2> SUFFICES ASSUME NEW i \in closes, i < e
               PROVE  i + d \in closesY
    OBVIOUS
  <2>1. i \in p + 3 .. Len(z) - 1 /\ Ch(z, i - 1) = "*" /\ Ch(z, i) = "/"
    OBVIOUS
  <2>2. /\ i \in Nat /\ i >= p /\ i - 1 \in Nat /\ i - 1 >= p /\ i - 1 < e
        /\ (i - 1) + d = (i + d) - 1 /\ i + d \in p + d + 3 .. Len(y) - 1
    BY <1>1, <2>1
  <2>3. Agree(y, z, e, d, i, "/") /\ Agree(y, z, e, d, i - 1, "*")
    BY <2>2, MatchAgrees DEF Others
  <2>4. Ch(y, (i - 1) + d) = "*" /\ Ch(y, i + d) = "/"
    BY <2>1, <2>2, <2>3 DEF Agree
  <2> QED
    BY <2>2, <2>4
<1>7. closes \subseteq Nat /\ closesY \subseteq Nat
  BY <1>1
<1>8. CASE Ch(z, p + 1) # "*" \/ Ch(z, p + 2) = "EOI"
  <2>1. Slash(z, p) = T("SLASH", p + 1) /\ p + 1 = e
    BY <1>3, <1>8 DEF T
  <2>2. Ch(y, p + d + 1) # "*" \/ Ch(y, p + d + 2) = "EOI"
    BY <1>2, <1>8, <1>at DEF Agree
  <2> QED
    BY <1>2, <1>4, <2>1, <2>2 DEF T
<1>9. CASE ~(Ch(z, p + 1) # "*" \/ Ch(z, p + 2) = "EOI") /\ closes = {}
  <2>1. Slash(z, p) = T("COMMENT", Len(z)) /\ Len(z) = e
    BY <1>3, <1>9 DEF T
  <2>2. Ch(z, e) = "EOI" /\ p + 2 < Len(z)
    <3>1. p + 2 < Len(z)
      BY <1>1, <1>2, <1>9, EndOfText
    <3> QED
      BY <1>1, <2>1, <3>1, EndOfText
  <2>3. e + d = Len(y)
    BY <2>2, MatchFacts
  <2>4. p + 1 < e /\ p + 2 < e
    BY <1>1, <2>1, <2>2
  <2>5. Ch(y, p + d + 1) = "*" /\ Ch(y, p + d + 2) # "EOI"
    BY <1>2, <1>9, <2>4, <1>at DEF Agree
  <2>6. closesY = {}
    <3> SUFFICES ASSUME NEW i \in closesY
                 PROVE  FALSE
      OBVIOUS
    <3>1. i \in p + d + 3 .. Len(y) - 1
      OBVIOUS
    <3>2. i - d \in p + 3 .. Len(z) - 1
      BY <1>1, <2>1, <2>3, <3>1
    <3> HIDE DEF closes, closesY
    <3> QED
      BY <1>5, <1>9, <3>2
  <2> QED
    BY <1>4, <2>1, <2>3, <2>5, <2>6 DEF T
<1>10. CASE ~(Ch(z, p + 1) # "*" \/ Ch(z, p + 2) = "EOI") /\ closes # {}
  <2>1. Slash(z, p) = T("COMMENT", 1 + close) /\ 1 + close = e
    BY <1>3, <1>10 DEF T
  <2>2. close \in closes /\ \A j \in closes : close <= j
    <3> HIDE DEF closes
    <3> QED
      BY <1>7, <1>10, LeastOf
  <2>3. close \in Nat /\ close >= p + 3
    BY <1>1, <2>2
  <2> HIDE DEF close
  <2>4. close < e /\ p + 1 < e /\ p + 2 < e
    BY <1>1, <2>1, <2>3
  <2>5. Ch(y, p + d + 1) = "*" /\ Ch(y, p + d + 2) # "EOI"
    BY <1>2, <1>10, <2>4, <1>at DEF Agree
  <2>6. close + d \in closesY
    BY <1>6, <2>2, <2>4
  <2>7. \A j \in closesY : close + d <= j
    <3> SUFFICES ASSUME NEW j \in closesY, ~(close + d <= j)
                 PROVE  FALSE
      OBVIOUS
    <3> HIDE DEF closesY
    <3>1. j \in Nat /\ j - d \in Nat /\ j - d >= p + 3 /\ (j - d \in p + 3 .. Len(z) - 1 => j - d \in closes)
      BY <1>5, <1>7
    <3>2. j - d < close
      BY <1>1, <2>3, <3>1
    <3>3. j - d \in p + 3 .. Len(z) - 1
      BY <1>1, <2>3, <2>4, <3>1, <3>2
    <3> HIDE DEF closes
    <3> QED
      BY <2>2, <2>3, <3>1, <3>2, <3>3
  <2>8. closeY = close + d
    <3> HIDE DEF closesY
    <3>1. closeY \in closesY /\ \A j \in closesY : closeY <= j
      BY <2>6, <2>7
    <3>2. closeY \in Nat /\ close + d \in Nat /\ closeY <= close + d /\ close + d <= closeY
      BY <1>7, <2>6, <2>7, <3>1
    <3> QED
      BY <3>2
  <2>9. closesY # {} /\ 1 + closeY = e + d
    <3> HIDE DEF closesY, closeY
    <3> QED
      BY <1>1, <2>1, <2>3, <2>6, <2>8
  <2> HIDE DEF closesY, closeY, closes
  <2> QED
    BY <1>4, <2>1, <2>5, <2>9 DEF T
<1> QED
  BY <1>8, <1>9, <1>10

(* The same for operators, of one character or two.                        *)
LEMMA OperatorMatch ==
  ASSUME NEW y, NEW z, NEW p, NEW e, NEW d, NEW seps, Match(y, z, p, e, d, seps),
         Ch(z, p) \in OperatorChars
  PROVE  Scans(OperatorAt(y, p + d), OperatorAt(z, p), e, d)
<1> SUFFICES ASSUME OperatorAt(z, p).end = e
             PROVE  OperatorAt(y, p + d) = T(OperatorAt(z, p).type, e + d)
  BY DEF Scans
<1> DEFINE pairs == {pair \in Pairs : pair[1] = Ch(z, p) /\ pair[2] = Ch(z, p + 1)}
           pairsY == {pair \in Pairs : pair[1] = Ch(y, p + d) /\ pair[2] = Ch(y, p + d + 1)}
<1>1. p \in Nat /\ e \in Nat /\ p < e /\ d \in Int
  BY MatchFacts
<1>2. p >= p /\ p + 1 \in Nat /\ p + 1 >= p /\ p + d + 1 = (p + 1) + d /\ p + d + 2 = (p + 2) + d
  BY <1>1
<1>3. Ch(y, p + d) = Ch(z, p)
  <2>1. Like(Ch(y, p + d), Ch(z, p), seps)
    BY <1>1, <1>2, MatchIs
  <2>2. Ch(z, p) \notin Letters
    BY LetterFacts
  <2> QED
    BY <2>1, <2>2, LikeFacts
<1>4. \A pair \in Pairs : pair[2] \in Others \ {"EOI"}
  <2>1. \A pair \in Pairs : pair[2] \in {"=", "<", ">", "|"}
    BY DEF Pairs
  <2> QED
    BY <2>1 DEF Others
<1>5. \A pair \in Pairs : Agree(y, z, e, d, p + 1, pair[2])
  BY <1>2, <1>4, MatchAgrees
<1>6. \A pair \in Pairs : pair[2] = Ch(y, p + d + 1) => pair[2] = Ch(z, p + 1)
  BY <1>2, <1>5 DEF Agree
<1>7. p + 1 < e => \A pair \in Pairs : pair[2] = Ch(y, p + d + 1) <=> pair[2] = Ch(z, p + 1)
  BY <1>2, <1>5 DEF Agree
<1>8. OperatorAt(z, p) = IF pairs = {} THEN T(Singles[Ch(z, p)], p + 1)
                         ELSE T((CHOOSE pair \in pairs : TRUE)[3], p + 2)
  BY DEF OperatorAt
<1>9. OperatorAt(y, p + d) = IF pairsY = {} THEN T(Singles[Ch(y, p + d)], p + d + 1)
                             ELSE T((CHOOSE pair \in pairsY : TRUE)[3], p + d + 2)
  BY DEF OperatorAt
<1>10. CASE pairs = {}
  <2>1. pairsY = {}
    BY <1>3, <1>6, <1>10
  <2>2. e = p + 1 /\ OperatorAt(z, p).type = Singles[Ch(z, p)]
    BY <1>8, <1>10 DEF T
  <2> HIDE DEF pairs, pairsY
  <2> QED
    BY <1>2, <1>3, <1>9, <2>1, <2>2
<1>11. CASE pairs # {}
  <2>1. e = p + 2 /\ OperatorAt(z, p).type = (CHOOSE pair \in pairs : TRUE)[3]
    BY <1>8, <1>11 DEF T
  <2>2. p + 1 < e
    BY <1>1, <2>1
  <2>3. pairsY = pairs
    BY <1>3, <1>7, <2>2
  <2> HIDE DEF pairs, pairsY
  <2> QED
    BY <1>2, <1>9, <1>11, <2>1, <2>3
<1> QED
  BY <1>10, <1>11

(* The same for quoted text: the loop over the pairs of quotes in it takes *)
(* the same turns in y, by induction from its end.                         *)
LEMMA QuotedMatch ==
  ASSUME NEW y, NEW z, NEW p, NEW e, NEW d, NEW seps, Match(y, z, p, e, d, seps),
         Ch(z, p) \in {"'", "DQ", "BT"}
  PROVE  Scans(Quoted(y, p + d), Quoted(z, p), e, d)
<1> SUFFICES ASSUME Quoted(z, p).end = e
             PROVE  Quoted(y, p + d) = T(Quoted(z, p).type, e + d)
  BY DEF Scans
<1> DEFINE c == Ch(z, p)
           n == Len(z)
<1>1. /\ z \in Text /\ y \in Text /\ p \in Nat /\ e \in Nat /\ p < e /\ e <= n
      /\ n \in Nat /\ Len(y) \in Nat /\ d \in Int /\ p + d \in Nat /\ e + d <= Len(y)
      /\ p \in 0 .. n - 1 /\ p + d \in 0 .. Len(y) - 1
  BY MatchFacts
<1>2. c \in Others \ {"EOI"} /\ c # "EOI" /\ Closed({c}, seps) /\ "EOI" \notin {c}
  BY ClosedFacts DEF Others
<1>3. Ch(y, p + d) = c
  <2>1. p >= p
    BY <1>1
  <2> QED
    BY <1>1, <1>2, <2>1, MatchIs
<1>4. PICK f : QuoteLoop(f, z, c) /\ Quoted(z, p) = QuotedTo(z, f[p + 1])
  BY <1>1, QuotedFacts
<1>5. PICK g : QuoteLoop(g, y, c) /\ Quoted(y, p + d) = QuotedTo(y, g[p + d + 1])
  BY <1>1, <1>3, QuotedFacts
<1> DEFINE t == f[p + 1]
           C == PairsIn(z, c)
           step == AfterPair(z, c)
           result == NextQuote(z, c)
<1>6. Forward(C, step, result, n)
  BY <1>1, <1>2, QuoteForward
<1>7. \A i \in 0 .. n : f[i] \in i .. n
  BY <1>4, <1>6, ForwardLoops DEF QuoteLoop
<1> HIDE DEF c
<1>8. t \in p + 1 .. n
  BY <1>1, <1>7
<1>9. Quoted(z, p) = QuotedTo(z, t)
  BY <1>4
<1> HIDE DEF t, n
<1>10. QuotedTo(z, t).end = IF Ch(z, t) = "EOI" THEN t ELSE t + 1
  BY DEF QuotedTo, T
<1>11. e = IF Ch(z, t) = "EOI" THEN t ELSE t + 1
  BY <1>9, <1>10
<1>12. t \in Nat /\ t >= p /\ t <= e /\ (Ch(z, t) # "EOI" => t < e)
  BY <1>1, <1>8, <1>11
<1>find. ASSUME NEW i \in p + 1 .. n, Find(z, i, {c}) <= t
         PROVE  /\ Find(y, i + d, {c}) = Find(z, i, {c}) + d
                /\ Find(z, i, {c}) \in i .. n
                /\ i + d \in Nat
  <2>1. i \in 0 .. n
    BY <1>1
  <2>2. Find(z, i, {c}) \in i .. n
    BY <1>1, <2>1, FindFacts DEF n
  <2>3. i \in p .. e /\ Find(z, i, {c}) <= e
    BY <1>1, <1>12, <1>find, <2>2
  <2>4. i + d \in Nat
    BY <1>1, <2>3
  <2> QED
    BY <1>2, <2>2, <2>3, <2>4, FindMatch
<1> DEFINE P == {i \in Nat : i \in p + 1 .. n /\ f[i] = t => g[i + d] = t + d}
<1>13. ASSUME NEW i \in Nat, i \notin C
       PROVE  i \in P
  <2> SUFFICES ASSUME i \in p + 1 .. n, f[i] = t
               PROVE  g[i + d] = t + d
    OBVIOUS
  <2>1. f[i] = Find(z, i, {c})
    BY <1>4, <1>13 DEF QuoteLoop, Loops, NextQuote
  <2>2. Find(y, i + d, {c}) = t + d /\ i + d \in Nat
    <3>1. Find(z, i, {c}) = t /\ Find(z, i, {c}) <= t
      BY <1>12, <2>1
    <3> QED
      BY <1>find, <3>1
  <2>3. i + d \notin PairsIn(y, c)
    <3>1. CASE Ch(z, t) = "EOI"
      <4>1. Ch(y, t + d) = "EOI"
        BY <1>12, <3>1, MatchIs
      <4> QED
        BY <2>2, <4>1 DEF PairsIn
    <3>2. CASE Ch(z, t) # "EOI"
      <4>1. Ch(z, t + 1) # c
        BY <1>13, <2>1, <3>2 DEF PairsIn
      <4>0. t + 1 \in Nat /\ t + 1 >= p
        BY <1>1, <1>12
      <4>2. Agree(y, z, e, d, t + 1, c)
        BY <1>2, <4>0, MatchAgrees
      <4>3. Ch(y, (t + 1) + d) # c /\ (t + 1) + d = (t + d) + 1
        BY <1>1, <1>12, <4>1, <4>2 DEF Agree
      <4> QED
        BY <2>2, <4>3 DEF PairsIn
    <3> QED
      BY <3>1, <3>2
  <2>4. g[i + d] = Find(y, i + d, {c})
    BY <1>5, <2>2, <2>3 DEF QuoteLoop, Loops, NextQuote
  <2> QED
    BY <2>2, <2>4
<1>14. ASSUME NEW i \in C, step[i] \in P
       PROVE  i \in P
  <2>1. i \in Nat /\ step[i] = Find(z, i, {c}) + 2 /\ f[i] = f[step[i]]
        /\ Ch(z, Find(z, i, {c})) # "EOI" /\ Ch(z, Find(z, i, {c}) + 1) = c
    BY <1>4 DEF QuoteLoop, Loops, PairsIn, AfterPair
  <2> SUFFICES ASSUME i \in p + 1 .. n, f[i] = t
               PROVE  g[i + d] = t + d
    BY <2>1
  <2> DEFINE m == Find(z, i, {c})
  <2>2. m \in i .. n
    <3>1. i \in 0 .. n
      BY <1>1
    <3> QED
      BY <1>1, <3>1, FindFacts DEF n
  <2>3. step[i] <= n
    BY <1>6 DEF Forward
  <2> HIDE DEF m, step, C
  <2>4. m + 2 <= n
    BY <2>1, <2>3 DEF m
  <2>5. m + 2 \in 0 .. n
    BY <1>1, <2>2, <2>4
  <2>6. f[m + 2] = t /\ f[m + 2] \in m + 2 .. n
    BY <1>7, <2>1, <2>5 DEF m
  <2>7. m + 2 <= t /\ m < t
    BY <1>1, <2>2, <2>6
  <2>8. Find(y, i + d, {c}) = m + d /\ i + d \in Nat
    BY <1>12, <1>find, <2>2, <2>7 DEF m
  <2>9. m \in Nat /\ m >= p /\ m < e /\ m + 1 \in Nat /\ m + 1 >= p /\ m + 1 < e
        /\ (m + 1) + d = (m + d) + 1
    BY <1>1, <1>12, <2>2, <2>7
  <2>10. Ch(y, m + d) # "EOI" /\ Ch(y, (m + d) + 1) = c
    <3>1. Agree(y, z, e, d, m, c) /\ Agree(y, z, e, d, m + 1, c)
      BY <1>2, <2>9, MatchAgrees
    <3> QED
      BY <2>1, <2>9, <3>1 DEF Agree, m
  <2>11. i + d \in PairsIn(y, c)
    BY <2>8, <2>10 DEF PairsIn
  <2>12. g[i + d] = g[(m + d) + 2]
    BY <1>5, <2>8, <2>11 DEF QuoteLoop, Loops, AfterPair
  <2>13. m + 2 \in p + 1 .. n /\ m + 2 \in P /\ (m + 2) + d = (m + d) + 2
    BY <1>1, <1>14, <2>1, <2>2, <2>4 DEF m
  <2> QED
    BY <2>6, <2>12, <2>13
<1>15. \A i \in Nat : i \in P
  <2>1. P \in SUBSET Nat
    OBVIOUS
  <2> HIDE DEF P, C, step, result
  <2> QED
    BY <1>6, <1>13, <1>14, <2>1, ForwardInduction
<1>16. g[p + d + 1] = t + d
  <2>1. p + 1 \in Nat /\ p + 1 \in p + 1 .. n /\ (p + 1) + d = p + d + 1
    BY <1>1
  <2> QED
    BY <1>15, <2>1 DEF t
<1>17. Ch(y, t + d) = Ch(z, t)
  <2>1. CASE Ch(z, t) = "EOI"
    BY <1>12, <2>1, MatchIs
  <2>2. CASE Ch(z, t) # "EOI"
    <3>1. Like(Ch(y, t + d), Ch(z, t), seps)
      BY <1>12, <2>2, MatchIs
    <3>2. Ch(z, t) \in {c, "EOI"}
      <4> DEFINE last == {i \in Nat : i \in 0 .. n => Ch(z, f[i]) \in {c, "EOI"}}
      <4>1. ASSUME NEW i \in Nat, i \notin C
            PROVE  i \in last
        <5>1. f[i] = Find(z, i, {c})
          BY <1>4, <4>1 DEF QuoteLoop, Loops, NextQuote
        <5> QED
          BY <1>1, <5>1, FindFacts DEF n
      <4>2. ASSUME NEW i \in C, step[i] \in last
            PROVE  i \in last
        <5>1. i \in Nat /\ f[i] = f[step[i]]
          BY <1>4 DEF QuoteLoop, Loops, PairsIn
        <5>2. step[i] \in Nat /\ step[i] <= n
          BY <1>1, <1>6, <5>1 DEF Forward
        <5> HIDE DEF C, step
        <5>3. step[i] \in 0 .. n
          BY <1>1, <5>2
        <5> QED
          BY <4>2, <5>1, <5>3
      <4>3. \A i \in Nat : i \in last
        <5>1. last \in SUBSET Nat
          OBVIOUS
        <5> HIDE DEF last, C, step, result
        <5> QED
          BY <1>6, <4>1, <4>2, <5>1, ForwardInduction
      <4>4. p + 1 \in Nat /\ p + 1 \in 0 .. n
        BY <1>1
      <4> QED
        BY <4>3, <4>4 DEF t
    <3>3. Ch(z, t) \notin Letters
      BY <1>2, <3>2, LetterFacts DEF Others
    <3> QED
      BY <3>1, <3>3, LikeFacts
  <2> QED
    BY <2>1, <2>2
<1>18. Quoted(y, p + d) = QuotedTo(y, t + d)
  BY <1>5, <1>16
<1>19. (t + d) + 1 = (t + 1) + d
  BY <1>1, <1>12
<1> QED
  BY <1>9, <1>11, <1>17, <1>18, <1>19 DEF QuotedTo, T

(* The same for variables, by induction over the loop over the name.       *)
LEMMA VariableMatch ==
  ASSUME NEW y, NEW z, NEW p, NEW e, NEW d, NEW seps, Match(y, z, p, e, d, seps)
  PROVE  Scans(Variable(y, p + d), Variable(z, p), e, d)
<1> SUFFICES ASSUME Variable(z, p).end = e
             PROVE  Variable(y, p + d) = T(Variable(z, p).type, e + d)
  BY DEF Scans
<1> DEFINE n == Len(z)
<1>1. /\ z \in Text /\ y \in Text /\ p \in Nat /\ e \in Nat /\ p < e /\ e <= n
      /\ n \in Nat /\ Len(y) \in Nat /\ d \in Int /\ p + d \in Nat /\ e + d <= Len(y)
      /\ p \in 0 .. n - 1 /\ p + d \in 0 .. Len(y) - 1
  BY MatchFacts
<1>2. PICK f : NameLoop(f, z) /\ Variable(z, p) = VariableTo(z, p, f[p + 1])
  BY <1>1, VariableFacts
<1>3. PICK g : NameLoop(g, y) /\ Variable(y, p + d) = VariableTo(y, p + d, g[p + d + 1])
  BY <1>1, VariableFacts
<1> DEFINE t == f[p + 1]
           C == NameChars(z)
           step == AfterChar(z)
           result == [i \in Nat |-> i]
           stop == Find(z, t + 1, Space \cup {")"})
           named == \E i \in p + 1 .. t - 1 : Ch(z, i) \in IdChars
<1>4. Forward(C, step, result, n)
  BY <1>1, NameForward
<1>5. \A i \in 0 .. n : f[i] \in i .. n
  BY <1>2, <1>4, ForwardLoops DEF NameLoop
<1>6. t \in p + 1 .. n
  BY <1>1, <1>5
<1>7. Variable(z, p) = VariableTo(z, p, t)
  BY <1>2
<1> HIDE DEF t, n
<1>8. VariableTo(z, p, t) =
        CASE ~named                                  -> T("ILLEGAL", t)
          [] named /\ Ch(z, t) # "("                 -> T("VARIABLE", t)
          [] named /\ Ch(z, t) = "(" /\ Ch(z, stop) # ")" -> T("ILLEGAL", stop)
          [] named /\ Ch(z, t) = "(" /\ Ch(z, stop) = ")" -> T("VARIABLE", stop + 1)
  BY DEF VariableTo
<1>9. named /\ Ch(z, t) = "(" => stop \in t + 1 .. n
  <2>1. Ch(z, t) = "(" => t + 1 \in 0 .. n
    BY <1>1, <1>6, EndOfText DEF n
  <2> QED
    BY <1>1, <2>1, FindFacts DEF n
<1> HIDE DEF stop, named
<1>10. \/ ~named /\ e = t /\ Variable(z, p).type = "ILLEGAL"
       \/ named /\ Ch(z, t) # "(" /\ e = t /\ Variable(z, p).type = "VARIABLE"
       \/ named /\ Ch(z, t) = "(" /\ Ch(z, stop) # ")" /\ e = stop /\ Variable(z, p).type = "ILLEGAL"
       \/ named /\ Ch(z, t) = "(" /\ Ch(z, stop) = ")" /\ e = stop + 1
            /\ Variable(z, p).type = "VARIABLE"
  BY <1>7, <1>8 DEF T
<1>11. t \in Nat /\ t >= p + 1 /\ t <= e /\ (named /\ Ch(z, t) = "(" => t < e)
  BY <1>1, <1>6, <1>9, <1>10
<1>at. ASSUME NEW k \in Nat, k >= p
       PROVE  /\ k < e => (Ch(y, k + d) \in IdChars <=> Ch(z, k) \in IdChars)
              /\ Ch(y, k + d) \in IdChars => Ch(z, k) \in IdChars
              /\ Agree(y, z, e, d, k, ":") /\ Agree(y, z, e, d, k + 1, ":")
              /\ (k + 1) + d = (k + d) + 1 /\ k + d \in Nat
  <2>1. k + 1 \in Nat /\ k + 1 >= p /\ (k + 1) + d = (k + d) + 1 /\ k + d \in Nat
    BY <1>1, <1>at
  <2>2. Agree(y, z, e, d, k, ":") /\ Agree(y, z, e, d, k + 1, ":")
    BY <1>at, <2>1, MatchAgrees DEF Others
  <2>3. /\ k < e => (Ch(y, k + d) \in IdChars <=> Ch(z, k) \in IdChars)
        /\ Ch(y, k + d) \in IdChars => Ch(z, k) \in IdChars
    BY <1>at, MatchAt, ClosedFacts, NoClassHasEnd
  <2> QED
    BY <2>1, <2>2, <2>3
<1> DEFINE P == {i \in Nat : i \in p + 1 .. n /\ f[i] = t => g[i + d] = t + d}
<1>12. ASSUME NEW i \in Nat, i \notin C
       PROVE  i \in P
  <2> SUFFICES ASSUME i \in p + 1 .. n, f[i] = t
               PROVE  g[i + d] = t + d
    OBVIOUS
  <2>1. i = t
    BY <1>2, <1>12 DEF NameLoop, Loops
  <2>2. i >= p
    BY <1>1
  <2>3. i + d \in Nat /\ i + d \notin NameChars(y)
    BY <1>12, <1>at, <2>2 DEF NameChars, Agree
  <2> QED
    BY <1>3, <2>1, <2>3 DEF NameLoop, Loops
<1>13. ASSUME NEW i \in C, step[i] \in P
       PROVE  i \in P
  <2>1. i \in Nat /\ f[i] = f[step[i]]
    BY <1>2 DEF NameLoop, Loops, NameChars
  <2> SUFFICES ASSUME i \in p + 1 .. n, f[i] = t
               PROVE  g[i + d] = t + d
    BY <2>1
  <2>2. i < step[i] /\ step[i] <= n /\ step[i] \in Nat
    BY <1>4, <2>1 DEF Forward
  <2>3. step[i] = IF Ch(z, i) \in IdChars THEN i + 1 ELSE i + 2
    BY <2>1 DEF AfterChar
  <2>4. Ch(z, i) \in IdChars \/ (Ch(z, i) = ":" /\ Ch(z, i + 1) = ":")
    BY DEF NameChars
  <2> HIDE DEF C, step
  <2>5. step[i] \in 0 .. n
    BY <1>1, <2>2
  <2>6. f[step[i]] = t /\ f[step[i]] \in step[i] .. n
    BY <1>5, <2>1, <2>5
  <2>7. step[i] <= t /\ step[i] \in p + 1 .. n /\ i >= p /\ i < e
        /\ (Ch(z, i) \notin IdChars => i + 1 < e)
    BY <1>1, <1>11, <2>2, <2>3, <2>6
  <2>8. i + d \in NameChars(y) /\ AfterChar(y)[i + d] = step[i] + d
    <3>1. Ch(y, i + d) \in IdChars <=> Ch(z, i) \in IdChars
      BY <1>at, <2>1, <2>7
    <3>2. Ch(z, i) \notin IdChars => Ch(y, i + d) = ":" /\ Ch(y, (i + d) + 1) = ":"
      BY <1>at, <2>1, <2>4, <2>7 DEF Agree
    <3>3. i + d \in Nat
      BY <1>at, <2>1, <2>7
    <3>4. AfterChar(y)[i + d] = IF Ch(y, i + d) \in IdChars THEN (i + d) + 1 ELSE (i + d) + 2
      BY <3>3 DEF AfterChar
    <3>5. (i + d) + 1 = (i + 1) + d /\ (i + d) + 2 = (i + 2) + d
      BY <1>1, <2>1
    <3> QED
      BY <2>3, <3>1, <3>2, <3>3, <3>4, <3>5 DEF NameChars
  <2>9. g[i + d] = g[step[i] + d]
    BY <1>3, <2>8 DEF NameLoop, Loops, NameChars
  <2>10. g[step[i] + d] = t + d
    BY <1>13, <2>6, <2>7
  <2> QED
    BY <2>9, <2>10
<1>14. \A i \in Nat : i \in P
  <2>1. P \in SUBSET Nat
    OBVIOUS
  <2> HIDE DEF P, C, step, result
  <2> QED
    BY <1>4, <1>12, <1>13, <2>1, ForwardInduction
<1>15. g[p + d + 1] = t + d
  <2>1. p + 1 \in Nat /\ p + 1 \in p + 1 .. n /\ (p + 1) + d = p + d + 1
    BY <1>1
  <2> QED
    BY <1>14, <2>1 DEF t
<1> DEFINE stopY == Find(y, t + d + 1, Space \cup {")"})
           namedY == \E i \in p + d + 1 .. (t + d) - 1 : Ch(y, i) \in IdChars
<1>16. Variable(y, p + d) =
        CASE ~namedY                                  -> T("ILLEGAL", t + d)
          [] namedY /\ Ch(y, t + d) # "("                 -> T("VARIABLE", t + d)
          [] namedY /\ Ch(y, t + d) = "(" /\ Ch(y, stopY) # ")" -> T("ILLEGAL", stopY)
          [] namedY /\ Ch(y, t + d) = "(" /\ Ch(y, stopY) = ")" -> T("VARIABLE", stopY + 1)
  <2>1. Variable(y, p + d) = VariableTo(y, p + d, t + d)
    BY <1>3, <1>15
  <2> QED
    BY <2>1 DEF VariableTo
<1>17. namedY <=> named
  <2>1. ASSUME NEW i \in p + 1 .. t - 1, Ch(z, i) \in IdChars
        PROVE  namedY
    <3>1. i \in Nat /\ i >= p /\ i < e /\ i + d \in p + d + 1 .. (t + d) - 1
      BY <1>1, <1>11
    <3>2. Ch(y, i + d) \in IdChars
      BY <1>at, <2>1, <3>1
    <3> QED
      BY <3>1, <3>2
  <2>2. ASSUME NEW i \in p + d + 1 .. (t + d) - 1, Ch(y, i) \in IdChars
        PROVE  named
    <3>1. i - d \in Nat /\ i - d >= p /\ i - d \in p + 1 .. t - 1 /\ (i - d) + d = i
      BY <1>1, <1>11
    <3>2. Ch(z, i - d) \in IdChars
      BY <1>at, <2>2, <3>1
    <3> QED
      BY <3>1, <3>2 DEF named
  <2> QED
    BY <2>1, <2>2 DEF named
<1>18. Agree(y, z, e, d, t, "(")
  <2>1. t >= p
    BY <1>1, <1>11
  <2> QED
    BY <1>11, <2>1, MatchAgrees DEF Others
<1> HIDE DEF namedY
<1>19. CASE ~named
  BY <1>10, <1>16, <1>17, <1>19
<1>20. CASE named /\ Ch(z, t) # "("
  <2>1. Ch(y, t + d) # "("
    BY <1>18, <1>20 DEF Agree
  <2>2. Variable(y, p + d) = T("VARIABLE", t + d)
    BY <1>16, <1>17, <1>20, <2>1
  <2> QED
    BY <1>10, <1>20, <2>2
<1>21. CASE named /\ Ch(z, t) = "("
  <2>1. Ch(y, t + d) = "("
    BY <1>11, <1>18, <1>21 DEF Agree
  <2>2. stop \in t + 1 .. n /\ stop <= e
    BY <1>1, <1>9, <1>10, <1>21
  <2>3. stopY = stop + d
    <3>1. Closed(Space \cup {")"}, seps) /\ "EOI" \notin Space \cup {")"}
      BY ClosedFacts, NoClassHasEnd DEF Others
    <3>2. t + 1 \in p .. e /\ (t + 1) + d = t + d + 1
      BY <1>1, <1>11, <1>21
    <3> QED
      BY <2>2, <3>1, <3>2, FindMatch DEF stop
  <2>4. stop \in Nat /\ stop >= p
    BY <1>1, <1>11, <2>2
  <2>5. Agree(y, z, e, d, stop, ")")
    BY <2>4, MatchAgrees DEF Others
  <2>6. CASE Ch(z, stop) # ")"
    <3>1. Ch(y, stopY) # ")"
      BY <2>3, <2>5, <2>6 DEF Agree
    <3>2. Variable(y, p + d) = T("ILLEGAL", stopY)
      BY <1>16, <1>17, <1>21, <2>1, <3>1
    <3> QED
      BY <1>10, <1>21, <2>3, <2>6, <3>2
  <2>7. CASE Ch(z, stop) = ")"
    <3>1. e = stop + 1 /\ stop < e
      BY <1>10, <1>21, <2>4, <2>7
    <3>2. Ch(y, stopY) = ")"
      BY <2>3, <2>5, <2>7, <3>1 DEF Agree
    <3>3. Variable(y, p + d) = T("VARIABLE", stopY + 1)
      BY <1>16, <1>17, <1>21, <2>1, <3>2
    <3>4. stopY + 1 = e + d
      BY <1>1, <2>3, <2>4, <3>1
    <3> QED
      BY <1>10, <1>21, <2>7, <3>3, <3>4
  <2> QED
    BY <2>6, <2>7
<1> QED
  BY <1>19, <1>20, <1>21

(* The same for keywords and names: the words looked up are the same.      *)
LEMMA KeywordMatch ==
  ASSUME NEW y, NEW z, NEW p, NEW e, NEW d, NEW seps, Match(y, z, p, e, d, seps), NEW flags
  PROVE  Scans(KeywordOrId(y, p + d, flags), KeywordOrId(z, p, flags), e, d)
<1> SUFFICES ASSUME KeywordOrId(z, p, flags).end = e
             PROVE  KeywordOrId(y, p + d, flags) = T(KeywordOrId(z, p, flags).type, e + d)
  BY DEF Scans
<1> DEFINE end == Past(z, p + 1, KeywordChars)
           endY == Past(y, p + d + 1, KeywordChars)
           long == Past(z, end, IdChars)
<1>1. /\ z \in Text /\ y \in Text /\ p \in Nat /\ e \in Nat /\ p < e /\ e <= Len(z)
      /\ Len(z) \in Nat /\ Len(y) \in Nat /\ d \in Int /\ p + d \in Nat /\ e + d <= Len(y)
  BY MatchFacts
<1>2. /\ Closed(KeywordChars, seps) /\ "EOI" \notin KeywordChars
      /\ Closed(IdChars, seps) /\ "EOI" \notin IdChars
  BY ClosedFacts, NoClassHasEnd
<1>3. p + 1 \in p .. e /\ p + 1 \in 0 .. Len(z) /\ (p + 1) + d = p + d + 1
  BY <1>1
<1>4. end \in p + 1 .. Len(z)
  BY <1>1, <1>2, <1>3, PastFacts
<1> HIDE DEF end
<1>5. end \in 0 .. Len(z)
  BY <1>1, <1>4
<1>6. long \in end .. Len(z) /\ (Ch(z, end) \in IdChars => long > end)
  BY <1>1, <1>2, <1>5, PastFacts
<1> HIDE DEF long
<1>7. KeywordOrId(z, p, flags) = IF Ch(z, end) \in IdChars THEN T("ID", long)
                                 ELSE finishKeyword(z, p, end, flags)
  BY DEF KeywordOrId, end, long
<1>8. e = IF Ch(z, end) \in IdChars THEN long ELSE end
  BY <1>7 DEF finishKeyword, T
<1>9. end <= e /\ end \in p .. e /\ end >= p /\ end \in Nat
  BY <1>1, <1>4, <1>6, <1>8
<1>10. endY = end + d
  BY <1>2, <1>3, <1>9, PastMatch DEF end
<1> HIDE DEF endY
<1>11. KeywordOrId(y, p + d, flags) = IF Ch(y, endY) \in IdChars THEN T("ID", Past(y, endY, IdChars))
                                      ELSE finishKeyword(y, p + d, endY, flags)
  BY DEF KeywordOrId, endY
<1>12. CASE Ch(z, end) \in IdChars
  <2>1. e = long /\ end < e
    BY <1>1, <1>6, <1>8, <1>9, <1>12
  <2>2. Ch(y, endY) \in IdChars
    BY <1>2, <1>9, <1>10, <1>12, <2>1, MatchAt
  <2>3. Past(y, endY, IdChars) = e + d
    <3>1. Past(z, end, IdChars) <= e
      BY <1>1, <2>1 DEF long
    <3>2. Past(y, end + d, IdChars) = Past(z, end, IdChars) + d
      BY <1>2, <1>9, <3>1, PastMatch
    <3> QED
      BY <1>10, <2>1, <3>2 DEF long
  <2> QED
    BY <1>7, <1>11, <1>12, <2>2, <2>3 DEF T
<1>13. CASE Ch(z, end) \notin IdChars
  <2>1. e = end
    BY <1>8, <1>13
  <2>2. Ch(y, endY) \notin IdChars
    BY <1>2, <1>9, <1>10, <1>13, MatchAt
  <2>3. InUpper(SubSeq(y, p + d + 1, e + d)) = InUpper(SubSeq(z, p + 1, e))
    <3> DEFINE a == SubSeq(z, p + 1, e)
               b == SubSeq(y, p + d + 1, e + d)
    <3>1. /\ DOMAIN a = 1 .. e - p
          /\ \A i \in 1 .. e - p : a[i] = Ch(z, p + i - 1)
      BY <1>1 DEF Text, Ch
    <3>2. /\ DOMAIN b = 1 .. e - p
          /\ \A i \in 1 .. e - p : b[i] = Ch(y, p + d + i - 1)
      BY <1>1 DEF Text, Ch
    <3>3. \A i \in 1 .. e - p : UpperOf(a[i]) = UpperOf(b[i])
      <4> SUFFICES ASSUME NEW i \in 1 .. e - p
                   PROVE  UpperOf(a[i]) = UpperOf(b[i])
        OBVIOUS
      <4>1. /\ p + i - 1 \in Nat /\ p + i - 1 >= p /\ p + i - 1 < e
            /\ (p + i - 1) + d = p + d + i - 1
        BY <1>1
      <4>2. Like(Ch(y, (p + i - 1) + d), Ch(z, p + i - 1), seps)
        BY <4>1, MatchIs
      <4>3. UpperOf(Ch(y, (p + i - 1) + d)) = UpperOf(Ch(z, p + i - 1))
        BY <4>2, LikeFacts
      <4> HIDE DEF a, b
      <4> QED
        BY <3>1, <3>2, <4>1, <4>3
    <3> HIDE DEF a, b
    <3> QED
      BY <3>1, <3>2, <3>3 DEF InUpper, a, b
  <2>4. (e + d) - (p + d) = e - p
    BY <1>1
  <2>5. finishKeyword(y, p + d, e + d, flags) = T(finishKeyword(z, p, e, flags).type, e + d)
    BY <2>3, <2>4 DEF finishKeyword, T
  <2> QED
    BY <1>7, <1>10, <1>11, <1>13, <2>1, <2>2, <2>5
<1> QED
  BY <1>12, <1>13

(* The same for blobs: the parity of their digits does not depend on where *)
(* they are.                                                               *)
LEMMA BlobMatch ==
  ASSUME NEW y, NEW z, NEW p, NEW e, NEW d, NEW seps, Match(y, z, p, e, d, seps),
         Ch(z, p + 1) = "'"
  PROVE  Scans(Blob(y, p + d), Blob(z, p), e, d)
<1> SUFFICES ASSUME Blob(z, p).end = e
             PROVE  Blob(y, p + d) = T(Blob(z, p).type, e + d)
  BY DEF Scans
<1> DEFINE digits == Past(z, p + 2, XDigits)
           quote == Find(z, digits, {"'"})
<1>1. /\ z \in Text /\ y \in Text /\ p \in Nat /\ e \in Nat /\ p < e /\ e <= Len(z)
      /\ Len(z) \in Nat /\ Len(y) \in Nat /\ d \in Int /\ p + d \in Nat /\ e + d <= Len(y)
  BY MatchFacts
<1>2. /\ Closed(XDigits, seps) /\ "EOI" \notin XDigits
      /\ Closed({"'"}, seps) /\ "EOI" \notin {"'"}
  BY ClosedFacts, NoClassHasEnd DEF Others
<1>3. p + 2 \in 0 .. Len(z)
  BY <1>1, EndOfText
<1>4. digits \in p + 2 .. Len(z)
  BY <1>1, <1>2, <1>3, PastFacts
<1> HIDE DEF digits
<1>5. digits \in 0 .. Len(z)
  BY <1>1, <1>4
<1>6. quote \in digits .. Len(z) /\ Ch(z, quote) \in {"'", "EOI"}
  BY <1>1, <1>5, FindFacts
<1> HIDE DEF quote
<1>7. Blob(z, p) =
        LET end == IF Ch(z, quote) = "EOI" THEN quote ELSE quote + 1
        IN  T(IF quote = digits /\ Ch(z, quote) = "'" /\ (digits - p - 2) % 2 = 0
              THEN "BLOB" ELSE "ILLEGAL", end)
  BY DEF Blob, digits, quote
<1>8. e = IF Ch(z, quote) = "EOI" THEN quote ELSE quote + 1
  BY <1>7 DEF T
<1>9. /\ p + 2 \in p .. e /\ digits \in p .. e /\ digits <= e /\ quote <= e
      /\ quote \in Nat /\ quote >= p /\ (p + 2) + d = p + d + 2
      /\ (Ch(z, quote) # "EOI" => quote < e)
  BY <1>1, <1>4, <1>6, <1>8
<1>10. Past(y, p + d + 2, XDigits) = digits + d
  BY <1>2, <1>9, PastMatch DEF digits
<1>11. Find(y, digits + d, {"'"}) = quote + d
  BY <1>2, <1>9, FindMatch DEF quote
<1>12. Blob(y, p + d) =
        LET end == IF Ch(y, quote + d) = "EOI" THEN quote + d ELSE (quote + d) + 1
        IN  T(IF quote + d = digits + d /\ Ch(y, quote + d) = "'" /\ ((digits + d) - (p + d) - 2) % 2 = 0
              THEN "BLOB" ELSE "ILLEGAL", end)
  BY <1>10, <1>11 DEF Blob
<1>13. (Ch(y, quote + d) = "EOI" <=> Ch(z, quote) = "EOI") /\ (Ch(y, quote + d) = "'" <=> Ch(z, quote) = "'")
  <2>1. Agree(y, z, e, d, quote, "'")
    BY <1>9, MatchAgrees DEF Others
  <2> QED
    BY <1>9, <2>1 DEF Agree
<1>14. /\ quote + d = digits + d <=> quote = digits
       /\ (digits + d) - (p + d) - 2 = digits - p - 2
       /\ (quote + d) + 1 = (quote + 1) + d
  BY <1>1, <1>4, <1>9
<1> QED
  BY <1>7, <1>8, <1>12, <1>13, <1>14 DEF T

(* The same for numbers, part by part.                                     *)
LEMMA NumberMatch ==
  ASSUME NEW y, NEW z, NEW p, NEW e, NEW d, NEW sep, sep # "EOI", Match(y, z, p, e, d, SepSet(sep)),
         Ch(z, p) \in Digits \/ (Ch(z, p) = "." /\ Ch(z, p + 1) \in Digits)
  PROVE  Scans(scanNumber(y, p + d, sep), scanNumber(z, p, sep), e, d)
<1> DEFINE seps == SepSet(sep)
           start == StartOf(z, p)
           whole == WholeTo(z, p, sep)
           fraction == FractionTo(z, p, sep)
           number == NumberTo(z, p, sep)
<1> SUFFICES ASSUME Past(z, number, IdChars) = e
             PROVE  scanNumber(y, p + d, sep) = T(NumberType(z, p, sep), e + d)
  BY NumberFacts DEF Scans, T
<1>1. /\ z \in Text /\ y \in Text /\ p \in Nat /\ e \in Nat /\ p < e /\ e <= Len(z)
      /\ Len(z) \in Nat /\ Len(y) \in Nat /\ d \in Int /\ p + d \in Nat /\ e + d <= Len(y)
  BY MatchFacts
<1>2. /\ start \in p .. whole /\ whole \in p .. Len(z)
      /\ fraction \in whole .. Len(z) /\ fraction > p
      /\ number \in fraction .. Len(z)
      /\ PowerAt(z, p, fraction) => fraction + 2 <= number
  BY <1>1, NumberOrder
<1>3. number <= e
  <2> HIDE DEF number
  <2>1. number \in 0 .. Len(z)
    BY <1>1, <1>2
  <2>2. Past(z, number, IdChars) \in number .. Len(z)
    BY <1>1, <2>1, PastFacts, NoClassHasEnd
  <2> QED
    BY <1>1, <1>2, <2>2
<1>4. "EOI" \notin seps /\ "EOI" \notin Digits \cup seps /\ "EOI" \notin XDigits \cup seps
      /\ "EOI" \notin XDigits /\ "EOI" \notin Digits /\ "EOI" \notin DigitsOf(z, p)
  BY NoClassHasEnd DEF SepSet, DigitsOf
<1>5. /\ Closed(seps, seps) /\ Closed(Digits \cup seps, seps) /\ Closed(XDigits \cup seps, seps)
      /\ Closed(XDigits, seps) /\ Closed(Digits, seps) /\ Closed(DigitsOf(z, p), seps)
      /\ Closed({"+"} \cup {"-"}, seps)
  BY ClosedFacts DEF DigitsOf, Others
<1>at. ASSUME NEW k \in Nat, k >= p, NEW chars, Closed(chars, seps), "EOI" \notin chars
       PROVE  /\ k < e => (Ch(y, k + d) \in chars <=> Ch(z, k) \in chars)
              /\ Ch(y, k + d) \in chars => Ch(z, k) \in chars
  BY <1>at, MatchAt
<1> HIDE DEF seps, whole, fraction, number
<1>6. IsHex(y, p + d) <=> IsHex(z, p)
  <2>1. /\ p + 1 \in Nat /\ p + 1 >= p /\ (p + 1) + d = p + d + 1 /\ p >= p
        /\ p + 2 \in Nat /\ p + 2 >= p /\ (p + 2) + d = p + d + 2
    BY <1>1
  <2>2. IsHex(z, p) => p + 1 < e /\ p + 2 < e
    BY <1>1, <1>2, <1>3 DEF StartOf
  <2>3. Agree(y, z, e, d, p, "0")
    BY <1>1, <2>1, MatchAgrees DEF Others
  <2>4. /\ p + 1 < e => (Ch(y, p + d + 1) \in {"x", "X"} <=> Ch(z, p + 1) \in {"x", "X"})
        /\ Ch(y, p + d + 1) \in {"x", "X"} => Ch(z, p + 1) \in {"x", "X"}
    <3>1. Closed({"x", "X"}, seps) /\ "EOI" \notin {"x", "X"}
      BY ClosedFacts
    <3> QED
      BY <1>at, <2>1, <3>1
  <2>5. /\ p + 2 < e => (Ch(y, p + d + 2) \in XDigits <=> Ch(z, p + 2) \in XDigits)
        /\ Ch(y, p + d + 2) \in XDigits => Ch(z, p + 2) \in XDigits
    BY <1>4, <1>5, <1>at, <2>1
  <2> QED
    BY <1>1, <2>2, <2>3, <2>4, <2>5 DEF IsHex, Agree
<1>7. DigitsOf(y, p + d) = DigitsOf(z, p) /\ StartOf(y, p + d) = start + d
  <2>1. p + d + 3 = (p + 3) + d
    BY <1>1
  <2> QED
    BY <1>6, <2>1 DEF DigitsOf, StartOf
<1> HIDE DEF start
<1>8. WholeTo(y, p + d, sep) = whole + d
  <2>1. Ch(y, p + d) = "." <=> Ch(z, p) = "."
    <3>1. p \in Nat /\ p >= p
      BY <1>1
    <3>2. Agree(y, z, e, d, p, ".")
      BY <3>1, MatchAgrees DEF Others
    <3> QED
      BY <1>1, <3>2 DEF Agree
  <2>2. CASE Ch(z, p) = "."
    BY <2>1, <2>2 DEF WholeTo, whole
  <2>3. CASE Ch(z, p) # "."
    <3>1. whole = Past(z, start, DigitsOf(z, p) \cup seps)
      BY <2>3 DEF WholeTo, whole, start, seps
    <3>2. WholeTo(y, p + d, sep) = Past(y, start + d, DigitsOf(z, p) \cup seps)
      BY <1>7, <2>1, <2>3 DEF WholeTo, seps
    <3>3. start \in p .. e /\ whole <= e
      BY <1>1, <1>2, <1>3
    <3>4. Closed(DigitsOf(z, p) \cup seps, seps) /\ "EOI" \notin DigitsOf(z, p) \cup seps
      BY <1>4, <1>5, ClosedFacts
    <3>5. Match(y, z, p, e, d, seps)
      BY DEF seps
    <3> QED
      BY <3>1, <3>2, <3>3, <3>4, <3>5, PastMatch
  <2> QED
    BY <2>2, <2>3
<1>9. FractionTo(y, p + d, sep) = fraction + d
  <2>1. FractionTo(z, p, sep) =
          IF ~IsHex(z, p) /\ Ch(z, whole) = "." THEN Past(z, whole + 1, Digits \cup seps) ELSE whole
    BY DEF FractionTo, FractionFrom, whole, seps
  <2>2. FractionTo(y, p + d, sep) =
          IF ~IsHex(z, p) /\ Ch(y, whole + d) = "." THEN Past(y, (whole + d) + 1, Digits \cup seps)
          ELSE whole + d
    BY <1>6, <1>8 DEF FractionTo, FractionFrom, seps
  <2>3. whole \in Nat /\ whole >= p /\ (whole + d) + 1 = (whole + 1) + d
    BY <1>1, <1>2
  <2>4. Agree(y, z, e, d, whole, ".")
    BY <2>3, MatchAgrees DEF Others
  <2>5. CASE ~IsHex(z, p) /\ Ch(z, whole) = "."
    <3>1. fraction = Past(z, whole + 1, Digits \cup seps)
      BY <2>1, <2>5 DEF fraction
    <3>2. whole + 1 <= fraction
      <4>1. whole < Len(z)
        BY <1>1, <2>3, <2>5, EndOfText
      <4>2. whole + 1 \in 0 .. Len(z)
        BY <1>1, <2>3, <4>1
      <4>3. fraction \in whole + 1 .. Len(z)
        BY <1>1, <1>4, <3>1, <4>2, PastFacts
      <4> QED
        BY <1>1, <2>3, <4>3
    <3>3. whole < e /\ whole + 1 \in p .. e /\ fraction <= e
      BY <1>1, <1>2, <1>3, <3>2
    <3>4. Ch(y, whole + d) = "."
      BY <2>4, <2>5, <3>3 DEF Agree
    <3>5. Past(y, (whole + 1) + d, Digits \cup seps) = fraction + d
      <4>1. Match(y, z, p, e, d, seps)
        BY DEF seps
      <4> QED
        BY <1>4, <1>5, <3>1, <3>3, <4>1, PastMatch
    <3> QED
      BY <2>2, <2>3, <2>5, <3>4, <3>5
  <2>6. CASE ~(~IsHex(z, p) /\ Ch(z, whole) = ".")
    <3>1. ~(~IsHex(z, p) /\ Ch(y, whole + d) = ".")
      BY <2>4, <2>6 DEF Agree
    <3> QED
      BY <2>1, <2>2, <2>6, <3>1 DEF fraction
  <2> QED
    BY <2>5, <2>6
<1>10. fraction \in Nat /\ fraction >= p /\ fraction <= e
  BY <1>1, <1>2, <1>3
<1>11. /\ fraction + 1 \in Nat /\ fraction + 1 >= p /\ (fraction + d) + 1 = (fraction + 1) + d
       /\ fraction + 2 \in Nat /\ fraction + 2 >= p /\ (fraction + d) + 2 = (fraction + 2) + d
  BY <1>1, <1>10
<1>12. PowerAt(z, p, fraction) => number = Past(z, fraction + 2, Digits \cup seps)
  BY DEF NumberTo, PowerFrom, number, fraction, seps
<1>13. PowerAt(y, p + d, fraction + d) <=> PowerAt(z, p, fraction)
  <2>1. PowerAt(z, p, fraction) =>
          fraction < e /\ fraction + 1 < e /\ (Ch(z, fraction + 2) \in Digits => fraction + 2 < e)
    <3> SUFFICES ASSUME PowerAt(z, p, fraction)
                 PROVE  fraction < e /\ fraction + 1 < e
                        /\ (Ch(z, fraction + 2) \in Digits => fraction + 2 < e)
      OBVIOUS
    <3>1. fraction + 2 \in 0 .. Len(z)
      BY <1>1, <1>2, <1>11
    <3>2. Ch(z, fraction + 2) \in Digits => number > fraction + 2
      <4>1. Ch(z, fraction + 2) \in Digits \cup seps =>
              Past(z, fraction + 2, Digits \cup seps) > fraction + 2
        BY <1>1, <1>4, <3>1, PastFacts
      <4> QED
        BY <1>12, <4>1
    <3> QED
      BY <1>1, <1>2, <1>3, <1>10, <3>2
  <2>2. /\ fraction < e => (Ch(y, fraction + d) \in {"e", "E"} <=> Ch(z, fraction) \in {"e", "E"})
        /\ Ch(y, fraction + d) \in {"e", "E"} => Ch(z, fraction) \in {"e", "E"}
    <3>1. Closed({"e", "E"}, seps) /\ "EOI" \notin {"e", "E"}
      BY ClosedFacts
    <3> QED
      BY <1>10, <1>at, <3>1
  <2>3. /\ fraction + 1 < e => (Ch(y, (fraction + d) + 1) \in Digits <=> Ch(z, fraction + 1) \in Digits)
        /\ Ch(y, (fraction + d) + 1) \in Digits => Ch(z, fraction + 1) \in Digits
    BY <1>4, <1>5, <1>11, <1>at
  <2>4. /\ fraction + 2 < e => (Ch(y, (fraction + d) + 2) \in Digits <=> Ch(z, fraction + 2) \in Digits)
        /\ Ch(y, (fraction + d) + 2) \in Digits => Ch(z, fraction + 2) \in Digits
    BY <1>4, <1>5, <1>11, <1>at
  <2>5. /\ fraction + 1 < e => (Ch(y, (fraction + d) + 1) \in {"+", "-"} <=> Ch(z, fraction + 1) \in {"+", "-"})
        /\ Ch(y, (fraction + d) + 1) \in {"+", "-"} => Ch(z, fraction + 1) \in {"+", "-"}
    <3>1. Closed({"+", "-"}, seps) /\ "EOI" \notin {"+", "-"}
      <4>1. {"+"} \cup {"-"} = {"+", "-"}
        OBVIOUS
      <4> QED
        BY <1>5, <4>1
    <3> QED
      BY <1>11, <1>at, <3>1
  <2>6. PowerAt(z, p, fraction) => PowerAt(y, p + d, fraction + d)
    BY <1>6, <2>1, <2>2, <2>3, <2>4, <2>5 DEF PowerAt
  <2>7. PowerAt(y, p + d, fraction + d) => PowerAt(z, p, fraction)
    BY <1>6, <2>2, <2>3, <2>4, <2>5 DEF PowerAt
  <2> QED
    BY <2>6, <2>7
<1>14. NumberTo(y, p + d, sep) = number + d
  <2>1. CASE PowerAt(z, p, fraction)
    <3>1. NumberTo(y, p + d, sep) = Past(y, (fraction + d) + 2, Digits \cup seps)
      BY <1>9, <1>13, <2>1 DEF NumberTo, PowerFrom, seps
    <3>2. fraction + 2 \in p .. e
      BY <1>1, <1>2, <1>3, <1>11, <2>1
    <3>3. Past(y, (fraction + 2) + d, Digits \cup seps) = number + d
      <4>1. Match(y, z, p, e, d, seps)
        BY DEF seps
      <4> QED
        BY <1>3, <1>4, <1>5, <1>12, <2>1, <3>2, <4>1, PastMatch
    <3> QED
      BY <1>11, <3>1, <3>3
  <2>2. CASE ~PowerAt(z, p, fraction)
    <3>1. number = fraction
      BY <2>2 DEF NumberTo, PowerFrom, number, fraction
    <3> QED
      BY <1>9, <1>13, <2>2, <3>1 DEF NumberTo, PowerFrom
  <2> QED
    BY <2>1, <2>2
<1>15. ASSUME NEW i \in Int, NEW j \in Int, i >= p, j <= e
       PROVE  QuotedIn(y, p + d, sep, i + d, j + d) <=> QuotedIn(z, p, sep, i, j)
  <2>1. ASSUME NEW k \in Nat, k >= p, k < e
        PROVE  Ch(y, k + d) \in seps \ DigitsOf(z, p) <=> Ch(z, k) \in seps \ DigitsOf(z, p)
    BY <1>4, <1>5, <1>at, <2>1
  <2>2. ASSUME NEW k \in i .. j - 1, Ch(z, k) \in seps \ DigitsOf(z, p)
        PROVE  QuotedIn(y, p + d, sep, i + d, j + d)
    <3>1. k \in Nat /\ k >= p /\ k < e /\ k + d \in i + d .. (j + d) - 1
      BY <1>1, <1>15
    <3>2. Ch(y, k + d) \in seps \ DigitsOf(y, p + d)
      BY <1>7, <2>1, <2>2, <3>1
    <3> QED
      BY <3>1, <3>2 DEF QuotedIn, seps
  <2>3. ASSUME NEW k \in i + d .. (j + d) - 1, Ch(y, k) \in seps \ DigitsOf(y, p + d)
        PROVE  QuotedIn(z, p, sep, i, j)
    <3>1. k - d \in Nat /\ k - d >= p /\ k - d < e /\ k - d \in i .. j - 1 /\ (k - d) + d = k
      BY <1>1, <1>15
    <3>2. Ch(z, k - d) \in seps \ DigitsOf(z, p)
      BY <1>7, <2>1, <2>3, <3>1
    <3> QED
      BY <3>1, <3>2 DEF QuotedIn, seps
  <2> QED
    BY <2>2, <2>3 DEF QuotedIn, seps
<1>16. Past(y, number + d, IdChars) = e + d
  <2>1. number \in p .. e
    BY <1>1, <1>2, <1>3
  <2>2. Closed(IdChars, seps) /\ "EOI" \notin IdChars /\ Match(y, z, p, e, d, seps)
    BY ClosedFacts, NoClassHasEnd DEF seps
  <2>3. Past(z, number, IdChars) <= e
    BY <1>1
  <2> QED
    BY <2>1, <2>2, <2>3, PastMatch
<1>17. NumberType(y, p + d, sep) = NumberType(z, p, sep)
  <2>1. QuotedIn(y, p + d, sep, start + d, whole + d) <=> QuotedIn(z, p, sep, start, whole)
    BY <1>1, <1>2, <1>3, <1>15
  <2>2. QuotedIn(y, p + d, sep, (whole + d) + 1, fraction + d) <=> QuotedIn(z, p, sep, whole + 1, fraction)
    <3>1. (whole + d) + 1 = (whole + 1) + d /\ whole + 1 \in Int /\ whole + 1 >= p /\ fraction \in Int
      BY <1>1, <1>2
    <3> QED
      BY <1>10, <1>15, <3>1
  <2>3. QuotedIn(y, p + d, sep, (fraction + d) + 2, number + d)
          <=> QuotedIn(z, p, sep, fraction + 2, number)
    <3>1. number \in Int /\ fraction + 2 \in Int
      BY <1>1, <1>2
    <3> QED
      BY <1>3, <1>11, <1>15, <3>1
  <2>4. /\ e + d > number + d <=> e > number
        /\ number + d > whole + d <=> number > whole
    BY <1>1, <1>2, <1>3
  <2>5. NumberType(z, p, sep) =
          IF e > number THEN "ILLEGAL"
          ELSE IF \/ QuotedIn(z, p, sep, start, whole) \/ QuotedIn(z, p, sep, whole + 1, fraction)
                  \/ QuotedIn(z, p, sep, fraction + 2, number)
          THEN "QNUMBER"
          ELSE IF number > whole THEN "FLOAT" ELSE "INTEGER"
    BY DEF NumberType, start, whole, fraction, number
  <2>6. NumberType(y, p + d, sep) =
          IF e + d > number + d THEN "ILLEGAL"
          ELSE IF \/ QuotedIn(y, p + d, sep, start + d, whole + d)
                  \/ QuotedIn(y, p + d, sep, (whole + d) + 1, fraction + d)
                  \/ QuotedIn(y, p + d, sep, (fraction + d) + 2, number + d)
          THEN "QNUMBER"
          ELSE IF number + d > whole + d THEN "FLOAT" ELSE "INTEGER"
    BY <1>7, <1>8, <1>9, <1>14, <1>16 DEF NumberType
  <2> QED
    BY <2>1, <2>2, <2>3, <2>4, <2>5, <2>6
<1> QED
  BY <1>14, <1>16, <1>17, NumberFacts

-----------------------------------------------------------------------------

(* The characters of two more classes.                                     *)
LEMMA ClassIs ==
  ASSUME NEW c
  PROVE  /\ aiClass(c) = "OPERATOR" => c \in OperatorChars
         /\ aiClass(c) = "QUOTE" => c \in {"'", "DQ", "BT"}
  BY DEF aiClass

(* The token z has at p, if it ends at e, is the one y has there.          *)
LEMMA NextTokenMatch ==
  ASSUME NEW y, NEW z, NEW p, NEW e, NEW d, NEW sep, sep # "EOI", Match(y, z, p, e, d, SepSet(sep)),
         NEW flags
  PROVE  Scans(nextToken(y, p + d, sep, flags), nextToken(z, p, sep, flags), e, d)
<1> DEFINE seps == SepSet(sep)
           token == nextToken(z, p, sep, flags)
           alone == nextToken(y, p + d, sep, flags)
           class == classAt(z, p)
<1> SUFFICES ASSUME token.end = e
             PROVE  alone = T(token.type, e + d)
  BY DEF Scans
<1>1. /\ z \in Text /\ y \in Text /\ p \in Nat /\ e \in Nat /\ p < e /\ e <= Len(z)
      /\ Len(z) \in Nat /\ Len(y) \in Nat /\ d \in Int /\ p + d \in Nat /\ e + d <= Len(y)
      /\ Match(y, z, p, e, d, seps) /\ p \in 0 .. Len(z) - 1
  BY MatchFacts
<1>2. /\ p >= p
      /\ p + 1 \in Nat /\ p + 1 >= p /\ (p + 1) + d = p + d + 1
      /\ p + 2 \in Nat /\ p + 2 >= p /\ (p + 2) + d = p + d + 2
      /\ (p + 3) + d = p + d + 3
  BY <1>1
<1> HIDE DEF seps
<1>3. class \in Classes
  BY ClassFacts DEF classAt
<1>4. classAt(y, p + d) = class
  <2>1. Like(Ch(y, p + d), Ch(z, p), seps)
    BY <1>1, <1>2, MatchIs
  <2> QED
    BY <2>1, LikeFacts DEF classAt
<1>5. /\ p + 1 < e => (Ch(y, p + d + 1) \in Digits <=> Ch(z, p + 1) \in Digits)
      /\ Ch(y, p + d + 1) \in Digits => Ch(z, p + 1) \in Digits
  BY <1>1, <1>2, MatchAt, ClosedFacts, NoClassHasEnd
<1>6. /\ Agree(y, z, e, d, p + 1, "'") /\ Agree(y, z, e, d, p + 1, "BB")
      /\ Agree(y, z, e, d, p + 2, "BF")
  BY <1>1, <1>2, MatchAgrees DEF Others
<1>7. CASE class = "SPACE"
  <2>1. token = T("SPACE", Past(z, p + 1, Space)) /\ alone = T("SPACE", Past(y, p + d + 1, Space))
    BY <1>4, <1>7 DEF nextToken
  <2> QED
    BY <1>1, <2>1, RunMatch, ClosedFacts, NoClassHasEnd DEF Scans
<1>8. CASE class = "MINUS"
  <2>1. token = Minus(z, p) /\ alone = Minus(y, p + d)
    BY <1>4, <1>8 DEF nextToken
  <2>2. Scans(Minus(y, p + d), Minus(z, p), e, d)
    BY <1>1, MinusMatch
  <2> QED
    BY <2>1, <2>2 DEF Scans
<1>9. CASE class = "SLASH"
  <2>1. token = Slash(z, p) /\ alone = Slash(y, p + d)
    BY <1>4, <1>9 DEF nextToken
  <2>2. Scans(Slash(y, p + d), Slash(z, p), e, d)
    BY <1>1, SlashMatch
  <2> QED
    BY <2>1, <2>2 DEF Scans
<1>10. CASE class = "OPERATOR"
  <2>1. token = OperatorAt(z, p) /\ alone = OperatorAt(y, p + d)
    BY <1>4, <1>10 DEF nextToken
  <2>2. Ch(z, p) \in OperatorChars
    BY <1>10, ClassIs DEF classAt
  <2>3. Scans(OperatorAt(y, p + d), OperatorAt(z, p), e, d)
    BY <1>1, <2>2, OperatorMatch
  <2> QED
    BY <2>1, <2>3 DEF Scans
<1>11. CASE class = "QUOTE"
  <2>1. token = Quoted(z, p) /\ alone = Quoted(y, p + d)
    BY <1>4, <1>11 DEF nextToken
  <2>2. Ch(z, p) \in {"'", "DQ", "BT"}
    BY <1>11, ClassIs DEF classAt
  <2>3. Scans(Quoted(y, p + d), Quoted(z, p), e, d)
    BY <1>1, <2>2, QuotedMatch
  <2> QED
    BY <2>1, <2>3 DEF Scans
<1>12. CASE class = "QUOTE2"
  <2>1. token = Bracketed(z, p) /\ alone = Bracketed(y, p + d)
    BY <1>4, <1>12 DEF nextToken
  <2>2. Scans(Bracketed(y, p + d), Bracketed(z, p), e, d)
    BY <1>1, BracketedMatch
  <2> QED
    BY <2>1, <2>2 DEF Scans
<1>13. CASE class = "DOT" /\ Ch(z, p + 1) \notin Digits
  <2>1. token = T("DOT", p + 1) /\ alone = T("DOT", p + d + 1)
    BY <1>4, <1>5, <1>13 DEF nextToken
  <2> QED
    BY <1>2, <2>1 DEF T
<1>14. CASE class = "DIGIT" \/ (class = "DOT" /\ Ch(z, p + 1) \in Digits)
  <2>1. token = scanNumber(z, p, sep)
    BY <1>14 DEF nextToken
  <2>2. Ch(z, p) \in Digits \/ (Ch(z, p) = "." /\ Ch(z, p + 1) \in Digits)
    BY <1>14, ClassFacts DEF classAt
  <2>3. class = "DOT" => p + 1 < e
    <3> SUFFICES ASSUME class = "DOT"
                 PROVE  p + 1 < e
      OBVIOUS
    <3> DEFINE fraction == FractionTo(z, p, sep)
               number == NumberTo(z, p, sep)
    <3>1. Ch(z, p) = "." /\ Ch(z, p + 1) \in Digits
      BY <1>14, ClassFacts DEF classAt
    <3>2. fraction = Past(z, p + 1, Digits \cup SepSet(sep))
      BY <3>1 DEF FractionTo, FractionFrom, WholeTo, IsHex
    <3>3. fraction > p + 1
      <4>1. Ch(z, p + 1) # "EOI"
        BY <3>1, NoClassHasEnd
      <4>2. p + 1 \in 0 .. Len(z)
        BY <1>1, <1>2, <4>1, EndOfText
      <4> DEFINE chars == Digits \cup SepSet(sep)
      <4>3. "EOI" \notin chars
        BY NoClassHasEnd DEF SepSet
      <4>4. Ch(z, p + 1) \in chars /\ fraction = Past(z, p + 1, chars)
        BY <3>1, <3>2
      <4> HIDE DEF chars, fraction, number
      <4> QED
        BY <1>1, <4>2, <4>3, <4>4, PastFacts
    <3>4. number \in fraction .. Len(z) /\ fraction \in Nat
      BY <1>1, <2>2, NumberOrder
    <3>5. e = Past(z, number, IdChars)
      BY <2>1, NumberFacts DEF T
    <3> HIDE DEF fraction, number
    <3>6. number \in 0 .. Len(z)
      BY <1>1, <3>4
    <3>7. e \in number .. Len(z)
      BY <1>1, <3>5, <3>6, PastFacts, NoClassHasEnd
    <3> QED
      BY <1>1, <3>3, <3>4, <3>7
  <2>4. alone = scanNumber(y, p + d, sep)
    BY <1>4, <1>5, <1>14, <2>3 DEF nextToken
  <2> QED
    BY <2>1, <2>2, <2>4, NumberMatch DEF Scans
<1>15. CASE class = "VARNUM"
  <2>1. token = T("VARIABLE", Past(z, p + 1, Digits)) /\ alone = T("VARIABLE", Past(y, p + d + 1, Digits))
    BY <1>4, <1>15 DEF nextToken
  <2> QED
    BY <1>1, <2>1, RunMatch, ClosedFacts, NoClassHasEnd DEF Scans
<1>16. CASE class \in {"DOLLAR", "VARALPHA"}
  <2>1. token = Variable(z, p) /\ alone = Variable(y, p + d)
    BY <1>4, <1>16 DEF nextToken
  <2>2. Scans(Variable(y, p + d), Variable(z, p), e, d)
    BY <1>1, VariableMatch
  <2> QED
    BY <2>1, <2>2 DEF Scans
<1>17. CASE class = "KYWD0"
  <2>1. token = KeywordOrId(z, p, flags) /\ alone = KeywordOrId(y, p + d, flags)
    BY <1>4, <1>17 DEF nextToken
  <2> QED
    BY <1>1, <2>1, KeywordMatch DEF Scans
<1>18. CASE class = "X" /\ Ch(z, p + 1) = "'"
  <2>1. token = Blob(z, p)
    BY <1>18 DEF nextToken
  <2>2. p + 1 < e
    <3>1. p + 1 < Len(z)
      BY <1>1, <1>2, <1>18, EndOfText
    <3> DEFINE digits == Past(z, p + 2, XDigits)
               quote == Find(z, digits, {"'"})
    <3>2. digits \in p + 2 .. Len(z)
      <4>1. p + 2 \in 0 .. Len(z)
        BY <1>1, <3>1
      <4> QED
        BY <1>1, <4>1, PastFacts, NoClassHasEnd
    <3>3. quote \in digits .. Len(z)
      BY <1>1, <3>2, FindFacts
    <3>4. e = IF Ch(z, quote) = "EOI" THEN quote ELSE quote + 1
      BY <2>1 DEF Blob, T
    <3> HIDE DEF digits, quote
    <3> QED
      BY <1>1, <3>2, <3>3, <3>4
  <2>3. alone = Blob(y, p + d)
    BY <1>2, <1>4, <1>6, <1>18, <2>2 DEF nextToken, Agree
  <2>4. Scans(Blob(y, p + d), Blob(z, p), e, d)
    BY <1>1, <1>18, BlobMatch
  <2> QED
    BY <2>1, <2>3, <2>4 DEF Scans
<1>19. CASE class = "BOM" /\ Ch(z, p + 1) = "BB" /\ Ch(z, p + 2) = "BF"
  <2>1. token = T("SPACE", p + 3)
    BY <1>19 DEF nextToken
  <2>2. e = p + 3 /\ p + 1 < e /\ p + 2 < e
    BY <1>1, <2>1 DEF T
  <2>3. Ch(y, p + d + 1) = "BB" /\ Ch(y, p + d + 2) = "BF"
    BY <1>2, <1>6, <1>19, <2>2 DEF Agree
  <2>4. alone = T("SPACE", p + d + 3)
    BY <1>4, <1>19, <2>3 DEF nextToken
  <2> QED
    BY <1>2, <2>1, <2>2, <2>4 DEF T
<1>20. CASE \/ class \in {"KYWD", "ID"} \/ (class = "X" /\ Ch(z, p + 1) # "'")
            \/ (class = "BOM" /\ (Ch(z, p + 1) # "BB" \/ Ch(z, p + 2) # "BF"))
  <2>1. token = Identifier(z, p)
    BY <1>20 DEF nextToken
  <2>2. \/ class \in {"KYWD", "ID"} \/ (class = "X" /\ Ch(y, p + d + 1) # "'")
        \/ (class = "BOM" /\ (Ch(y, p + d + 1) # "BB" \/ Ch(y, p + d + 2) # "BF"))
    BY <1>2, <1>6, <1>20 DEF Agree
  <2>3. alone = Identifier(y, p + d)
    BY <1>4, <2>2 DEF nextToken
  <2> QED
    BY <1>1, <2>1, <2>3, RunMatch, ClosedFacts, NoClassHasEnd DEF Identifier, Scans
<1>21. CASE class = "NUL"
  <2>1. token.end = p
    BY <1>21 DEF nextToken, T
  <2> QED
    BY <1>1, <2>1
<1>22. CASE class = "ILLEGAL"
  <2>1. token = T("ILLEGAL", p + 1) /\ alone = T("ILLEGAL", p + d + 1)
    BY <1>4, <1>22 DEF nextToken, Illegal
  <2> QED
    BY <1>2, <2>1 DEF T
<1> QED
  BY <1>3, <1>7, <1>8, <1>9, <1>10, <1>11, <1>12, <1>13, <1>14, <1>15, <1>16, <1>17, <1>18,
     <1>19, <1>20, <1>21, <1>22 DEF Classes

-----------------------------------------------------------------------------

(* A token returned is what the scanner finds at its offset.               *)
FromSource(sql, token) ==
  LET offset == token.span.offset
      end    == offset + token.span.length
  IN  /\ offset \in 0 .. Len(sql.source) - 1 /\ end \in offset + 1 .. Len(sql.source)
      /\ token.span.length \in Nat
      /\ Scan(sql, offset).type = token.type /\ Scan(sql, offset).end = end
      /\ token.text = SubSeq(sql.source, offset + 1, end)

AllFromSource == \A i \in DOMAIN emitted : FromSource(input, emitted[i])

(* A call of next that returns a token adds one of these.                  *)
LEMMA TokenFromSource ==
  ASSUME StreamInv, AllFromSource, NextToken
  PROVE  AllFromSource'
<1> DEFINE at == SkipTrivia(input, cursor)
           scanned == Scan(input, at.offset)
           token == [type |-> scanned.type,
                     text |-> SubSeq(input.source, at.offset + 1, scanned.end),
                     span |-> [offset |-> at.offset, length |-> scanned.end - at.offset,
                               line |-> at.line, col |-> at.col]]
           n == Len(emitted)
<1>1. at \in Cursor /\ at.offset \in cursor.offset .. Len(input.source)
  BY SkipKeeps
<1>2. input \in Request /\ Len(input.source) \in Nat /\ cursor.offset \in Nat
  BY InputFacts DEF StreamInv, StreamOK, Cursor
<1>3. /\ at.offset < Len(input.source) /\ scanned.end # at.offset
      /\ emitted' = Append(emitted, token) /\ input' = input
  BY DEF NextToken
<1>4. PICK S : emitted \in Seq(S)
  BY DEF StreamInv, StreamOK
<1>5. at.offset \in 0 .. Len(input.source) - 1
  BY <1>1, <1>2, <1>3
<1>6. scanned.end \in at.offset + 1 .. Len(input.source)
  <2>1. scanned.end \in at.offset .. Len(input.source)
    BY <1>2, <1>5, ScanFacts
  <2> QED
    BY <1>2, <1>3, <1>5, <2>1
<1>7. FromSource(input, token)
  <2>1. /\ token.span.offset = at.offset /\ token.span.length = scanned.end - at.offset
        /\ token.type = scanned.type
        /\ token.text = SubSeq(input.source, at.offset + 1, scanned.end)
    OBVIOUS
  <2> HIDE DEF token
  <2>2. at.offset + (scanned.end - at.offset) = scanned.end /\ scanned.end - at.offset \in Nat
    BY <1>2, <1>5, <1>6
  <2> QED
    BY <1>5, <1>6, <2>1, <2>2 DEF FromSource
<1> HIDE DEF at, scanned, token
<1>8. /\ DOMAIN emitted' = 1 .. n + 1 /\ DOMAIN emitted = 1 .. n /\ n \in Nat
      /\ emitted'[n + 1] = token /\ \A i \in 1 .. n : emitted'[i] = emitted[i]
  <2>1. emitted' \in Seq(S \cup {token})
    BY <1>3, <1>4, SeqMonotonic, AppendProperties
  <2>2. Len(emitted') = n + 1 /\ emitted'[n + 1] = token
        /\ \A i \in 1 .. n : emitted'[i] = emitted[i]
    BY <1>3, <1>4, AppendProperties
  <2> QED
    BY <1>4, <2>1, <2>2, LenProperties
<1> HIDE DEF n
<1>9. ASSUME NEW i \in DOMAIN emitted'
      PROVE  FromSource(input, emitted'[i])
  <2>1. i = n + 1 \/ i \in 1 .. n
    BY <1>8
  <2>2. CASE i = n + 1
    BY <1>7, <1>8, <2>2
  <2>3. CASE i \in 1 .. n
    BY <1>8, <2>3 DEF AllFromSource
  <2> QED
    BY <2>1, <2>2, <2>3
<1> QED
  BY <1>3, <1>9 DEF AllFromSource

(* Every token returned is what the scanner finds at its offset.           *)
THEOREM TokensFromSource == StreamSpec => [](StreamInv /\ AllFromSource)
<1>1. StreamInit => AllFromSource
  BY DEF StreamInit, AllFromSource
<1>2. StreamInv /\ AllFromSource /\ [StreamNext]_streamVars => AllFromSource'
  <2> SUFFICES ASSUME StreamInv, AllFromSource, [StreamNext]_streamVars
               PROVE  AllFromSource'
    OBVIOUS
  <2>1. CASE NextToken
    BY <2>1, TokenFromSource
  <2>2. CASE NextDone
    BY <2>2 DEF NextDone, AllFromSource
  <2>3. CASE UNCHANGED streamVars
    BY <2>3 DEF streamVars, AllFromSource
  <2> QED
    BY <2>1, <2>2, <2>3 DEF StreamNext
<1> QED
  BY <1>1, <1>2, StreamInvariant, PTL DEF StreamSpec

(* The text of a token matches the source it is cut out of.                *)
LEMMA CutMatches ==
  ASSUME NEW z \in Text, NEW p \in 0 .. Len(z) - 1, NEW e \in p + 1 .. Len(z), NEW seps
  PROVE  Match(SubSeq(z, p + 1, e), z, p, e, -p, seps)
<1> DEFINE y == SubSeq(z, p + 1, e)
<1>1. Len(z) \in Nat /\ p \in Nat /\ e \in Nat /\ p < e /\ e <= Len(z) /\ z \in Seq(Characters)
  BY DEF Text
<1>2. y \in Text /\ Len(y) = e - p /\ \A i \in 1 .. e - p : y[i] = z[p + i]
  BY <1>1 DEF Text
<1> HIDE DEF y
<1>3. ASSUME NEW k \in Nat, k >= p
      PROVE  \/ Like(Ch(y, k + (-p)), Ch(z, k), seps)
             \/ k >= e /\ Ch(y, k + (-p)) = "EOI"
  <2>1. CASE k < e
    <3>1. Ch(y, k + (-p)) = Ch(z, k)
      BY <1>1, <1>2, <1>3, <2>1 DEF Ch
    <3> QED
      BY <3>1 DEF Like
  <2>2. CASE k >= e
    BY <1>1, <1>2, <1>3, <2>2 DEF Ch
  <2> QED
    BY <1>1, <2>1, <2>2
<1>4. -p \in Int /\ p + (-p) >= 0 /\ e + (-p) <= Len(y)
  BY <1>1, <1>2
<1> QED
  BY <1>1, <1>2, <1>3, <1>4 DEF Match, y

(* TokenStandsAlone for every source, separator and set of flags: what     *)
(* nextToken reads after a token never decides what it is.                 *)
THEOREM TokensStandAlone == StreamSpec => []TokenStandsAlone
<1>1. StreamInv /\ AllFromSource => TokenStandsAlone
  <2> SUFFICES ASSUME StreamInv, AllFromSource, NEW i \in DOMAIN emitted
               PROVE  nextToken(emitted[i].text, 0, input.digitSep, input.flags)
                        = T(emitted[i].type, emitted[i].span.length)
    BY DEF TokenStandsAlone
  <2> DEFINE z == input.source
             p == emitted[i].span.offset
             length == emitted[i].span.length
             e == p + length
             sep == input.digitSep
  <2>1. z \in Text /\ sep # "EOI" /\ Len(z) \in Nat
    BY InputFacts, RequestText DEF StreamInv, StreamOK
  <2>2. /\ p \in 0 .. Len(z) - 1 /\ e \in p + 1 .. Len(z) /\ length \in Nat
        /\ nextToken(z, p, sep, input.flags).type = emitted[i].type
        /\ nextToken(z, p, sep, input.flags).end = e
        /\ emitted[i].text = SubSeq(z, p + 1, e)
    BY DEF AllFromSource, FromSource, Scan
  <2>3. Match(emitted[i].text, z, p, e, -p, SepSet(sep))
    BY <2>1, <2>2, CutMatches
  <2>4. Scans(nextToken(emitted[i].text, p + (-p), sep, input.flags),
              nextToken(z, p, sep, input.flags), e, -p)
    BY <2>1, <2>3, NextTokenMatch
  <2> HIDE DEF z, sep, p, length
  <2>5. p + (-p) = 0 /\ e + (-p) = length
    <3>1. p \in Int /\ length \in Int
      BY <2>1, <2>2
    <3> QED
      BY ONLY <3>1
  <2> HIDE DEF e
  <2> QED
    BY <2>2, <2>4, <2>5 DEF Scans, sep, length
<1> QED
  BY <1>1, TokensFromSource, PTL

(* A source matches itself.                                                *)
LEMMA SameMatches ==
  ASSUME NEW z \in Text, NEW p \in 0 .. Len(z) - 1, NEW e \in p + 1 .. Len(z), NEW seps
  PROVE  Match(z, z, p, e, 0, seps)
<1>1. Len(z) \in Nat /\ p \in Nat /\ e \in Nat /\ e <= Len(z)
  BY DEF Text
<1>2. ASSUME NEW k \in Nat
      PROVE  Like(Ch(z, k + 0), Ch(z, k), seps)
  BY DEF Like
<1> QED
  BY <1>1, <1>2 DEF Match

(* Swapping the case of a character leaves one that is alike, unless it is *)
(* the separator: hence no letter may be one.                              *)
LEMMA SwapLike ==
  ASSUME NEW c, NEW sep, sep \notin Letters
  PROVE  LET s == IF c \in Upper THEN LowerOf[c] ELSE UpperOf(c)
         IN  Like(s, c, SepSet(sep)) /\ (s = c \/ s \in Letters)
<1> DEFINE s == IF c \in Upper THEN LowerOf[c] ELSE UpperOf(c)
<1>1. \E u \in Upper : {s, c} = {u, LowerOf[u]} \/ s = c
  <2>1. CASE c \in Upper
    BY <2>1
  <2>2. CASE c \notin Upper /\ c \in Lower
    <3>1. PICK u \in Upper : LowerOf[u] = c
      BY <2>2 DEF Lower
    <3>2. UpperOf(c) \in Upper /\ LowerOf[UpperOf(c)] = c
      BY <2>2, <3>1 DEF UpperOf
    <3> QED
      BY <2>2, <3>2
  <2>3. CASE c \notin Upper /\ c \notin Lower
    BY <2>3 DEF UpperOf, Upper
  <2> QED
    BY <2>1, <2>2, <2>3
<1> HIDE DEF s
<1>2. s = c \/ \E u \in Upper : {s, c} = {u, LowerOf[u]}
  BY <1>1
<1>3. CASE s = c
  BY <1>3 DEF Like, s
<1>4. CASE s # c
  <2>1. PICK u \in Upper : {s, c} = {u, LowerOf[u]}
    BY <1>2, <1>4
  <2>2. s \in Letters /\ c \in Letters
    BY <2>1, SwapFacts
  <2>3. s \notin SepSet(sep) /\ c \notin SepSet(sep)
    BY <2>2 DEF SepSet
  <2> QED
    BY <2>1, <2>2, <2>3 DEF Like, s
<1> QED
  BY <1>3, <1>4

(* A source matches the one in the other case.                             *)
LEMMA SwapMatches ==
  ASSUME NEW z \in Text, NEW p \in 0 .. Len(z) - 1, NEW e \in p + 1 .. Len(z), NEW sep, sep \notin Letters
  PROVE  Match(SwapCase(z), z, p, e, 0, SepSet(sep))
<1> DEFINE y == SwapCase(z)
           swap(c) == IF c \in Upper THEN LowerOf[c] ELSE UpperOf(c)
<1>1. Len(z) \in Nat /\ p \in Nat /\ e \in Nat /\ e <= Len(z) /\ DOMAIN z = 1 .. Len(z)
  BY DEF Text
<1>2. y = [i \in 1 .. Len(z) |-> swap(z[i])]
  BY <1>1 DEF SwapCase
<1>3. ASSUME NEW c \in Characters
      PROVE  swap(c) \in Characters
  <2>1. \A l \in Letters : l \in Characters
    BY LetterFacts DEF Others, Characters
  <2>2. swap(c) = c \/ swap(c) \in Letters
    BY SwapLike
  <2> HIDE DEF swap
  <2> QED
    BY <2>1, <2>2
<1>4. \A c : Like(swap(c), c, SepSet(sep))
  BY SwapLike
<1> HIDE DEF swap, y
<1>5. y \in Text /\ Len(y) = Len(z) /\ \A i \in 1 .. Len(z) : y[i] = swap(z[i])
  <2>1. \A i \in 1 .. Len(z) : swap(z[i]) \in Characters
    <3>1. \A i \in 1 .. Len(z) : z[i] \in Characters
      BY DEF Text
    <3> QED
      BY <1>3, <3>1
  <2>2. y \in Text
    BY <1>1, <1>2, <2>1 DEF Text
  <2> QED
    BY <1>1, <1>2, <2>2 DEF Text
<1>6. ASSUME NEW k \in Nat
      PROVE  Like(Ch(y, k + 0), Ch(z, k), SepSet(sep))
  <2>1. CASE k < Len(z)
    <3>1. k + 1 \in 1 .. Len(z) /\ k + 0 = k
      BY <1>1, <2>1
    <3>2. Ch(y, k + 0) = swap(z[k + 1]) /\ Ch(z, k) = z[k + 1]
      BY <1>5, <2>1, <3>1 DEF Ch
    <3> QED
      BY <1>4, <3>2
  <2>2. CASE k >= Len(z)
    BY <1>1, <1>5, <2>2 DEF Ch, Like
  <2> QED
    BY <1>1, <2>1, <2>2
<1> QED
  BY <1>1, <1>5, <1>6 DEF Match, y

(* CaseInsensitive for every source: the tokens are the same in the other  *)
(* case. The separator of digits, an option of the tokenizer that nothing  *)
(* restricts, must not be a letter, as only one of its cases would be a    *)
(* separator.                                                              *)
THEOREM CaseNeverMatters ==
  ASSUME \A sql \in Inputs : sql.digitSep \notin Letters
  PROVE  StreamSpec => []CaseInsensitive
<1>1. StreamInv /\ AllFromSource => CaseInsensitive
  <2> SUFFICES ASSUME StreamInv, AllFromSource, NEW i \in DOMAIN emitted
               PROVE  nextToken(SwapCase(input.source), emitted[i].span.offset,
                                input.digitSep, input.flags)
                        = Scan(input, emitted[i].span.offset)
    BY DEF CaseInsensitive
  <2> DEFINE z == input.source
             p == emitted[i].span.offset
             e == p + emitted[i].span.length
             sep == input.digitSep
             token == nextToken(z, p, sep, input.flags)
             swapped == nextToken(SwapCase(z), p, sep, input.flags)
  <2>1. z \in Text /\ sep # "EOI" /\ sep \notin Letters
    BY InputFacts, RequestText DEF StreamInv, StreamOK
  <2>2. p \in 0 .. Len(z) - 1 /\ e \in p + 1 .. Len(z) /\ token.end = e
    BY DEF AllFromSource, FromSource, Scan
  <2>3. Match(z, z, p, e, 0, SepSet(sep)) /\ Match(SwapCase(z), z, p, e, 0, SepSet(sep))
    BY <2>1, <2>2, SameMatches, SwapMatches
  <2>4. p + 0 = p /\ e + 0 = e
    BY <2>1, <2>2 DEF Text
  <2>5. Scans(nextToken(z, p + 0, sep, input.flags), token, e, 0)
        /\ Scans(nextToken(SwapCase(z), p + 0, sep, input.flags), token, e, 0)
    BY <2>1, <2>3, NextTokenMatch
  <2>6. token = T(token.type, e) /\ swapped = T(token.type, e)
    <3> HIDE DEF z, p, e, sep
    <3> QED
      BY <2>2, <2>4, <2>5 DEF Scans
  <2> QED
    BY <2>6 DEF Scan
<1> QED
  BY <1>1, TokensFromSource, PTL
-----------------------------------------------------------------------------
(* Texts of illegal tokens *)

(* A text with one more character.                                         *)
LEMMA AppendedText ==
  ASSUME NEW y \in Text, NEW c \in Characters
  PROVE  /\ Append(y, c) \in Text /\ Len(Append(y, c)) = Len(y) + 1 /\ Len(y) \in Nat
         /\ \A k \in 0 .. Len(y) - 1 : Ch(Append(y, c), k) = Ch(y, k)
         /\ Ch(Append(y, c), Len(y)) = c
         /\ \A k \in Nat : k > Len(y) => Ch(Append(y, c), k) = "EOI"
<1> DEFINE w == Append(y, c)
           n == Len(y)
<1>1. w \in Text /\ n \in Nat /\ Len(w) = n + 1 /\ w[n + 1] = c /\ \A k \in 1 .. n : w[k] = y[k]
  BY DEF Text
<1> HIDE DEF w, n
<1>2. ASSUME NEW k \in 0 .. n - 1
      PROVE  Ch(w, k) = Ch(y, k)
  <2>1. k < Len(w) /\ k < n /\ k + 1 \in 1 .. n
    BY <1>1
  <2> QED
    BY <1>1, <2>1 DEF Ch, n
<1>3. Ch(w, n) = c
  <2>1. n < Len(w)
    BY <1>1
  <2> QED
    BY <1>1, <2>1 DEF Ch
<1>4. \A k \in Nat : k > n => Ch(w, k) = "EOI"
  <2>1. \A k \in Nat : k > n => ~(k < Len(w))
    BY <1>1
  <2> QED
    BY <2>1 DEF Ch
<1> QED
  BY <1>1, <1>2, <1>3, <1>4 DEF w, n

(* The first characters an illegal token is judged by.                     *)
LEMMA JudgedClasses ==
  ASSUME NEW c
  PROVE  /\ c \in {"'", "DQ", "BT"} => aiClass(c) = "QUOTE"
         /\ c = "[" => aiClass(c) = "QUOTE2"
         /\ c \in Digits => aiClass(c) = "DIGIT"
         /\ c = "." => aiClass(c) = "DOT"
<1>1. ASSUME c \in {"'", "DQ", "BT", "[", "."} \cup Digits
      PROVE  c \notin Letters /\ c # "_"
  <2>1. NotALetter(c)
    BY <1>1 DEF NotALetter
  <2>2. c # "_"
    BY <1>1 DEF Digits
  <2> QED
    BY <2>1, <2>2, LetterFacts
<1>2. {"x", "X"} \subseteq Letters /\ KywdChars \subseteq Letters \cup {"_"}
  <2>1. {"X", "Y", "Z"} \subseteq Upper
    BY DEF Upper
  <2>2. LowerOf["X"] = "x" /\ LowerOf["Y"] = "y" /\ LowerOf["Z"] = "z"
    BY DEF LowerOf
  <2>3. {"x", "y", "z"} \subseteq Lower
    BY <2>1, <2>2 DEF Lower
  <2> QED
    BY <2>1, <2>3 DEF Letters, KywdChars
<1>3. ASSUME c \in {"'", "DQ", "BT", "[", "."} \cup Digits
      PROVE  c \notin {"x", "X"} /\ c \notin KywdChars /\ c \notin Letters \ (KywdChars \cup {"x", "X"})
  BY <1>1, <1>2, <1>3
<1>4. c \in {"'", "DQ", "BT"} => aiClass(c) = "QUOTE"
  <2> SUFFICES ASSUME c \in {"'", "DQ", "BT"} PROVE aiClass(c) = "QUOTE"
    OBVIOUS
  <2>1. c \notin Digits /\ c \notin SpaceClass /\ c \notin OperatorChars
    BY DEF Digits, SpaceClass, OperatorChars
  <2> QED
    BY <1>3, <2>1 DEF aiClass, HighChars
<1>5. c = "[" => aiClass(c) = "QUOTE2"
  <2> SUFFICES ASSUME c = "[" PROVE aiClass(c) = "QUOTE2"
    OBVIOUS
  <2>1. c \notin Digits /\ c \notin SpaceClass /\ c \notin OperatorChars
    BY DEF Digits, SpaceClass, OperatorChars
  <2> QED
    BY <1>3, <2>1 DEF aiClass, HighChars
<1>6. c = "." => aiClass(c) = "DOT"
  <2> SUFFICES ASSUME c = "." PROVE aiClass(c) = "DOT"
    OBVIOUS
  <2>1. c \notin Digits /\ c \notin SpaceClass /\ c \notin OperatorChars
    BY DEF Digits, SpaceClass, OperatorChars
  <2> QED
    BY <1>3, <2>1 DEF aiClass, HighChars
<1>7. c \in Digits => aiClass(c) = "DIGIT"
  <2> SUFFICES ASSUME c \in Digits PROVE aiClass(c) = "DIGIT"
    OBVIOUS
  <2>1. c \notin SpaceClass /\ c \notin OperatorChars
    BY DEF Digits, SpaceClass, OperatorChars
  <2>2. c \notin {"'", "DQ", "BT", "[", "@", "#", ":", "$", "?", "-", "/", ".", "EF", "NUL", "EOI"}
        /\ c \notin HighChars
    BY DEF Digits, HighChars
  <2> QED
    BY <1>3, <2>1, <2>2 DEF aiClass
<1> QED
  BY <1>4, <1>5, <1>6, <1>7

(* A text that is not closed, closed: the loop of Quoted passes the same   *)
(* pairs, and finds the quote where the text ended.                        *)
LEMMA QuoteCloses ==
  ASSUME NEW y \in Text, Len(y) > 0, Ch(y, 0) \in {"'", "DQ", "BT"},
         Quoted(y, 0) = T("ILLEGAL", Len(y))
  PROVE  Quoted(Append(y, Ch(y, 0)), 0) = T(IF Ch(y, 0) = "'" THEN "STRING" ELSE "ID", Len(y) + 1)
<1> DEFINE c == Ch(y, 0)
           n == Len(y)
           w == Append(y, c)
<1>1. n \in Nat /\ 0 \in 0 .. n - 1 /\ c \in Characters /\ c # "EOI" /\ c = y[1]
  <2>1. n \in Nat /\ 0 \in 0 .. n - 1
    BY DEF Text
  <2>2. y[1] \in Characters /\ c = y[1]
    BY <2>1 DEF Text, Ch
  <2> QED
    BY <2>1, <2>2
<1> HIDE DEF c, n
<1>2. /\ w \in Text /\ Len(w) = n + 1
      /\ \A k \in 0 .. n - 1 : Ch(w, k) = Ch(y, k)
      /\ Ch(w, n) = c /\ \A k \in Nat : k > n => Ch(w, k) = "EOI"
  BY <1>1, AppendedText DEF n
<1> HIDE DEF w
<1>3. PICK f : QuoteLoop(f, y, c) /\ Quoted(y, 0) = QuotedTo(y, f[0 + 1])
  BY <1>1, QuotedFacts DEF c, n
<1>4. PICK g : QuoteLoop(g, w, c) /\ Quoted(w, 0) = QuotedTo(w, g[0 + 1])
  <2>1. 0 \in 0 .. Len(w) - 1 /\ Ch(w, 0) = c
    BY <1>1, <1>2 DEF c
  <2> QED
    BY <1>2, <2>1, QuotedFacts
<1>5. f[1] = n
  <2>1. QuotedTo(y, f[1]) = T("ILLEGAL", n)
    BY <1>3 DEF n
  <2>2. Ch(y, f[1]) = "EOI" => QuotedTo(y, f[1]) = T("ILLEGAL", f[1])
    BY DEF QuotedTo
  <2>3. Ch(y, f[1]) # "EOI" => QuotedTo(y, f[1]).type # "ILLEGAL"
    BY DEF QuotedTo, T
  <2> QED
    BY <2>1, <2>2, <2>3 DEF T
<1> DEFINE C == PairsIn(y, c)
           step == AfterPair(y, c)
           result == NextQuote(y, c)
           P == {i \in Nat : i <= n /\ f[i] = n => g[i] = n}
<1>6. Forward(C, step, result, n)
  BY <1>1, QuoteForward DEF n
<1>find. ASSUME NEW i \in Nat, i <= n
         PROVE  /\ Find(y, i, {c}) \in i .. n
                /\ Find(w, i, {c}) = Find(y, i, {c})
  <2> DEFINE m == Find(y, i, {c})
  <2>1. m \in i .. n /\ Ch(y, m) \in {c} \cup {"EOI"} /\ \A k \in i .. m - 1 : Ch(y, k) \notin {c} \cup {"EOI"}
    <3>1. i \in 0 .. Len(y)
      BY <1>1, <1>find DEF n
    <3> QED
      BY <3>1, FindFacts DEF n
  <2> HIDE DEF m
  <2>2. m \in Nat /\ m <= n /\ i \in 0 .. Len(w) /\ m \in i .. Len(w)
    BY <1>1, <1>2, <1>find, <2>1
  <2>3. Ch(w, m) = c
    <3>1. CASE m = n
      BY <1>2, <3>1
    <3>2. CASE m < n
      <4>1. m \in 0 .. n - 1 /\ m < Len(y)
        BY <1>1, <2>2, <3>2 DEF n
      <4>2. Ch(y, m) # "EOI"
        BY <2>2, <4>1, EndOfText DEF n
      <4> QED
        BY <1>2, <2>1, <4>1, <4>2
    <3> QED
      BY <1>1, <2>2, <3>1, <3>2
  <2>4. \A k \in i .. m - 1 : Ch(w, k) \notin {c} \cup {"EOI"}
    <3>1. \A k \in i .. m - 1 : k \in 0 .. n - 1
      BY <1>1, <2>1, <2>2
    <3> QED
      BY <1>2, <2>1, <3>1
  <2>5. Find(w, i, {c}) = m
    <3>1. Ch(w, m) \in {c} \cup {"EOI"} /\ w \in Text
      BY <1>2, <2>3
    <3> QED
      BY <2>2, <2>4, <3>1, FindIs
  <2> QED
    BY <2>1, <2>5 DEF m
<1>7. ASSUME NEW i \in Nat, i \notin C
      PROVE  i \in P
  <2> SUFFICES ASSUME i <= n, f[i] = n
               PROVE  g[i] = n
    OBVIOUS
  <2>1. f[i] = Find(y, i, {c})
    BY <1>3, <1>7 DEF QuoteLoop, Loops, NextQuote
  <2>2. Find(w, i, {c}) = n
    BY <1>find, <2>1
  <2>3. Ch(w, n + 1) = "EOI"
    BY <1>1, <1>2
  <2>4. i \notin PairsIn(w, c)
    BY <1>1, <2>2, <2>3 DEF PairsIn
  <2> QED
    BY <1>4, <2>2, <2>4 DEF QuoteLoop, Loops, NextQuote
<1>8. ASSUME NEW i \in C, step[i] \in P
      PROVE  i \in P
  <2>1. i \in Nat /\ step[i] = Find(y, i, {c}) + 2 /\ f[i] = f[step[i]]
        /\ Ch(y, Find(y, i, {c})) # "EOI" /\ Ch(y, Find(y, i, {c}) + 1) = c
    BY <1>3 DEF QuoteLoop, Loops, PairsIn, AfterPair
  <2> SUFFICES ASSUME i <= n, f[i] = n
               PROVE  g[i] = n
    BY <2>1
  <2> DEFINE m == Find(y, i, {c})
  <2>2. m \in i .. n /\ Find(w, i, {c}) = m
    BY <1>find, <2>1
  <2>3. step[i] <= n
    BY <1>6 DEF Forward
  <2> HIDE DEF m, step, C
  <2>4. m + 2 <= n /\ m \in 0 .. n - 1 /\ m + 1 \in 0 .. n - 1 /\ m + 2 \in Nat
    BY <1>1, <2>1, <2>2, <2>3 DEF m
  <2>5. Ch(w, m) # "EOI" /\ Ch(w, m + 1) = c
    BY <1>2, <2>1, <2>4 DEF m
  <2>6. i \in PairsIn(w, c)
    BY <2>1, <2>2, <2>5 DEF PairsIn
  <2>7. g[i] = g[m + 2]
    BY <1>4, <2>1, <2>2, <2>6 DEF QuoteLoop, Loops, AfterPair
  <2>8. step[i] = m + 2 /\ f[m + 2] = n
    BY <2>1 DEF m
  <2> QED
    BY <1>8, <2>4, <2>7, <2>8
<1>9. \A i \in Nat : i \in P
  <2>1. P \in SUBSET Nat
    OBVIOUS
  <2> HIDE DEF P, C, step, result
  <2> QED
    BY <1>6, <1>7, <1>8, <2>1, ForwardInduction
<1>10. g[1] = n
  BY <1>1, <1>5, <1>9
<1>11. Quoted(w, 0) = QuotedTo(w, n)
  BY <1>4, <1>10
<1>12. QuotedTo(w, n) = T(IF c = "'" THEN "STRING" ELSE "ID", n + 1)
  BY <1>1, <1>2 DEF QuotedTo
<1> QED
  BY <1>11, <1>12 DEF w, c, n

(* The same for [names].                                                   *)
LEMMA BracketCloses ==
  ASSUME NEW y \in Text, Len(y) > 0, Bracketed(y, 0) = T("ILLEGAL", Len(y))
  PROVE  Bracketed(Append(y, "]"), 0) = T("ID", Len(y) + 1)
<1> DEFINE n == Len(y)
           w == Append(y, "]")
           m == Find(y, 1, {"]"})
<1>1. n \in Nat /\ 1 \in 0 .. n /\ "]" \in Characters
  BY DEF Text, Characters
<1>2. m \in 1 .. n /\ Ch(y, m) \in {"]"} \cup {"EOI"} /\ \A k \in 1 .. m - 1 : Ch(y, k) \notin {"]"} \cup {"EOI"}
  BY <1>1, FindFacts
<1>3. Bracketed(y, 0) = IF Ch(y, m) = "EOI" THEN T("ILLEGAL", m) ELSE T("ID", m + 1)
  BY DEF Bracketed
<1> HIDE DEF m, n
<1>4. m = n
  BY <1>3 DEF T, n
<1>5. /\ w \in Text /\ Len(w) = n + 1
      /\ \A k \in 0 .. n - 1 : Ch(w, k) = Ch(y, k) /\ Ch(w, n) = "]"
  BY <1>1, AppendedText DEF n
<1>6. Ch(w, n) = "]"
  BY <1>1, AppendedText DEF n
<1> HIDE DEF w
<1>7. Find(w, 1, {"]"}) = n
  <2>1. 1 \in 0 .. Len(w) /\ n \in 1 .. Len(w)
    BY <1>1, <1>5
  <2>2. \A k \in 1 .. n - 1 : Ch(w, k) \notin {"]"} \cup {"EOI"}
    <3>1. \A k \in 1 .. n - 1 : k \in 0 .. n - 1
      BY <1>1
    <3> QED
      BY <1>2, <1>4, <1>5, <3>1
  <2> QED
    BY <1>5, <1>6, <2>1, <2>2, FindIs
<1>8. Bracketed(w, 0) = T("ID", n + 1)
  BY <1>6, <1>7 DEF Bracketed
<1> QED
  BY <1>8 DEF w, n

(* A digit alone is a number.                                              *)
LEMMA DigitAlone ==
  ASSUME NEW c \in Characters, c \in Digits, NEW sep, sep # "EOI", NEW flags
  PROVE  nextToken(<<c>>, 0, sep, flags) = T("INTEGER", 1)
<1> DEFINE z == <<c>>
           seps == SepSet(sep)
<1>1. z \in Text /\ Len(z) = 1 /\ Ch(z, 0) = c /\ \A k \in Nat : k >= 1 => Ch(z, k) = "EOI"
  BY DEF Text, Ch
<1>2. c # "." /\ c # "EOI" /\ "EOI" \notin Digits /\ "EOI" \notin XDigits /\ "EOI" \notin seps
      /\ "EOI" \notin IdChars
  BY NoClassHasEnd DEF Digits, SepSet
<1> HIDE DEF z, seps
<1>3. ~IsHex(z, 0) /\ StartOf(z, 0) = 0 /\ DigitsOf(z, 0) = Digits
  <2>1. ~IsHex(z, 0)
    BY <1>1 DEF IsHex
  <2> QED
    BY <2>1 DEF StartOf, DigitsOf
<1>4. WholeTo(z, 0, sep) = 1
  <2>1. Past(z, 0, Digits \cup seps) = 1
    <3>1. 1 \in 0 .. Len(z) /\ 0 \in 0 .. Len(z) /\ Ch(z, 1) \notin Digits \cup seps
      BY <1>1, <1>2
    <3>2. \A k \in 0 .. 1 - 1 : Ch(z, k) \in Digits \cup seps
      BY <1>1
    <3> QED
      BY <1>1, <1>2, <3>1, <3>2, PastIs
  <2> QED
    BY <1>1, <1>2, <1>3, <2>1 DEF WholeTo, seps
<1>5. FractionFrom(z, 0, sep, 1) = 1 /\ PowerFrom(z, 0, sep, 1) = 1
  <2>1. Ch(z, 1) = "EOI"
    BY <1>1
  <2> QED
    BY <2>1 DEF FractionFrom, PowerFrom, PowerAt
<1>6. Past(z, 1, IdChars) = 1
  <2>1. 1 \in 0 .. Len(z) /\ Ch(z, 1) \notin IdChars /\ 1 \in 1 .. Len(z) /\ \A k \in 1 .. 1 - 1 : Ch(z, k) \in IdChars
    BY <1>1, <1>2
  <2> QED
    BY <1>1, <1>2, <2>1, PastIs
<1>7. ~QuotedIn(z, 0, sep, 0, 1) /\ ~QuotedIn(z, 0, sep, 2, 1) /\ ~QuotedIn(z, 0, sep, 3, 1)
  BY <1>1, <1>3 DEF QuotedIn
<1>8. scanNumber(z, 0, sep) = T("INTEGER", 1)
  <2>1. StartOf(z, 0) = 0 /\ 1 + 1 = 2 /\ 1 + 2 = 3
    BY <1>3
  <2> QED
    BY <1>4, <1>5, <1>6, <1>7, <2>1 DEF scanNumber
<1>9. classAt(z, 0) = "DIGIT"
  BY <1>1, JudgedClasses DEF classAt
<1> QED
  BY <1>8, <1>9 DEF nextToken, z

(* A point with a digit after it alone is a number.                        *)
LEMMA FractionAlone ==
  ASSUME NEW d \in Characters, NEW c \in Characters, d = ".", c \in Digits,
         NEW sep, sep # "EOI", NEW flags
  PROVE  nextToken(<<d, c>>, 0, sep, flags) = T("FLOAT", 2)
<1> DEFINE z == <<d, c>>
           seps == SepSet(sep)
<1>1. z \in Text /\ Len(z) = 2 /\ Ch(z, 0) = "." /\ Ch(z, 1) = c /\ \A k \in Nat : k >= 2 => Ch(z, k) = "EOI"
  BY DEF Text, Ch
<1>2. c # "." /\ c # "EOI" /\ "EOI" \notin Digits /\ "EOI" \notin XDigits /\ "EOI" \notin seps
      /\ "EOI" \notin IdChars
  BY NoClassHasEnd DEF Digits, SepSet
<1> HIDE DEF z, seps
<1>3. ~IsHex(z, 0) /\ StartOf(z, 0) = 0 /\ DigitsOf(z, 0) = Digits
  <2>1. ~IsHex(z, 0)
    BY <1>1 DEF IsHex
  <2> QED
    BY <2>1 DEF StartOf, DigitsOf
<1>4. WholeTo(z, 0, sep) = 0
  BY <1>1 DEF WholeTo
<1>5. FractionFrom(z, 0, sep, 0) = 2 /\ PowerFrom(z, 0, sep, 2) = 2
  <2>1. Ch(z, 2) = "EOI"
    BY <1>1
  <2>2. Past(z, 1, Digits \cup seps) = 2
    <3>1. 1 \in 0 .. Len(z) /\ 2 \in 1 .. Len(z) /\ Ch(z, 2) \notin Digits \cup seps
      BY <1>1, <1>2
    <3>2. \A k \in 1 .. 2 - 1 : Ch(z, k) \in Digits \cup seps
      BY <1>1
    <3> QED
      BY <1>1, <1>2, <3>1, <3>2, PastIs
  <2>3. FractionFrom(z, 0, sep, 0) = Past(z, 0 + 1, Digits \cup seps)
    BY <1>1, <1>3 DEF FractionFrom, seps
  <2> QED
    BY <2>1, <2>2, <2>3 DEF PowerFrom, PowerAt
<1>6. Past(z, 2, IdChars) = 2
  <2>1. 2 \in 0 .. Len(z) /\ Ch(z, 2) \notin IdChars /\ 2 \in 2 .. Len(z) /\ \A k \in 2 .. 2 - 1 : Ch(z, k) \in IdChars
    BY <1>1, <1>2
  <2> QED
    BY <1>1, <1>2, <2>1, PastIs
<1>7. ~QuotedIn(z, 0, sep, 0, 0) /\ ~QuotedIn(z, 0, sep, 1, 2) /\ ~QuotedIn(z, 0, sep, 4, 2)
  BY <1>1, <1>3 DEF QuotedIn
<1>8. scanNumber(z, 0, sep) = T("FLOAT", 2)
  <2>1. StartOf(z, 0) = 0 /\ 0 + 1 = 1 /\ 2 + 2 = 4
    BY <1>3
  <2> QED
    BY <1>4, <1>5, <1>6, <1>7, <2>1 DEF scanNumber
<1>9. classAt(z, 0) = "DOT" /\ Ch(z, 0 + 1) \in Digits
  BY <1>1, JudgedClasses DEF classAt
<1> QED
  BY <1>8, <1>9 DEF nextToken, z

(* What is illegal about a number is what follows it.                      *)
LEMMA IllegalNumber ==
  ASSUME NEW y \in Text, Len(y) > 0, NEW sep, sep # "EOI",
         Ch(y, 0) \in Digits \/ (Ch(y, 0) = "." /\ Ch(y, 0 + 1) \in Digits),
         scanNumber(y, 0, sep) = T("ILLEGAL", Len(y))
  PROVE  Len(y) >= 2 /\ (Ch(y, 0) = "." => Len(y) >= 3)
<1> DEFINE n == Len(y)
           number == NumberTo(y, 0, sep)
           fraction == FractionTo(y, 0, sep)
           whole == WholeTo(y, 0, sep)
           end == Past(y, number, IdChars)
<1>1. n \in Nat /\ 0 \in 0 .. n - 1
  BY DEF Text
<1>2. whole \in 0 .. n /\ fraction \in whole .. n /\ fraction > 0 /\ number \in fraction .. n
  BY <1>1, NumberOrder
<1>3. scanNumber(y, 0, sep) = T(NumberType(y, 0, sep), end)
  BY NumberFacts
<1>4. end > number /\ end = n
  <2>1. NumberType(y, 0, sep) = "ILLEGAL" /\ end = n
    BY <1>3 DEF T
  <2>2. NumberType(y, 0, sep) = "ILLEGAL" => end > number
    BY DEF NumberType
  <2> QED
    BY <2>1, <2>2
<1>5. Ch(y, 0) = "." => fraction >= 2
  <2> SUFFICES ASSUME Ch(y, 0) = "."
               PROVE  fraction >= 2
    OBVIOUS
  <2>1. Ch(y, 1) \in Digits /\ ~IsHex(y, 0)
    BY DEF Digits, IsHex
  <2>2. fraction = Past(y, 1, Digits \cup SepSet(sep))
    BY <2>1 DEF FractionTo, FractionFrom, WholeTo
  <2>3. Ch(y, 1) # "EOI" /\ "EOI" \notin Digits \cup SepSet(sep)
    BY <2>1, NoClassHasEnd DEF SepSet
  <2>4. 1 \in 0 .. Len(y) /\ Ch(y, 1) \in Digits \cup SepSet(sep)
    BY <1>1, <2>1, <2>3, EndOfText
  <2>5. fraction > 1
    BY <2>2, <2>3, <2>4, PastFacts
  <2> HIDE DEF fraction
  <2> QED
    BY <1>1, <1>2, <2>5
<1> HIDE DEF number, fraction, whole, end
<1> QED
  BY <1>1, <1>2, <1>4, <1>5

(* The text of a token scans to it.                                        *)
Alone(y, type, sql) ==
  /\ y \in Text /\ Len(y) \in Nat /\ Len(y) > 0 /\ Ch(y, 0) = y[1] /\ y[1] \in Characters
  /\ sql.digitSep # "EOI"
  /\ nextToken(y, 0, sql.digitSep, sql.flags) = T(type, Len(y))

(* Every token returned has such a text.                                   *)
LEMMA TextFacts ==
  ASSUME StreamInv, AllFromSource, TokenStandsAlone, NEW i \in DOMAIN emitted
  PROVE  Alone(emitted[i].text, emitted[i].type, input)
<1> DEFINE z == input.source
           p == emitted[i].span.offset
           length == emitted[i].span.length
           e == p + length
           y == emitted[i].text
<1>1. z \in Text /\ input.digitSep # "EOI" /\ Len(z) \in Nat
  BY InputFacts, RequestText DEF StreamInv, StreamOK
<1>2. /\ p \in 0 .. Len(z) - 1 /\ e \in p + 1 .. Len(z) /\ length \in Nat
      /\ y = SubSeq(z, p + 1, e)
  BY DEF AllFromSource, FromSource
<1>3. nextToken(y, 0, input.digitSep, input.flags) = T(emitted[i].type, length)
  BY DEF TokenStandsAlone
<1> HIDE DEF z, p, length, y
<1>4. y \in Text /\ Len(y) = length /\ length > 0
  BY <1>1, <1>2 DEF Text
<1>5. Ch(y, 0) = y[1] /\ y[1] \in Characters
  BY <1>1, <1>2, <1>4 DEF Ch, Text
<1> QED
  BY <1>1, <1>2, <1>3, <1>4, <1>5 DEF Alone, y

(* What IllegalHintHolds says of a token.                                  *)
HintHolds(text, sql) ==
  LET is(z, types) == LET token == nextToken(z, 0, sql.digitSep, sql.flags)
                      IN  token.type \in types /\ token.end = Len(z)
      closed == Append(text, IF text[1] = "[" THEN "]" ELSE text[1])
  IN  CASE illegalTokenHint(text) = "unterminated string literal" -> is(closed, {"STRING"})
        [] illegalTokenHint(text) = "unterminated quoted identifier" -> is(closed, {"ID"})
        [] illegalTokenHint(text) = "malformed numeric literal" ->
             \E n \in 1 .. Len(text) - 1 :
               is(SubSeq(text, 1, n), {"INTEGER", "FLOAT", "QNUMBER"})
        [] OTHER -> TRUE

(* It holds, whichever of its four arms illegalTokenHint takes.            *)
LEMMA HintFacts ==
  ASSUME NEW y, NEW sql, Alone(y, "ILLEGAL", sql)
  PROVE  HintHolds(y, sql)
<1> DEFINE c == y[1]
           sep == sql.digitSep
           flags == sql.flags
           is(z, types) == nextToken(z, 0, sep, flags).type \in types
                           /\ nextToken(z, 0, sep, flags).end = Len(z)
           number == \E n \in 1 .. Len(y) - 1 : is(SubSeq(y, 1, n), {"INTEGER", "FLOAT", "QNUMBER"})
<1>1. /\ y \in Text /\ Len(y) \in Nat /\ Len(y) > 0 /\ Ch(y, 0) = c /\ c \in Characters
      /\ sep # "EOI" /\ nextToken(y, 0, sep, flags) = T("ILLEGAL", Len(y))
      /\ "]" \in Characters
  BY DEF Alone, Characters
<1> HIDE DEF sep, flags
<1>2. CASE c \in {"'", "DQ", "BT"}
  <2> DEFINE w == Append(y, c)
  <2>1. classAt(y, 0) = "QUOTE"
    BY <1>1, <1>2, JudgedClasses DEF classAt
  <2>2. Quoted(y, 0) = T("ILLEGAL", Len(y))
    BY <1>1, <2>1 DEF nextToken
  <2>3. Quoted(w, 0) = T(IF c = "'" THEN "STRING" ELSE "ID", Len(y) + 1)
    BY <1>1, <1>2, <2>2, QuoteCloses
  <2>4. Len(w) = Len(y) + 1 /\ Ch(w, 0) = c
    BY <1>1, AppendedText
  <2> HIDE DEF w
  <2>5. nextToken(w, 0, sep, flags) = T(IF c = "'" THEN "STRING" ELSE "ID", Len(w))
    <3>1. classAt(w, 0) = "QUOTE"
      BY <1>2, <2>4, JudgedClasses DEF classAt
    <3> QED
      BY <2>3, <2>4, <3>1 DEF nextToken
  <2>6. IF c = "'" THEN is(w, {"STRING"}) ELSE is(w, {"ID"})
    BY <2>5 DEF T
  <2>7. illegalTokenHint(y) = IF c = "'" THEN "unterminated string literal"
                              ELSE "unterminated quoted identifier"
    BY <1>2 DEF illegalTokenHint, Digits
  <2>8. Append(y, IF c = "[" THEN "]" ELSE c) = w
    BY <1>2 DEF w
  <2> HIDE DEF c
  <2> QED
    BY <2>6, <2>7, <2>8 DEF HintHolds, c, sep, flags
<1>3. CASE c = "["
  <2> DEFINE w == Append(y, "]")
  <2>1. classAt(y, 0) = "QUOTE2"
    BY <1>1, <1>3, JudgedClasses DEF classAt
  <2>2. Bracketed(y, 0) = T("ILLEGAL", Len(y))
    BY <1>1, <2>1 DEF nextToken
  <2>3. Bracketed(w, 0) = T("ID", Len(y) + 1)
    BY <1>1, <2>2, BracketCloses
  <2>4. Len(w) = Len(y) + 1 /\ Ch(w, 0) = c
    BY <1>1, AppendedText
  <2> HIDE DEF w
  <2>5. nextToken(w, 0, sep, flags) = T("ID", Len(w))
    <3>1. classAt(w, 0) = "QUOTE2"
      BY <1>3, <2>4, JudgedClasses DEF classAt
    <3> QED
      BY <2>3, <2>4, <3>1 DEF nextToken
  <2>6. is(w, {"ID"})
    BY <2>5 DEF T
  <2>7. illegalTokenHint(y) = "unterminated quoted identifier"
    BY <1>3 DEF illegalTokenHint, Digits
  <2>8. Append(y, IF c = "[" THEN "]" ELSE c) = w
    BY <1>3 DEF w
  <2> HIDE DEF c
  <2> QED
    BY <2>6, <2>7, <2>8 DEF HintHolds, c, sep, flags
<1>4. CASE c \in Digits \cup {"."}
  <2>1. Ch(y, 0) \in Digits \/ (Ch(y, 0) = "." /\ Ch(y, 0 + 1) \in Digits)
    <3> SUFFICES ASSUME c = ".", Ch(y, 0 + 1) \notin Digits
                 PROVE  FALSE
      BY <1>1, <1>4
    <3>1. classAt(y, 0) = "DOT"
      BY <1>1, JudgedClasses DEF classAt
    <3>2. nextToken(y, 0, sep, flags).type = "DOT"
      BY <3>1 DEF nextToken, T
    <3> QED
      BY <1>1, <3>2 DEF T
  <2>2. scanNumber(y, 0, sep) = T("ILLEGAL", Len(y))
    <3>1. classAt(y, 0) = "DIGIT" \/ (classAt(y, 0) = "DOT" /\ Ch(y, 0 + 1) \in Digits)
      BY <1>1, <2>1, JudgedClasses DEF classAt
    <3> QED
      BY <1>1, <3>1 DEF nextToken
  <2>3. Len(y) >= 2 /\ (Ch(y, 0) = "." => Len(y) >= 3)
    BY <1>1, <2>1, <2>2, IllegalNumber
  <2>4. number
    <3>1. CASE c \in Digits
      <4>1. SubSeq(y, 1, 1) = <<c>>
        <5>1. y \in Seq(Characters) /\ <<c>> \in Seq(Characters) /\ Len(<<c>>) = 1 /\ <<c>>[1] = c
          BY <1>1 DEF Text
        <5>2. /\ SubSeq(y, 1, 1) \in Seq(Characters) /\ Len(SubSeq(y, 1, 1)) = 1
              /\ SubSeq(y, 1, 1)[1] = c
          BY <1>1, <5>1
        <5> DEFINE t == SubSeq(y, 1, 1)
                   one == <<c>>
        <5>5. one \in Seq(Characters) /\ Len(one) = 1 /\ one[1] = c
          BY <5>1
        <5>6. t \in Seq(Characters) /\ Len(t) = 1 /\ t[1] = c
          BY <5>2
        <5> HIDE DEF t, one
        <5>3. /\ t \in Seq(Characters) /\ one \in Seq(Characters) /\ Len(t) = Len(one)
              /\ \A k \in 1 .. Len(t) : t[k] = one[k]
          BY ONLY <5>5, <5>6
        <5>4. t = one
          BY ONLY <5>3, SeqEqual
        <5> QED
          BY <5>4 DEF t, one
      <4>2. nextToken(<<c>>, 0, sep, flags) = T("INTEGER", 1)
        BY <1>1, <3>1, DigitAlone
      <4>3. is(SubSeq(y, 1, 1), {"INTEGER", "FLOAT", "QNUMBER"})
        <5> DEFINE t == <<c>>
        <5>1. SubSeq(y, 1, 1) = t /\ nextToken(t, 0, sep, flags) = T("INTEGER", 1) /\ Len(t) = 1
          BY <4>1, <4>2
        <5> HIDE DEF t
        <5>2. is(t, {"INTEGER", "FLOAT", "QNUMBER"})
          BY <5>1 DEF T
        <5> HIDE DEF is
        <5> QED
          BY <5>1, <5>2
      <4>4. 1 \in 1 .. Len(y) - 1
        BY <1>1, <2>3
      <4> HIDE DEF is
      <4> QED
        BY <4>3, <4>4
    <3>2. CASE c \notin Digits
      <4> DEFINE d == y[2]
      <4>1. c = "." /\ Len(y) >= 3 /\ Ch(y, 1) \in Digits
        BY <1>1, <1>4, <2>1, <2>3, <3>2
      <4>2. Ch(y, 1) = d /\ d \in Characters
        BY <1>1, <4>1 DEF Ch, Text
      <4>3. SubSeq(y, 1, 2) = <<c, d>>
        <5>1. /\ y \in Seq(Characters) /\ <<c, d>> \in Seq(Characters) /\ Len(<<c, d>>) = 2
              /\ <<c, d>>[1] = c /\ <<c, d>>[2] = d
          BY <1>1, <4>2 DEF Text
        <5>2. /\ SubSeq(y, 1, 2) \in Seq(Characters) /\ Len(SubSeq(y, 1, 2)) = 2
              /\ SubSeq(y, 1, 2)[1] = c /\ SubSeq(y, 1, 2)[2] = d
          BY <1>1, <4>1, <5>1
        <5> DEFINE t == SubSeq(y, 1, 2)
                   two == <<c, d>>
        <5>5. two \in Seq(Characters) /\ Len(two) = 2 /\ two[1] = c /\ two[2] = d
          BY <5>1
        <5>6. t \in Seq(Characters) /\ Len(t) = 2 /\ t[1] = c /\ t[2] = d
          BY <5>2
        <5> HIDE DEF t, two
        <5>3. /\ t \in Seq(Characters) /\ two \in Seq(Characters) /\ Len(t) = Len(two)
              /\ \A k \in 1 .. Len(t) : t[k] = two[k]
          BY ONLY <5>5, <5>6
        <5>4. t = two
          BY ONLY <5>3, SeqEqual
        <5> QED
          BY <5>4 DEF t, two
      <4>4. nextToken(<<c, d>>, 0, sep, flags) = T("FLOAT", 2)
        BY <1>1, <4>1, <4>2, FractionAlone
      <4>5. is(SubSeq(y, 1, 2), {"INTEGER", "FLOAT", "QNUMBER"})
        <5> DEFINE t == <<c, d>>
        <5>1. SubSeq(y, 1, 2) = t /\ nextToken(t, 0, sep, flags) = T("FLOAT", 2) /\ Len(t) = 2
          BY <4>3, <4>4
        <5> HIDE DEF t
        <5>2. is(t, {"INTEGER", "FLOAT", "QNUMBER"})
          BY <5>1 DEF T
        <5> HIDE DEF is
        <5> QED
          BY <5>1, <5>2
      <4>6. 2 \in 1 .. Len(y) - 1
        BY <1>1, <4>1
      <4> HIDE DEF is
      <4> QED
        BY <4>5, <4>6
    <3> QED
      BY <3>1, <3>2
  <2>5. illegalTokenHint(y) = "malformed numeric literal"
    BY <1>4 DEF illegalTokenHint, Digits
  <2> HIDE DEF c
  <2> QED
    BY <2>4, <2>5 DEF HintHolds, c, sep, flags
<1>5. CASE c \notin {"'", "DQ", "BT", "["} \cup Digits \cup {"."}
  <2>1. illegalTokenHint(y) = "could not classify"
    BY <1>5 DEF illegalTokenHint
  <2> QED
    BY <2>1 DEF HintHolds
<1> QED
  BY <1>2, <1>3, <1>4, <1>5

(* IllegalHintHolds for every source: the hint of an illegal token, judged *)
(* by its first character only, is true of all of it.                      *)
THEOREM IllegalHintsHold == StreamSpec => []IllegalHintHolds
<1>1. StreamInv /\ AllFromSource /\ TokenStandsAlone => IllegalHintHolds
  <2> SUFFICES ASSUME StreamInv, AllFromSource, TokenStandsAlone,
                      NEW i \in DOMAIN emitted, emitted[i].type = "ILLEGAL"
               PROVE  HintHolds(emitted[i].text, input)
    BY DEF IllegalHintHolds, HintHolds
  <2> QED
    BY TextFacts, HintFacts
<1> QED
  BY <1>1, TokensFromSource, TokensStandAlone, PTL

-----------------------------------------------------------------------------
(* Quotes *)

(* A loop of Quoted ends at a quote that is not the first of a pair, or at *)
(* the end of the text.                                                    *)
LEMMA QuoteEnd ==
  ASSUME NEW z \in Text, NEW c, c # "EOI", NEW f, QuoteLoop(f, z, c), NEW i \in 0 .. Len(z)
  PROVE  /\ f[i] \in i .. Len(z) /\ Ch(z, f[i]) \in {c, "EOI"}
         /\ Ch(z, f[i]) = c => Ch(z, f[i] + 1) # c
<1> DEFINE n == Len(z)
           C == PairsIn(z, c)
           step == AfterPair(z, c)
           result == NextQuote(z, c)
           P == {k \in Nat : k <= n => /\ Ch(z, f[k]) \in {c, "EOI"}
                                       /\ Ch(z, f[k]) = c => Ch(z, f[k] + 1) # c}
<1>1. n \in Nat /\ i \in Nat /\ i <= n
  BY DEF Text
<1>2. Forward(C, step, result, n)
  BY QuoteForward
<1>3. f[i] \in i .. n
  BY <1>2, ForwardLoops DEF QuoteLoop
<1>4. ASSUME NEW k \in Nat, k \notin C
      PROVE  k \in P
  <2> SUFFICES ASSUME k <= n
               PROVE  Ch(z, f[k]) \in {c, "EOI"} /\ (Ch(z, f[k]) = c => Ch(z, f[k] + 1) # c)
    OBVIOUS
  <2>1. f[k] = Find(z, k, {c})
    BY <1>4 DEF QuoteLoop, Loops, NextQuote
  <2>2. k \in 0 .. Len(z)
    BY <1>1
  <2>3. Ch(z, Find(z, k, {c})) \in {c, "EOI"}
    BY <2>2, FindFacts
  <2> QED
    BY <1>4, <2>1, <2>3 DEF PairsIn
<1>5. ASSUME NEW k \in C, step[k] \in P
      PROVE  k \in P
  <2>1. k \in Nat /\ f[k] = f[step[k]]
    BY DEF QuoteLoop, Loops, PairsIn
  <2>2. step[k] <= n
    BY <1>2 DEF Forward
  <2> HIDE DEF step, C, n
  <2> QED
    BY <1>5, <2>1, <2>2
<1>6. \A k \in Nat : k \in P
  <2>1. P \in SUBSET Nat
    OBVIOUS
  <2> HIDE DEF P, C, step, result, n
  <2> QED
    BY <1>2, <1>4, <1>5, <2>1, ForwardInduction
<1> QED
  BY <1>1, <1>3, <1>6

(* Where a token that begins with a quote ends, there is no other quote.   *)
LEMMA NoQuoteFollows ==
  ASSUME NEW z \in Text, NEW p \in 0 .. Len(z) - 1
  PROVE  Ch(z, Quoted(z, p).end) # Ch(z, p)
<1> DEFINE c == Ch(z, p)
<1>1. Len(z) \in Nat /\ p \in Nat /\ p + 1 \in 0 .. Len(z) /\ c # "EOI"
  BY EndOfText DEF Text
<1>2. PICK f : QuoteLoop(f, z, c) /\ Quoted(z, p) = QuotedTo(z, f[p + 1])
  BY QuotedFacts
<1> DEFINE from == p + 1
           t == f[from]
<1> HIDE DEF c, from
<1>3. Ch(z, t) \in {c, "EOI"} /\ (Ch(z, t) = c => Ch(z, t + 1) # c)
  <2>1. from \in 0 .. Len(z) /\ QuoteLoop(f, z, c) /\ c # "EOI"
    BY <1>1, <1>2 DEF from
  <2> QED
    BY ONLY <2>1, z \in Text, QuoteEnd
<1>4. Quoted(z, p).end = IF Ch(z, t) = "EOI" THEN t ELSE t + 1
  BY <1>2 DEF QuotedTo, T, from
<1> HIDE DEF t
<1> QED
  BY <1>1, <1>3, <1>4 DEF c

(* The quotes between two positions.                                       *)
QuotesIn(y, c, from, to) == {j \in from + 1 .. to : y[j] = c}
Even(S) == IsFiniteSet(S) /\ Cardinality(S) \in Nat /\ Cardinality(S) % 2 = 0

(* One element more makes an even number odd, and two an even one.         *)
LEMMA EvenFacts ==
  ASSUME NEW S, Even(S), NEW x, x \notin S
  PROVE  /\ IsFiniteSet(S \cup {x}) /\ Cardinality(S \cup {x}) % 2 = 1
         /\ \A y : y # x /\ y \notin S => Even(S \cup {x, y})
<1>1. /\ IsFiniteSet(S \cup {x}) /\ Cardinality(S \cup {x}) = Cardinality(S) + 1
  BY FS_AddElement DEF Even
<1>2. Cardinality(S) \in Nat /\ Cardinality(S) % 2 = 0
  BY DEF Even
<1>3. Cardinality(S \cup {x}) % 2 = 1
  BY <1>1, <1>2
<1>4. ASSUME NEW y, y # x, y \notin S
      PROVE  Even(S \cup {x, y})
  <2>1. y \notin S \cup {x} /\ (S \cup {x}) \cup {y} = S \cup {x, y}
    BY <1>4
  <2>2. IsFiniteSet((S \cup {x}) \cup {y}) /\ Cardinality((S \cup {x}) \cup {y}) = Cardinality(S \cup {x}) + 1
    BY <1>1, <2>1, FS_AddElement
  <2>3. Cardinality(S \cup {x, y}) = Cardinality(S) + 2
    BY <1>1, <1>2, <2>1, <2>2
  <2>4. Cardinality(S \cup {x, y}) \in Nat /\ Cardinality(S \cup {x, y}) % 2 = 0
    BY ONLY <1>2, <2>3
  <2>5. IsFiniteSet(S \cup {x, y})
    BY <2>1, <2>2
  <2> QED
    BY <2>4, <2>5 DEF Even
<1> QED
  BY <1>1, <1>3, <1>4

(* The loop of Quoted passes the quotes two by two.                        *)
LEMMA PairsAreEven ==
  ASSUME NEW z \in Text, NEW c, c # "EOI", NEW f, QuoteLoop(f, z, c), NEW i \in 0 .. Len(z)
  PROVE  Even(QuotesIn(z, c, i, f[i]))
<1> DEFINE n == Len(z)
           C == PairsIn(z, c)
           step == AfterPair(z, c)
           result == NextQuote(z, c)
           P == {k \in Nat : k <= n => Even(QuotesIn(z, c, k, f[k]))}
<1>1. n \in Nat /\ i \in Nat /\ i <= n
  BY DEF Text
<1>2. Forward(C, step, result, n)
  BY QuoteForward
<1>3. \A k \in 0 .. n : f[k] \in k .. n
  BY <1>2, ForwardLoops DEF QuoteLoop
<1>4. \A j \in 1 .. n : z[j] = Ch(z, j - 1)
  BY DEF Ch, Text
<1>find. ASSUME NEW k \in Nat, k <= n
         PROVE  /\ Find(z, k, {c}) \in k .. n
                /\ \A j \in k + 1 .. Find(z, k, {c}) : z[j] # c
  <2> DEFINE m == Find(z, k, {c})
  <2>1. m \in k .. n /\ \A l \in k .. m - 1 : Ch(z, l) \notin {c} \cup {"EOI"}
    <3>1. k \in 0 .. Len(z)
      BY <1>1, <1>find
    <3> QED
      BY <3>1, FindFacts
  <2> HIDE DEF m, n
  <2>2. ASSUME NEW j \in k + 1 .. m
        PROVE  z[j] # c
    <3>1. j - 1 \in k .. m - 1 /\ j \in 1 .. n
      BY <1>1, <2>1
    <3> QED
      BY <1>4, <2>1, <3>1
  <2> QED
    BY <2>1, <2>2 DEF m
<1>5. ASSUME NEW k \in Nat, k \notin C
      PROVE  k \in P
  <2> SUFFICES ASSUME k <= n
               PROVE  Even(QuotesIn(z, c, k, f[k]))
    OBVIOUS
  <2>1. f[k] = Find(z, k, {c})
    BY <1>5 DEF QuoteLoop, Loops, NextQuote
  <2>2. QuotesIn(z, c, k, f[k]) = {}
    BY <1>find, <2>1 DEF QuotesIn
  <2> QED
    BY <2>2, FS_EmptySet DEF Even
<1>6. ASSUME NEW k \in C, step[k] \in P
      PROVE  k \in P
  <2>1. k \in Nat /\ step[k] = Find(z, k, {c}) + 2 /\ f[k] = f[step[k]]
        /\ Ch(z, Find(z, k, {c})) # "EOI" /\ Ch(z, Find(z, k, {c}) + 1) = c
    BY DEF QuoteLoop, Loops, PairsIn, AfterPair
  <2> SUFFICES ASSUME k <= n
               PROVE  Even(QuotesIn(z, c, k, f[k]))
    BY <2>1
  <2> DEFINE m == Find(z, k, {c})
             S == QuotesIn(z, c, m + 2, f[m + 2])
  <2>2. m \in k .. n /\ \A j \in k + 1 .. m : z[j] # c
    BY <1>find, <2>1
  <2>3. step[k] <= n
    BY <1>2 DEF Forward
  <2>4. Ch(z, m) = c
    <3>1. k \in 0 .. Len(z)
      BY <1>1, <2>1
    <3> QED
      BY <2>1, <3>1, FindFacts
  <2> HIDE DEF m, step, C, n
  <2>5. m + 2 <= n /\ m + 2 \in Nat /\ m \in Nat /\ step[k] = m + 2
    BY <1>1, <2>1, <2>2, <2>3 DEF m
  <2>6. f[m + 2] \in m + 2 .. n /\ f[k] = f[m + 2]
    BY <1>1, <1>3, <2>1, <2>5
  <2>7. Even(S)
    BY <1>6, <2>5
  <2>8. z[m + 1] = c /\ z[m + 2] = c
    <3>1. m + 1 \in 1 .. n /\ m + 2 \in 1 .. n /\ (m + 1) - 1 = m /\ (m + 2) - 1 = m + 1
      BY <1>1, <2>5
    <3> QED
      BY <1>4, <2>1, <2>4, <3>1 DEF m
  <2>9. m + 1 \notin S /\ m + 2 \notin S /\ m + 1 # m + 2
    BY <2>5, <2>6 DEF QuotesIn
  <2> DEFINE t == f[m + 2]
  <2>10. t \in Nat /\ t >= m + 2 /\ f[k] = t
    BY <2>5, <2>6
  <2>11. S = QuotesIn(z, c, m + 2, t)
    OBVIOUS
  <2> HIDE DEF S, t
  <2>12. QuotesIn(z, c, k, t) = S \cup {m + 1, m + 2}
    <3>1. \A j \in k + 1 .. t : j \in k + 1 .. m \/ j = m + 1 \/ j = m + 2 \/ j \in (m + 2) + 1 .. t
      BY <2>1, <2>2, <2>5, <2>10
    <3>2. \A j \in (m + 2) + 1 .. t : j \in k + 1 .. t
      BY <2>1, <2>2, <2>5, <2>10
    <3>3. m + 1 \in k + 1 .. t /\ m + 2 \in k + 1 .. t
      BY <2>1, <2>2, <2>5, <2>10
    <3>4. \A j : j \in QuotesIn(z, c, k, t) <=> j \in S \cup {m + 1, m + 2}
      BY <2>2, <2>8, <2>11, <3>1, <3>2, <3>3 DEF QuotesIn
    <3> QED
      BY <3>4
  <2>13. Even(S \cup {m + 1, m + 2})
    BY <2>7, <2>9, EvenFacts
  <2> QED
    BY <2>10, <2>12, <2>13
<1>7. \A k \in Nat : k \in P
  <2>1. P \in SUBSET Nat
    OBVIOUS
  <2> HIDE DEF P, C, step, result, n
  <2> QED
    BY <1>2, <1>5, <1>6, <2>1, ForwardInduction
<1> QED
  BY <1>1, <1>7

(* A text that Quoted takes all of has an even number of quotes if it is   *)
(* closed, and an odd one if not.                                          *)
LEMMA QuoteParity ==
  ASSUME NEW y \in Text, Len(y) > 0, Ch(y, 0) \in {"'", "DQ", "BT"}, Quoted(y, 0).end = Len(y)
  PROVE  (Cardinality({j \in DOMAIN y : y[j] = y[1]}) % 2 = 0) <=> (Quoted(y, 0).type # "ILLEGAL")
<1> DEFINE c == Ch(y, 0)
           n == Len(y)
           all == {j \in DOMAIN y : y[j] = y[1]}
<1>1. n \in Nat /\ 0 \in 0 .. n - 1 /\ c # "EOI" /\ c = y[1] /\ DOMAIN y = 1 .. n
      /\ \A j \in 1 .. n : y[j] = Ch(y, j - 1)
  BY DEF Text, Ch
<1>2. PICK f : QuoteLoop(f, y, c) /\ Quoted(y, 0) = QuotedTo(y, f[0 + 1])
  BY <1>1, QuotedFacts
<1> DEFINE t == f[1]
           S == QuotesIn(y, c, 1, t)
<1>3. 1 \in 0 .. Len(y)
  BY <1>1
<1> HIDE DEF c
<1>4. t \in 1 .. n /\ Ch(y, t) \in {c, "EOI"}
  BY <1>1, <1>2, <1>3, QuoteEnd
<1>5. Even(S)
  BY <1>1, <1>2, <1>3, PairsAreEven
<1>6. Quoted(y, 0) = QuotedTo(y, t)
  BY <1>2
<1>7. 1 \notin S
  BY <1>4 DEF QuotesIn
<1> HIDE DEF t, n, S
<1>8. CASE Ch(y, t) = "EOI"
  <2>1. t = n /\ Quoted(y, 0).type = "ILLEGAL"
    BY <1>6, <1>8 DEF QuotedTo, T, n
  <2>2. \A j : j \in all <=> j \in S \cup {1}
    <3>1. \A j : j \in 1 .. n <=> j = 1 \/ j \in 1 + 1 .. n
      BY <1>1
    <3> QED
      BY <1>1, <2>1, <3>1 DEF S, QuotesIn
  <2>3. all = S \cup {1}
    BY <2>2
  <2>4. Cardinality(S \cup {1}) % 2 = 1
    BY <1>5, <1>7, EvenFacts
  <2>5. Cardinality(all) % 2 = 1
    BY ONLY <2>3, <2>4
  <2> HIDE DEF all
  <2>6. ~(Cardinality(all) % 2 = 0)
    BY ONLY <2>5
  <2> QED
    BY <2>1, <2>6 DEF all
<1>9. CASE Ch(y, t) # "EOI"
  <2>1. t + 1 = n /\ Quoted(y, 0).type # "ILLEGAL" /\ Ch(y, t) = c
    BY <1>4, <1>6, <1>9 DEF QuotedTo, T, n
  <2>2. n \in 1 .. n /\ n - 1 = t /\ n # 1 /\ t \in Nat /\ 1 <= t
    BY <1>1, <1>4, <2>1
  <2>3. y[n] = c
    BY <1>1, <2>1, <2>2
  <2>4. \A j : j \in all <=> j \in S \cup {1, n}
    <3>1. \A j : j \in 1 .. n <=> j = 1 \/ j = n \/ j \in 1 + 1 .. t
      BY <1>1, <2>2
    <3> QED
      BY <1>1, <2>3, <3>1 DEF S, QuotesIn
  <2>5. all = S \cup {1, n}
    BY <2>4
  <2>6. n \notin S
    BY <2>2 DEF S, QuotesIn
  <2>7. Even(S \cup {1, n})
    BY <1>5, <1>7, <2>2, <2>6, EvenFacts
  <2> QED
    BY <2>1, <2>5, <2>7 DEF Even
<1> QED
  BY <1>8, <1>9

(* What sqlite3Dequote makes of the characters from i on.                  *)
Dequotes(body, z, close) ==
  \A i \in Nat \ {0} :
    /\ body[i] \in Text
    /\ i > Len(z) \/ (z[i] = close /\ Ch(z, i) # close) => body[i] = <<>>
    /\ i <= Len(z) /\ z[i] = close /\ Ch(z, i) = close => body[i] = <<close>> \o body[i + 2]
    /\ i <= Len(z) /\ z[i] # close => body[i] = <<z[i]>> \o body[i + 1]

(* Its loop computes that.                                                 *)
LEMMA DequoteFacts ==
  ASSUME NEW z \in Text, z[1] # "[", z[1] \in Characters, Ch(z, 0) \in {"'", "DQ", "BT", "["}
  PROVE  \E body : Dequotes(body, z, z[1]) /\ sqlite3Dequote(z) = body[2]
<1> DEFINE close == z[1]
           n == Len(z)
           Recurs(f) == f = [i \in Nat |->
                              CASE i > Len(z) \/ (z[i] = close /\ Ch(z, i) # close) -> <<>>
                                [] i <= Len(z) /\ z[i] = close /\ Ch(z, i) = close -> <<close>> \o f[i + 2]
                                [] OTHER -> <<z[i]>> \o f[i + 1]]
           body == CHOOSE f : Recurs(f)
           ends(i) == i > n \/ (z[i] = close /\ Ch(z, i) # close)
           pair(i) == z[i] = close /\ Ch(z, i) = close
           C == {i \in Nat \ {0} : ~ends(i)}
           step == [i \in Nat |-> IF pair(i) THEN i + 2 ELSE i + 1]
           piece == [i \in Nat |-> IF i \in 1 .. n THEN <<z[i]>> ELSE <<>>]
           measure == [i \in Nat |-> IF i < n + 2 THEN (n + 2) - i ELSE 0]
<1>1. /\ n \in Nat /\ z \in Seq(Characters) /\ close \in Characters
      /\ \A i \in 1 .. n : z[i] \in Characters
  BY DEF Text
<1>2. sqlite3Dequote(z) = body[2]
  BY DEF sqlite3Dequote
<1>3. \A f : Recurs(f) <=> f = [i \in Nat |-> IF ends(i) THEN <<>>
                                               ELSE IF i <= n /\ pair(i) THEN <<close>> \o f[i + 2]
                                               ELSE <<z[i]>> \o f[i + 1]]
  <2> SUFFICES ASSUME NEW f
               PROVE  [i \in Nat |->
                              CASE i > Len(z) \/ (z[i] = close /\ Ch(z, i) # close) -> <<>>
                                [] i <= Len(z) /\ z[i] = close /\ Ch(z, i) = close -> <<close>> \o f[i + 2]
                                [] OTHER -> <<z[i]>> \o f[i + 1]]
                      = [i \in Nat |-> IF ends(i) THEN <<>>
                                               ELSE IF i <= n /\ pair(i) THEN <<close>> \o f[i + 2]
                                               ELSE <<z[i]>> \o f[i + 1]]
    OBVIOUS
  <2> HIDE DEF close
  <2> QED
    BY <1>1
<1> HIDE DEF Recurs
<1>4. Terminates(Nat, C, step, measure, n + 2) /\ piece \in [Nat -> Seq(Characters)]
  <2>1. ASSUME NEW i \in C
        PROVE  i < step[i] /\ step[i] <= n + 2 /\ step[i] \in Nat /\ i \in Nat
    <3>1. i \in Nat /\ i <= n /\ (pair(i) => i < n)
      <4>1. i \in Nat /\ ~ends(i) /\ close # "EOI"
        BY <1>1 DEF Characters
      <4>2. pair(i) => Ch(z, i) = close
        OBVIOUS
      <4>3. i <= n
        BY <1>1, <4>1
      <4> HIDE DEF pair, close, ends
      <4> QED
        BY <1>1, <4>1, <4>2, <4>3 DEF Ch
    <3> QED
      BY <1>1, <3>1
  <2>2. step \in [Nat -> Nat] /\ C \subseteq Nat /\ n + 2 \in Nat
    BY <1>1
  <2>3. measure \in [Nat -> 0 .. n + 2]
    BY <1>1
  <2>4. \A i \in C : measure[step[i]] < measure[i]
    <3> HIDE DEF C, step, n
    <3> QED
      BY <1>1, <2>1
  <2>5. piece \in [Nat -> Seq(Characters)]
    <3>1. \A i \in Nat : i \in 1 .. n => <<z[i]>> \in Seq(Characters)
      BY <1>1
    <3> HIDE DEF n
    <3> QED
      BY <3>1
  <2> HIDE DEF C, step, measure, piece
  <2> QED
    BY <2>2, <2>3, <2>4, <2>5 DEF Terminates
<1>5. PICK g : /\ g \in [Nat -> Seq(Characters)]
               /\ \A i \in Nat : g[i] = IF i \in C THEN piece[i] \o g[step[i]] ELSE <<>>
  <2> DEFINE bound == n + 2
             S == Nat
  <2>1. Terminates(S, C, step, measure, bound) /\ piece \in [S -> Seq(Characters)]
    BY <1>4
  <2>2. \E f : f \in [S -> Seq(Characters)] /\ Builds(f, S, C, step, piece)
    <3> HIDE DEF C, step, measure, piece, bound, S
    <3> QED
      BY ONLY <2>1, LoopBuilds
  <2> HIDE DEF C, step, measure, piece
  <2> QED
    BY <2>2 DEF Builds
<1>6. ASSUME NEW i \in Nat \ {0}
      PROVE  g[i] = IF ends(i) THEN <<>> ELSE IF i <= n /\ pair(i) THEN <<close>> \o g[i + 2]
                    ELSE <<z[i]>> \o g[i + 1]
  <2>1. i \in Nat /\ (i \in C <=> ~ends(i)) /\ (~ends(i) => i \in 1 .. n)
    BY <1>1
  <2>2. /\ i \in 1 .. n => piece[i] = <<z[i]>>
        /\ step[i] = IF pair(i) THEN i + 2 ELSE i + 1
    BY <2>1
  <2>3. g[i] = IF i \in C THEN piece[i] \o g[step[i]] ELSE <<>>
    BY <1>5, <2>1
  <2>4. pair(i) => z[i] = close
    OBVIOUS
  <2>5. ends(i) => g[i] = <<>>
    BY ONLY <2>1, <2>3
  <2>6. ~ends(i) => i <= n /\ g[i] = <<z[i]>> \o g[IF pair(i) THEN i + 2 ELSE i + 1]
    <3> SUFFICES ASSUME ~ends(i)
                 PROVE  i <= n /\ g[i] = <<z[i]>> \o g[IF pair(i) THEN i + 2 ELSE i + 1]
      OBVIOUS
    <3>1. i \in C /\ i \in 1 .. n
      BY ONLY <2>1, ~ends(i)
    <3>2. i <= n
      BY <1>1, <3>1
    <3>3. g[i] = piece[i] \o g[step[i]]
      BY ONLY <2>3, <3>1
    <3>4. piece[i] = <<z[i]>>
      BY ONLY <2>2, <3>1
    <3> QED
      BY ONLY <2>2, <3>2, <3>3, <3>4
  <2> HIDE DEF ends, pair
  <2> QED
    BY <2>4, <2>5, <2>6
<1> HIDE DEF C, step, piece, measure
<1> DEFINE first == IF ends(0) THEN <<>> ELSE IF 0 <= n /\ pair(0) THEN <<close>> \o g[0 + 2]
                    ELSE <<z[0]>> \o g[0 + 1]
           f == [i \in Nat |-> IF i = 0 THEN first ELSE g[i]]
<1>7. Recurs(f)
  <2>1. ASSUME NEW i \in Nat
        PROVE  f[i] = IF ends(i) THEN <<>> ELSE IF i <= n /\ pair(i) THEN <<close>> \o f[i + 2]
                      ELSE <<z[i]>> \o f[i + 1]
    <3>1. i + 1 \in Nat /\ i + 2 \in Nat /\ i + 1 # 0 /\ i + 2 # 0
      OBVIOUS
    <3>2. f[i + 1] = g[i + 1] /\ f[i + 2] = g[i + 2] /\ f[i] = IF i = 0 THEN first ELSE g[i]
      BY <3>1
    <3> HIDE DEF f, ends, pair
    <3>3. CASE i = 0
      BY <3>2, <3>3 DEF first
    <3>4. CASE i # 0
      BY <1>6, <3>2, <3>4
    <3> QED
      BY <3>3, <3>4
  <2>2. f = [i \in Nat |-> f[i]]
    OBVIOUS
  <2> HIDE DEF f, ends, pair
  <2>3. f = [i \in Nat |-> IF ends(i) THEN <<>> ELSE IF i <= n /\ pair(i) THEN <<close>> \o f[i + 2]
                      ELSE <<z[i]>> \o f[i + 1]]
    BY ONLY <2>1, <2>2
  <2> QED
    BY <1>3, <2>3 DEF ends, pair
<1>8. Recurs(body)
  <2> HIDE DEF f
  <2> QED
    BY <1>7
<1> HIDE DEF body
<1>9. \A i \in Nat : body[i] = IF ends(i) THEN <<>> ELSE IF i <= n /\ pair(i) THEN <<close>> \o body[i + 2]
                      ELSE <<z[i]>> \o body[i + 1]
  <2> DEFINE h == [i \in Nat |-> IF ends(i) THEN <<>>
                               ELSE IF i <= n /\ pair(i) THEN <<close>> \o body[i + 2]
                               ELSE <<z[i]>> \o body[i + 1]]
  <2>1. body = h
    BY <1>3, <1>8
  <2>2. \A i \in Nat : h[i] = IF ends(i) THEN <<>> ELSE IF i <= n /\ pair(i) THEN <<close>> \o body[i + 2]
                      ELSE <<z[i]>> \o body[i + 1]
    <3> HIDE DEF ends, pair
    <3> QED
      OBVIOUS
  <2>3. \A i \in Nat : body[i] = h[i]
    <3> HIDE DEF h
    <3> QED
      BY <2>1
  <2> HIDE DEF h, ends, pair
  <2> QED
    BY ONLY <2>2, <2>3
<1> DEFINE P == {i \in Nat : i # 0 => body[i] \in Text}
<1>10. \A i \in Nat : i \in P
  <2>1. ASSUME NEW i \in Nat, i \notin C
        PROVE  i \in P
    <3>1. i # 0 => ends(i)
      BY <2>1 DEF C
    <3>2. ends(i) => body[i] = <<>>
      BY <1>9
    <3>3. <<>> \in Text
      BY DEF Text
    <3> HIDE DEF ends
    <3> QED
      BY <3>1, <3>2, <3>3
  <2>2. ASSUME NEW i \in C, step[i] \in P
        PROVE  i \in P
    <3>1. i \in Nat /\ i # 0 /\ ~ends(i) /\ i \in 1 .. n
      BY <1>1 DEF C
    <3>2. step[i] = IF pair(i) THEN i + 2 ELSE i + 1
      BY <3>1 DEF step
    <3>3. body[i] = IF pair(i) THEN <<close>> \o body[i + 2] ELSE <<z[i]>> \o body[i + 1]
      <4> HIDE DEF ends, pair
      <4> QED
        BY <1>9, <3>1
    <3>4. pair(i) => z[i] = close
      OBVIOUS
    <3> HIDE DEF ends, pair
    <3>5. body[step[i]] \in Text
      <4>1. step[i] # 0
        BY <3>1, <3>2
      <4> QED
        BY <2>2, <4>1
    <3>6. body[i] = <<z[i]>> \o body[step[i]]
      BY <3>2, <3>3, <3>4
    <3>7. <<z[i]>> \in Text
      BY <1>1, <3>1 DEF Text
    <3>8. body[i] \in Text
      BY <3>5, <3>6, <3>7, ConcatProperties DEF Text
    <3> QED
      BY <3>1, <3>8
  <2>3. P \in SUBSET Nat
    OBVIOUS
  <2> DEFINE bound == n + 2
             S == Nat
  <2>4. Terminates(S, C, step, measure, bound) /\ P \in SUBSET S
    BY <1>4, <2>3
  <2> HIDE DEF P, bound
  <2>5. \A i \in C : step[i] \in P => i \in P
    BY <2>2
  <2>6. \A i \in S : i \notin C => i \in P
    BY <2>1
  <2>7. \A i \in S : i \in P
    <3> HIDE DEF S
    <3> QED
      BY ONLY <2>4, <2>5, <2>6, LoopInduction
  <2> QED
    BY <2>7
<1>11. Dequotes(body, z, close)
  <2> SUFFICES ASSUME NEW i \in Nat \ {0}
               PROVE  /\ body[i] \in Text
                      /\ i > Len(z) \/ (z[i] = close /\ Ch(z, i) # close) => body[i] = <<>>
                      /\ i <= Len(z) /\ z[i] = close /\ Ch(z, i) = close => body[i] = <<close>> \o body[i + 2]
                      /\ i <= Len(z) /\ z[i] # close => body[i] = <<z[i]>> \o body[i + 1]
    BY DEF Dequotes
  <2>1. body[i] \in Text
    BY <1>10
  <2>2. /\ ends(i) => body[i] = <<>>
        /\ ~ends(i) /\ i <= n /\ pair(i) => body[i] = <<close>> \o body[i + 2]
        /\ ~ends(i) /\ ~pair(i) => body[i] = <<z[i]>> \o body[i + 1]
    <3> HIDE DEF ends, pair
    <3> QED
      BY <1>9
  <2> HIDE DEF close
  <2> QED
    BY <1>1, <2>1, <2>2
<1> QED
  BY <1>2, <1>11

(* What Requoted puts between the quotes.                                  *)
Doubled(b, c) ==
  FlattenSeq([i \in DOMAIN b |-> IF b[i] = c THEN <<c, c>> ELSE <<b[i]>>])

(* It doubles character by character.                                      *)
LEMMA DoubledFacts ==
  ASSUME NEW c \in Characters
  PROVE  /\ Doubled(<<>>, c) = <<>>
         /\ \A b \in Text, x \in Characters :
              Doubled(<<x>> \o b, c) = (IF x = c THEN <<c, c>> ELSE <<x>>) \o Doubled(b, c)
<1> DEFINE twice(x) == IF x = c THEN <<c, c>> ELSE <<x>>
           pieces(b) == [i \in DOMAIN b |-> twice(b[i])]
<1>1. \A b : Doubled(b, c) = FlattenSeq(pieces(b))
  BY DEF Doubled
<1>2. ASSUME NEW b \in Text
      PROVE  pieces(b) \in Seq(Seq(Characters)) /\ Len(pieces(b)) = Len(b) /\ Len(b) \in Nat
             /\ \A i \in 1 .. Len(b) : pieces(b)[i] = twice(b[i])
  <2>1. Len(b) \in Nat /\ DOMAIN b = 1 .. Len(b) /\ \A i \in 1 .. Len(b) : b[i] \in Characters
    BY DEF Text
  <2>2. \A x \in Characters : twice(x) \in Seq(Characters)
    OBVIOUS
  <2>3. pieces(b) = [i \in 1 .. Len(b) |-> twice(b[i])]
    BY <2>1
  <2> HIDE DEF twice, pieces
  <2>4. pieces(b) \in [1 .. Len(b) -> Seq(Characters)]
    BY <2>1, <2>2, <2>3
  <2>5. pieces(b) \in Seq(Seq(Characters))
    BY <2>1, <2>4
  <2>6. Len(pieces(b)) = Len(b)
    BY <2>1, <2>4, <2>5
  <2> QED
    BY <2>1, <2>3, <2>5, <2>6
<1>3. Doubled(<<>>, c) = <<>>
  <2>1. pieces(<<>>) \in Seq(Seq(Characters)) /\ Len(pieces(<<>>)) = 0
    <3>1. <<>> \in Text /\ Len(<<>>) = 0
      BY DEF Text
    <3> HIDE DEF pieces
    <3> QED
      BY <1>2, <3>1
  <2> HIDE DEF pieces
  <2>2. PICK f : FlattensTo(f, pieces(<<>>), Characters) /\ FlattenSeq(pieces(<<>>)) = f[Len(pieces(<<>>))]
    BY <2>1, FlattenRuns
  <2> QED
    BY <1>1, <2>1, <2>2 DEF FlattensTo
<1>4. ASSUME NEW b \in Text, NEW x \in Characters
      PROVE  Doubled(<<x>> \o b, c) = twice(x) \o Doubled(b, c)
  <2> DEFINE w == <<x>> \o b
             left == <<twice(x)>>
  <2>1. /\ w \in Text /\ Len(w) = Len(b) + 1 /\ Len(b) \in Nat /\ w[1] = x
        /\ \A i \in 1 .. Len(b) : w[i + 1] = b[i]
    BY DEF Text
  <2>2. twice(x) \in Seq(Characters)
    OBVIOUS
  <2> HIDE DEF twice
  <2>3. left \in Seq(Seq(Characters)) /\ Len(left) = 1 /\ left[1] = twice(x)
    BY <2>2
  <2> HIDE DEF pieces, w, left
  <2>4. /\ pieces(b) \in Seq(Seq(Characters)) /\ Len(pieces(b)) = Len(b)
        /\ \A i \in 1 .. Len(b) : pieces(b)[i] = twice(b[i])
    BY <1>2
  <2>5. /\ pieces(w) \in Seq(Seq(Characters)) /\ Len(pieces(w)) = Len(w)
        /\ \A i \in 1 .. Len(w) : pieces(w)[i] = twice(w[i])
    BY <1>2, <2>1
  <2> DEFINE joined == left \o pieces(b)
  <2>6. /\ joined \in Seq(Seq(Characters)) /\ Len(joined) = Len(b) + 1 /\ joined[1] = left[1]
        /\ \A i \in 1 .. Len(b) : joined[i + 1] = pieces(b)[i]
    <3> DEFINE right == pieces(b)
    <3>1. right \in Seq(Seq(Characters)) /\ Len(right) = Len(b) /\ Len(b) \in Nat
      BY <2>1, <2>4
    <3> HIDE DEF right
    <3> DEFINE A == Seq(Characters)
    <3>2. /\ left \o right \in Seq(A) /\ Len(left \o right) = Len(left) + Len(right)
          /\ \A i \in 1 .. Len(left) + Len(right) :
               (left \o right)[i] = IF i <= Len(left) THEN left[i] ELSE right[i - Len(left)]
      <4>1. left \in Seq(A) /\ right \in Seq(A)
        BY ONLY <2>3, <3>1
      <4> HIDE DEF A
      <4> QED
        BY ONLY <4>1, ConcatProperties
    <3>3. Len(left \o right) = Len(b) + 1 /\ (left \o right)[1] = left[1]
      <4> DEFINE all == left \o right
      <4> HIDE DEF all
      <4>1. Len(all) = Len(b) + 1 /\ 1 \in 1 .. Len(left) + Len(right) /\ 1 <= Len(left)
        BY <2>3, <3>1, <3>2 DEF all
      <4> QED
        BY <3>2, <4>1 DEF all
    <3>4. \A i \in 1 .. Len(b) : (left \o right)[i + 1] = right[i]
      <4>1. \A i \in 1 .. Len(b) : i + 1 \in 1 .. Len(left) + Len(right) /\ ~(i + 1 <= Len(left))
                                   /\ (i + 1) - Len(left) = i
        BY <2>3, <3>1
      <4> QED
        BY <3>2, <4>1
    <3> QED
      BY <3>2, <3>3, <3>4 DEF right
  <2> HIDE DEF joined
  <2>7. \A i \in 1 .. Len(pieces(w)) : pieces(w)[i] = joined[i]
    <3> SUFFICES ASSUME NEW i \in 1 .. Len(pieces(w))
                 PROVE  pieces(w)[i] = joined[i]
      OBVIOUS
    <3>1. i = 1 \/ (i - 1 \in 1 .. Len(b) /\ (i - 1) + 1 = i)
      BY <2>1, <2>5
    <3>2. CASE i = 1
      BY <2>1, <2>3, <2>5, <2>6, <3>2
    <3>3. CASE i - 1 \in 1 .. Len(b) /\ (i - 1) + 1 = i
      <4> DEFINE j == i - 1
      <4>1. j \in 1 .. Len(b) /\ j + 1 = i /\ i \in 1 .. Len(w)
        BY <2>5, <3>3
      <4> HIDE DEF j
      <4>2. w[j + 1] = b[j] /\ joined[j + 1] = pieces(b)[j] /\ pieces(b)[j] = twice(b[j])
        BY <2>1, <2>4, <2>6, <4>1
      <4> QED
        BY <2>5, <4>1, <4>2
    <3> QED
      BY <3>1, <3>2, <3>3
  <2>8. pieces(w) = joined
    <3>1. Len(pieces(w)) = Len(joined)
      BY <2>1, <2>5, <2>6
    <3> QED
      BY ONLY <2>5, <2>6, <2>7, <3>1, SeqEqual
  <2>9. FlattenSeq(joined) = FlattenSeq(left) \o FlattenSeq(pieces(b))
    BY ONLY <2>3, <2>4, FlattenConcat DEF joined
  <2>10. FlattenSeq(left) = twice(x)
    BY ONLY <2>2, FlattenOne DEF left
  <2> QED
    BY <1>1, <2>8, <2>9, <2>10 DEF w
<1> QED
  BY <1>3, <1>4

(* A part of a text, character by character.                               *)
LEMMA PartFacts ==
  ASSUME NEW y \in Text, NEW t \in 0 .. Len(y)
  PROVE  /\ SubSeq(y, t + 1, t) = <<>>
         /\ \A i \in 0 .. t - 1 : SubSeq(y, i + 1, t) = <<y[i + 1]>> \o SubSeq(y, i + 2, t)
         /\ \A i \in 0 .. t - 1 : SubSeq(y, i + 1, t) \in Text
<1>1. /\ Len(y) \in Nat /\ t \in Nat /\ t <= Len(y) /\ y \in Seq(Characters)
      /\ \A j \in 1 .. Len(y) : y[j] \in Characters
  BY DEF Text
<1>2. SubSeq(y, t + 1, t) = <<>>
  BY <1>1
<1>3. ASSUME NEW i \in 0 .. t - 1
      PROVE  SubSeq(y, i + 1, t) = <<y[i + 1]>> \o SubSeq(y, i + 2, t) /\ SubSeq(y, i + 1, t) \in Text
  <2> DEFINE all == SubSeq(y, i + 1, t)
             head == <<y[i + 1]>>
             rest == SubSeq(y, i + 2, t)
             joined == head \o rest
  <2>1. i \in Nat /\ i + 1 \in 1 .. Len(y) /\ i + 1 <= t
    BY <1>1
  <2>2. /\ all \in Seq(Characters) /\ Len(all) = t - i
        /\ \A j \in 1 .. t - i : all[j] = y[i + j]
    <3>1. /\ all \in Seq(Characters) /\ Len(all) = t - i
          /\ \A j \in 1 .. t - i : all[j] = y[(i + 1) + j - 1]
      BY <1>1, <2>1
    <3>2. \A j \in 1 .. t - i : (i + 1) + j - 1 = i + j
      BY <1>1, <2>1
    <3> HIDE DEF all
    <3> QED
      BY <3>1, <3>2
  <2>3. /\ rest \in Seq(Characters) /\ Len(rest) = t - i - 1
        /\ \A j \in 1 .. t - i - 1 : rest[j] = y[i + 1 + j]
    <3>1. /\ rest \in Seq(Characters) /\ Len(rest) = t - i - 1
          /\ \A j \in 1 .. t - i - 1 : rest[j] = y[(i + 2) + j - 1]
      BY <1>1, <2>1
    <3>2. \A j \in 1 .. t - i - 1 : (i + 2) + j - 1 = i + 1 + j
      BY <1>1, <2>1
    <3> HIDE DEF rest
    <3> QED
      BY <3>1, <3>2
  <2>4. head \in Seq(Characters) /\ Len(head) = 1 /\ head[1] = y[i + 1]
    BY <1>1, <2>1
  <2> HIDE DEF all, head, rest
  <2>5. /\ joined \in Seq(Characters) /\ Len(joined) = Len(head) + Len(rest)
        /\ \A j \in 1 .. Len(head) + Len(rest) :
             joined[j] = IF j <= Len(head) THEN head[j] ELSE rest[j - Len(head)]
    <3>1. head \in Seq(Characters) /\ rest \in Seq(Characters)
      BY <2>3, <2>4
    <3> QED
      BY ONLY <3>1, ConcatProperties
  <2> HIDE DEF joined
  <2>6. Len(all) = Len(joined) /\ Len(head) + Len(rest) = t - i
    BY <1>1, <2>1, <2>2, <2>3, <2>4, <2>5
  <2>7. ASSUME NEW j \in 1 .. Len(all)
        PROVE  all[j] = joined[j]
    <3>1. j \in Nat /\ (j = 1 \/ (j - 1 \in 1 .. t - i - 1 /\ ~(j <= 1) /\ i + 1 + (j - 1) = i + j))
          /\ j \in 1 .. t - i
      BY <1>1, <2>1, <2>2
    <3>2. joined[j] = IF j <= 1 THEN head[j] ELSE rest[j - 1]
      BY <2>4, <2>5, <2>6, <3>1
    <3>3. CASE j = 1
      BY <2>2, <2>4, <3>1, <3>2, <3>3
    <3>4. CASE j - 1 \in 1 .. t - i - 1 /\ ~(j <= 1) /\ i + 1 + (j - 1) = i + j
      <4> DEFINE k == j - 1
      <4>1. k \in 1 .. t - i - 1 /\ joined[j] = rest[k] /\ i + 1 + k = i + j
        BY <3>2, <3>4
      <4> HIDE DEF k
      <4>2. rest[k] = y[i + 1 + k]
        BY <2>3, <4>1
      <4> QED
        BY <2>2, <3>1, <4>1, <4>2
    <3> QED
      BY <3>1, <3>3, <3>4
  <2>8. all = joined
    BY ONLY <2>2, <2>5, <2>6, <2>7, SeqEqual
  <2> QED
    BY <2>2, <2>8 DEF all, head, rest, joined, Text
<1> QED
  BY <1>2, <1>3

(* What sqlite3Dequote returns for a quoted text is its characters with    *)
(* each pair of quotes for one: doubling them restores what was between    *)
(* the first and the last.                                                 *)
LEMMA DoublingRestores ==
  ASSUME NEW y \in Text, NEW c \in Characters, NEW t \in Nat, Len(y) = t + 1, 1 <= t,
         Ch(y, t) = c, NEW f, QuoteLoop(f, y, c), f[1] = t, NEW body, Dequotes(body, y, c)
  PROVE  Doubled(body[2], c) = SubSeq(y, 2, t)
<1> DEFINE n == Len(y)
           C == {k \in Nat : k < t}
           step == [k \in Nat |-> IF Ch(y, k) = c THEN k + 2 ELSE k + 1]
           result == [k \in Nat |-> k]
           P == {k \in Nat : k <= t /\ f[k] = t => Doubled(body[k + 1], c) = SubSeq(y, k + 1, t)}
<1>1. /\ n \in Nat /\ n = t + 1 /\ c # "EOI" /\ t \in 0 .. Len(y) /\ \A i \in 1 .. n : y[i] \in Characters
      /\ \A k \in 0 .. t : y[k + 1] = Ch(y, k)
  BY DEF Text, Ch, Characters
<1>2. Forward(C, step, result, n)
  <2>1. step \in [Nat -> Nat] /\ result \in [Nat -> Nat] /\ C \subseteq Nat
    OBVIOUS
  <2>2. \A k \in C : k < step[k] /\ step[k] <= n
    BY <1>1
  <2>3. \A k \in Nat : k <= result[k] /\ (k <= n => result[k] <= n)
    BY <1>1
  <2> HIDE DEF C, step, result
  <2> QED
    BY <1>1, <2>1, <2>2, <2>3 DEF Forward
<1>3. \A k \in Nat : f[k] = IF k \in PairsIn(y, c) THEN f[Find(y, k, {c}) + 2] ELSE Find(y, k, {c})
  BY DEF QuoteLoop, Loops, AfterPair, NextQuote
<1>4. ASSUME NEW k \in Nat, k <= t, k \notin C, f[k] = t
      PROVE  Doubled(body[k + 1], c) = SubSeq(y, k + 1, t)
  <2>1. k = t
    BY <1>4
  <2>2. y[t + 1] = c /\ Ch(y, t + 1) = "EOI"
    BY <1>1 DEF Ch
  <2> DEFINE i == t + 1
  <2>3. i \in Nat \ {0} /\ y[i] = c /\ Ch(y, i) # c
    BY <1>1, <2>2
  <2> HIDE DEF i
  <2>4. body[i] = <<>>
    BY <2>3 DEF Dequotes
  <2>5. Doubled(body[i], c) = <<>>
    BY <2>4, DoubledFacts
  <2>6. SubSeq(y, t + 1, t) = <<>>
    BY <1>1, PartFacts
  <2> QED
    BY <2>1, <2>5, <2>6 DEF i
<1>5. ASSUME NEW k \in C, step[k] \in P, f[k] = t
      PROVE  Doubled(body[k + 1], c) = SubSeq(y, k + 1, t)
  <2> DEFINE i == k + 1
  <2>1. k \in Nat /\ k < t /\ i \in Nat \ {0} /\ i <= n /\ y[i] = Ch(y, k) /\ y[i] \in Characters
        /\ k \in 0 .. Len(y) /\ k + 1 \in 0 .. Len(y) /\ k + 2 \in 0 .. Len(y)
        /\ step[k] = IF Ch(y, k) = c THEN k + 2 ELSE k + 1
    BY <1>1
  <2>2. step[k] \in Nat /\ (step[k] <= t /\ f[step[k]] = t =>
           Doubled(body[step[k] + 1], c) = SubSeq(y, step[k] + 1, t))
    BY <1>5
  <2> HIDE DEF C, step, P, n
  <2>3. CASE Ch(y, k) = c
    <3>1. Find(y, k, {c}) = k
      <4>1. k \in k .. Len(y) /\ Ch(y, k) \in {c} \cup {"EOI"} /\ \A j \in k .. k - 1 : Ch(y, j) \notin {c} \cup {"EOI"}
        BY <2>1, <2>3
      <4> QED
        BY <2>1, <4>1, FindIs
    <3>2. k \in PairsIn(y, c)
      BY <1>3, <1>5, <2>1, <3>1
    <3>3. Ch(y, k + 1) = c /\ f[k + 2] = t
      BY <1>3, <1>5, <2>1, <3>1, <3>2 DEF PairsIn
    <3>4. k + 2 <= t
      <4> DEFINE j == k + 2
      <4>1. j \in 0 .. Len(y) /\ f[j] = t
        BY <2>1, <3>3
      <4> HIDE DEF j
      <4>2. f[j] \in j .. Len(y)
        BY <1>1, <4>1, QuoteEnd
      <4> QED
        BY <2>1, <4>1, <4>2 DEF j
    <3>5. Doubled(body[i + 2], c) = SubSeq(y, k + 3, t)
      <4>1. step[k] = k + 2 /\ k + 2 + 1 = i + 2 /\ k + 2 + 1 = k + 3
        BY <2>1, <2>3
      <4> QED
        BY <2>2, <3>3, <3>4, <4>1
    <3>6. body[i] = <<c>> \o body[i + 2] /\ body[i + 2] \in Text
      <4>1. i + 2 \in Nat \ {0} /\ i <= Len(y) /\ y[i] = c /\ Ch(y, i) = c
        BY <2>1, <2>3, <3>3 DEF n
      <4> HIDE DEF i
      <4> QED
        BY <2>1, <4>1 DEF Dequotes
    <3> HIDE DEF i
    <3>7. Doubled(body[i], c) = <<c, c>> \o SubSeq(y, k + 3, t)
      <4> DEFINE b == body[i + 2]
      <4>1. b \in Text /\ Doubled(b, c) = SubSeq(y, k + 3, t) /\ body[i] = <<c>> \o b
        BY <3>5, <3>6
      <4> HIDE DEF b
      <4>2. Doubled(<<c>> \o b, c) = <<c, c>> \o Doubled(b, c)
        BY <4>1, DoubledFacts
      <4> QED
        BY <4>1, <4>2
    <3>8. SubSeq(y, k + 1, t) = <<c>> \o (<<c>> \o SubSeq(y, k + 3, t)) /\ SubSeq(y, k + 3, t) \in Seq(Characters)
      <4>1. k \in 0 .. t - 1 /\ k + 1 \in 0 .. t - 1 /\ (k + 1) + 1 = k + 2 /\ (k + 1) + 2 = k + 3
        BY <2>1, <3>4
      <4>2. y[k + 1] = c /\ y[k + 2] = c
        BY <1>1, <2>3, <3>3, <4>1
      <4>3. SubSeq(y, k + 1, t) = <<c>> \o SubSeq(y, k + 2, t)
        BY <1>1, <4>1, <4>2, PartFacts
      <4>4. SubSeq(y, k + 2, t) = <<c>> \o SubSeq(y, k + 3, t)
        <5> DEFINE j == k + 1
        <5>1. j \in 0 .. t - 1 /\ j + 1 = k + 2 /\ j + 2 = k + 3
          BY <4>1
        <5> HIDE DEF j
        <5>2. SubSeq(y, j + 1, t) = <<y[j + 1]>> \o SubSeq(y, j + 2, t)
          BY <1>1, <5>1, PartFacts
        <5> QED
          BY <4>2, <5>1, <5>2
      <4>5. SubSeq(y, k + 3, t) \in Seq(Characters)
        <5>1. y \in Seq(Characters) /\ k + 3 \in Nat /\ t \in Nat /\ t <= Len(y) /\ Len(y) \in Nat
              /\ 1 <= k + 3
          BY <1>1, <2>1 DEF Text
        <5> QED
          BY <5>1
      <4> QED
        BY <4>3, <4>4, <4>5
    <3>9. <<c, c>> \o SubSeq(y, k + 3, t) = <<c>> \o (<<c>> \o SubSeq(y, k + 3, t))
      <4> DEFINE rest == SubSeq(y, k + 3, t)
      <4>1. rest \in Seq(Characters) /\ <<c>> \in Seq(Characters)
        BY <3>8
      <4>3. <<c>> \o <<c>> = <<c, c>>
        <5> DEFINE one == <<c>>
                   two == <<c, c>>
                   both == one \o one
        <5>1. one \in Seq(Characters) /\ Len(one) = 1 /\ one[1] = c
          OBVIOUS
        <5>2. two \in Seq(Characters) /\ Len(two) = 2 /\ two[1] = c /\ two[2] = c
          OBVIOUS
        <5> HIDE DEF one, two
        <5>3. /\ both \in Seq(Characters) /\ Len(both) = Len(one) + Len(one)
              /\ \A j \in 1 .. Len(one) + Len(one) :
                   both[j] = IF j <= Len(one) THEN one[j] ELSE one[j - Len(one)]
          <6>1. one \in Seq(Characters)
            BY <5>1
          <6> QED
            BY ONLY <6>1, ConcatProperties
        <5> HIDE DEF both
        <5>4. Len(both) = 2 /\ \A j \in 1 .. 2 : both[j] = two[j]
          BY ONLY <5>1, <5>2, <5>3
        <5>5. both = two
          BY ONLY <5>2, <5>3, <5>4, SeqEqual
        <5> QED
          BY <5>5 DEF one, two, both
      <4> HIDE DEF rest
      <4>2. (<<c>> \o <<c>>) \o rest = <<c>> \o (<<c>> \o rest)
        BY <4>1
      <4> QED
        BY <4>2, <4>3 DEF rest
    <3> QED
      BY <3>7, <3>8, <3>9 DEF i
  <2>4. CASE Ch(y, k) # c
    <3> DEFINE m == Find(y, k + 1, {c})
    <3>1. m \in k + 1 .. Len(y) /\ Ch(y, m) \in {c} \cup {"EOI"}
          /\ \A j \in k + 1 .. m - 1 : Ch(y, j) \notin {c} \cup {"EOI"}
      BY <2>1, FindFacts
    <3> HIDE DEF m
    <3>2. Ch(y, k) \notin {c} \cup {"EOI"}
      <4>1. k \in Nat /\ k < Len(y)
        BY <1>1, <2>1 DEF n
      <4> QED
        BY <2>4, <4>1, EndOfText
    <3>3. Find(y, k, {c}) = m
      <4>1. m \in k .. Len(y) /\ \A j \in k .. m - 1 : j = k \/ j \in k + 1 .. m - 1
        BY <2>1, <3>1
      <4>2. \A j \in k .. m - 1 : Ch(y, j) \notin {c} \cup {"EOI"}
        BY <3>1, <3>2, <4>1
      <4> QED
        BY <2>1, <3>1, <4>1, <4>2, FindIs
    <3>4. f[k + 1] = t
      <4>1. k \in PairsIn(y, c) <=> k + 1 \in PairsIn(y, c)
        BY <2>1, <3>3 DEF PairsIn, m
      <4>2. f[k + 1] = IF k + 1 \in PairsIn(y, c) THEN f[m + 2] ELSE m
        BY <1>3, <2>1 DEF m
      <4>3. f[k] = IF k \in PairsIn(y, c) THEN f[m + 2] ELSE m
        BY <1>3, <2>1, <3>3
      <4> QED
        BY <1>5, <4>1, <4>2, <4>3
    <3>5. Doubled(body[i + 1], c) = SubSeq(y, k + 2, t)
      <4>1. step[k] = k + 1 /\ k + 1 + 1 = i + 1 /\ k + 1 + 1 = k + 2 /\ k + 1 <= t
        BY <2>1, <2>4
      <4> QED
        BY <2>2, <3>4, <4>1
    <3>6. body[i] = <<y[i]>> \o body[i + 1] /\ body[i + 1] \in Text
      <4>1. i + 1 \in Nat \ {0} /\ i <= Len(y) /\ y[i] # c
        BY <2>1, <2>4 DEF n
      <4> HIDE DEF i
      <4> QED
        BY <2>1, <4>1 DEF Dequotes
    <3>7. Doubled(body[i], c) = <<y[i]>> \o SubSeq(y, k + 2, t)
      <4> DEFINE b == body[i + 1]
                 x == y[i]
      <4>1. b \in Text /\ Doubled(b, c) = SubSeq(y, k + 2, t) /\ body[i] = <<x>> \o b
            /\ x \in Characters /\ x # c
        BY <2>1, <2>4, <3>5, <3>6
      <4> HIDE DEF b, x, i
      <4>2. Doubled(<<x>> \o b, c) = <<x>> \o Doubled(b, c)
        BY <4>1, DoubledFacts
      <4> QED
        BY <4>1, <4>2 DEF x
    <3>8. SubSeq(y, k + 1, t) = <<y[k + 1]>> \o SubSeq(y, k + 2, t)
      <4>1. k \in 0 .. t - 1
        BY <2>1
      <4> QED
        BY <1>1, <4>1, PartFacts
    <3> QED
      BY <3>7, <3>8
  <2> QED
    BY <2>3, <2>4
<1>6. \A k \in Nat : k \in P
  <2>1. P \in SUBSET Nat
    OBVIOUS
  <2>2. \A k \in Nat : k \notin C => k \in P
    BY <1>4
  <2>3. \A k \in C : step[k] \in P => k \in P
    <3> SUFFICES ASSUME NEW k \in C, step[k] \in P
                 PROVE  k \in P
      OBVIOUS
    <3>1. step[k] \in P /\ k \in Nat
      OBVIOUS
    <3>2. f[k] = t => Doubled(body[k + 1], c) = SubSeq(y, k + 1, t)
      <4> HIDE DEF P, step
      <4> QED
        BY <1>5, <3>1
    <3> HIDE DEF step
    <3> QED
      BY <3>1, <3>2
  <2> HIDE DEF P, C, step, result, n
  <2> QED
    BY <1>2, <2>1, <2>2, <2>3, ForwardInduction
<1>7. 1 \in P
  <2> HIDE DEF P
  <2> QED
    BY <1>6
<1> QED
  BY <1>7

(* Hence Requoted restores the text of a quoted token.                     *)
LEMMA RequoteFacts ==
  ASSUME NEW y \in Text, Len(y) > 0, Ch(y, 0) \in {"'", "DQ", "BT"},
         NEW type, type # "ILLEGAL", Quoted(y, 0) = T(type, Len(y))
  PROVE  Requoted(sqlite3Dequote(y), y[1]) = y
<1> DEFINE c == y[1]
           n == Len(y)
<1>1. n \in Nat /\ 0 \in 0 .. n - 1 /\ 1 \in 0 .. n /\ Ch(y, 0) = c /\ c \in Characters /\ c # "[" /\ c # "EOI"
      /\ y \in Seq(Characters)
  BY DEF Text, Ch
<1>2. PICK f : QuoteLoop(f, y, c) /\ Quoted(y, 0) = QuotedTo(y, f[0 + 1])
  BY <1>1, QuotedFacts
<1> DEFINE t == f[1]
<1> HIDE DEF c, n
<1>3. t \in 1 .. n /\ Ch(y, t) \in {c, "EOI"}
  BY <1>1, <1>2, QuoteEnd DEF n
<1>4. Quoted(y, 0) = QuotedTo(y, t)
  BY <1>2
<1> HIDE DEF t
<1>5. Ch(y, t) = c /\ n = t + 1
  BY <1>3, <1>4 DEF QuotedTo, T, n
<1>6. PICK body : Dequotes(body, y, c) /\ sqlite3Dequote(y) = body[2]
  BY <1>1, DequoteFacts DEF c
<1>7. Doubled(body[2], c) = SubSeq(y, 2, t)
  <2>1. t \in Nat /\ Len(y) = t + 1 /\ 1 <= t /\ f[1] = t
    BY <1>1, <1>3, <1>5 DEF n, t
  <2> QED
    BY <1>1, <1>2, <1>5, <1>6, <2>1, DoublingRestores
<1>8. Requoted(body[2], c) = <<c>> \o SubSeq(y, 2, t) \o <<c>>
  BY <1>7 DEF Requoted, Doubled
<1>9. SubSeq(y, 1, t) = <<c>> \o SubSeq(y, 2, t)
  <2>1. t \in 0 .. Len(y) /\ 0 \in 0 .. t - 1 /\ 0 + 1 = 1 /\ 0 + 2 = 2
    BY <1>1, <1>3 DEF n
  <2> DEFINE o == 0
  <2>2. o \in 0 .. t - 1 /\ o + 1 = 1 /\ o + 2 = 2
    BY <2>1
  <2> HIDE DEF o
  <2>3. SubSeq(y, o + 1, t) = <<y[o + 1]>> \o SubSeq(y, o + 2, t)
    BY <2>1, <2>2, PartFacts
  <2> QED
    BY <2>2, <2>3 DEF c
<1>10. SubSeq(y, 1, t) \o <<c>> = y
  <2> DEFINE left == SubSeq(y, 1, t)
             last == <<c>>
             all == left \o last
  <2>1. left \in Seq(Characters) /\ Len(left) = t /\ \A j \in 1 .. t : left[j] = y[j]
    BY <1>1, <1>3, <1>5 DEF n
  <2>2. last \in Seq(Characters) /\ Len(last) = 1 /\ last[1] = c
    BY <1>1
  <2> HIDE DEF left, last
  <2>3. /\ all \in Seq(Characters) /\ Len(all) = Len(left) + Len(last)
        /\ \A j \in 1 .. Len(left) + Len(last) :
             all[j] = IF j <= Len(left) THEN left[j] ELSE last[j - Len(left)]
    BY ONLY <2>1, <2>2, ConcatProperties
  <2> HIDE DEF all
  <2>4. y[t + 1] = c
    BY <1>3, <1>5 DEF Ch, n
  <2>5. ASSUME NEW j \in 1 .. Len(all)
        PROVE  all[j] = y[j]
    <3>1. j \in Nat /\ (j \in 1 .. t \/ (j = t + 1 /\ ~(j <= t) /\ j - t = 1)) /\ t \in Nat
      BY <1>3, <2>1, <2>2, <2>3
    <3>2. all[j] = IF j <= t THEN left[j] ELSE last[j - t]
      BY <2>1, <2>3
    <3> QED
      BY <2>1, <2>2, <2>4, <3>1, <3>2
  <2>6. Len(all) = Len(y)
    BY <1>5, <2>1, <2>2, <2>3 DEF n
  <2>7. all = y
    BY ONLY <1>1, <2>3, <2>5, <2>6, SeqEqual
  <2> QED
    BY <2>7 DEF all, left, last
<1> QED
  BY <1>6, <1>8, <1>9, <1>10 DEF c

-----------------------------------------------------------------------------
(* Blobs *)

(* No keyword is a blob.                                                   *)
LEMMA KeywordTokens ==
  /\ DOMAIN keywords \subseteq Nat
  /\ \A i \in DOMAIN keywords : keywords[i].token # "BLOB"
<1> DEFINE S == ToSet(Keywords_A_C)
                  \cup ToSet(Keywords_C_G)
                  \cup ToSet(Keywords_G_N)
                  \cup ToSet(Keywords_N_R)
                  \cup ToSet(Keywords_R_W)
<1>1. Keywords_A_C \in Seq(S) /\ \A x \in ToSet(Keywords_A_C) : x.token # "BLOB"
  <2>1. DOMAIN Keywords_A_C = 1 .. 30
    BY DEF Keywords_A_C
  <2>2. ASSUME NEW i \in 1 .. 30
        PROVE  Keywords_A_C[i].token # "BLOB"
    BY DEF Keywords_A_C, Keyword
  <2>3. \A i \in 1 .. 30 : Keywords_A_C[i] \in S
    BY <2>1 DEF ToSet
  <2> HIDE DEF S
  <2>4. Keywords_A_C \in Seq(S)
    BY <2>3 DEF Keywords_A_C
  <2> QED
    BY <2>1, <2>2, <2>4 DEF ToSet
<1>2. Keywords_C_G \in Seq(S) /\ \A x \in ToSet(Keywords_C_G) : x.token # "BLOB"
  <2>1. DOMAIN Keywords_C_G = 1 .. 30
    BY DEF Keywords_C_G
  <2>2. ASSUME NEW i \in 1 .. 30
        PROVE  Keywords_C_G[i].token # "BLOB"
    BY DEF Keywords_C_G, Keyword
  <2>3. \A i \in 1 .. 30 : Keywords_C_G[i] \in S
    BY <2>1 DEF ToSet
  <2> HIDE DEF S
  <2>4. Keywords_C_G \in Seq(S)
    BY <2>3 DEF Keywords_C_G
  <2> QED
    BY <2>1, <2>2, <2>4 DEF ToSet
<1>3. Keywords_G_N \in Seq(S) /\ \A x \in ToSet(Keywords_G_N) : x.token # "BLOB"
  <2>1. DOMAIN Keywords_G_N = 1 .. 30
    BY DEF Keywords_G_N
  <2>2. ASSUME NEW i \in 1 .. 30
        PROVE  Keywords_G_N[i].token # "BLOB"
    BY DEF Keywords_G_N, Keyword
  <2>3. \A i \in 1 .. 30 : Keywords_G_N[i] \in S
    BY <2>1 DEF ToSet
  <2> HIDE DEF S
  <2>4. Keywords_G_N \in Seq(S)
    BY <2>3 DEF Keywords_G_N
  <2> QED
    BY <2>1, <2>2, <2>4 DEF ToSet
<1>4. Keywords_N_R \in Seq(S) /\ \A x \in ToSet(Keywords_N_R) : x.token # "BLOB"
  <2>1. DOMAIN Keywords_N_R = 1 .. 30
    BY DEF Keywords_N_R
  <2>2. ASSUME NEW i \in 1 .. 30
        PROVE  Keywords_N_R[i].token # "BLOB"
    BY DEF Keywords_N_R, Keyword
  <2>3. \A i \in 1 .. 30 : Keywords_N_R[i] \in S
    BY <2>1 DEF ToSet
  <2> HIDE DEF S
  <2>4. Keywords_N_R \in Seq(S)
    BY <2>3 DEF Keywords_N_R
  <2> QED
    BY <2>1, <2>2, <2>4 DEF ToSet
<1>5. Keywords_R_W \in Seq(S) /\ \A x \in ToSet(Keywords_R_W) : x.token # "BLOB"
  <2>1. DOMAIN Keywords_R_W = 1 .. 28
    BY DEF Keywords_R_W
  <2>2. ASSUME NEW i \in 1 .. 28
        PROVE  Keywords_R_W[i].token # "BLOB"
    BY DEF Keywords_R_W, Keyword
  <2>3. \A i \in 1 .. 28 : Keywords_R_W[i] \in S
    BY <2>1 DEF ToSet
  <2> HIDE DEF S
  <2>4. Keywords_R_W \in Seq(S)
    BY <2>3 DEF Keywords_R_W
  <2> QED
    BY <2>1, <2>2, <2>4 DEF ToSet
<1>6. \A x \in S : x.token # "BLOB"
  BY <1>1, <1>2, <1>3, <1>4, <1>5
<1> HIDE DEF S
<1>7. keywords \in Seq(S)
  <2>1. Keywords_A_C \o Keywords_C_G \in Seq(S)
    BY ONLY <1>1, <1>2, ConcatProperties
  <2>2. (Keywords_A_C \o Keywords_C_G) \o Keywords_G_N \in Seq(S)
    BY ONLY <1>3, <2>1, ConcatProperties
  <2>3. ((Keywords_A_C \o Keywords_C_G) \o Keywords_G_N) \o Keywords_N_R \in Seq(S)
    BY ONLY <1>4, <2>2, ConcatProperties
  <2>4. (((Keywords_A_C \o Keywords_C_G) \o Keywords_G_N) \o Keywords_N_R) \o Keywords_R_W \in Seq(S)
    BY ONLY <1>5, <2>3, ConcatProperties
  <2> QED
    BY <2>4 DEF keywords
<1> QED
  BY <1>6, <1>7, ElementOfSeq, LenProperties

(* A word is a keyword or a name, and no blob.                             *)
LEMMA WordTypes ==
  ASSUME NEW z, NEW p, NEW flags
  PROVE  KeywordOrId(z, p, flags).type # "BLOB"
<1>1. ASSUME NEW word
      PROVE  KeywordNamed(word, flags) # "BLOB"
  <2> DEFINE found == {i \in DOMAIN keywords : keywords[i].name = word /\ Enabled(keywords[i], flags)}
             first == CHOOSE i \in found : \A j \in found : i <= j
  <2>1. KeywordNamed(word, flags) = IF found = {} THEN "ID" ELSE keywords[first].token
    BY DEF KeywordNamed
  <2>2. found # {} => first \in DOMAIN keywords
    <3> SUFFICES ASSUME found # {}
                 PROVE  first \in DOMAIN keywords
      OBVIOUS
    <3>1. found \subseteq Nat
      BY KeywordTokens
    <3>2. \E i \in found : \A j \in found : i <= j
      <4> HIDE DEF found
      <4> QED
        BY <3>1, LeastOf
    <3>3. first \in found
      <4> HIDE DEF found
      <4> QED
        BY <3>2
    <3> QED
      BY <3>3
  <2> HIDE DEF found, first
  <2> QED
    BY <2>1, <2>2, KeywordTokens
<1> DEFINE end == Past(z, p + 1, KeywordChars)
<1>2. finishKeyword(z, p, end, flags).type # "BLOB"
  BY <1>1 DEF finishKeyword, T
<1> QED
  BY <1>2 DEF KeywordOrId, T

(* Only a text that begins like a blob is one.                             *)
LEMMA BlobTypes ==
  ASSUME NEW z, NEW p, NEW sep, NEW flags, nextToken(z, p, sep, flags).type = "BLOB"
  PROVE  /\ Ch(z, p) \in {"x", "X"} /\ Ch(z, p + 1) = "'"
         /\ nextToken(z, p, sep, flags) = Blob(z, p)
<1> DEFINE token == nextToken(z, p, sep, flags)
           class == classAt(z, p)
<1>1. class \in Classes
  BY ClassFacts DEF classAt
<1>2. class = "MINUS" => token = Minus(z, p)
  BY DEF nextToken
<1>3. class = "SLASH" => token = Slash(z, p)
  BY DEF nextToken
<1>4. class = "OPERATOR" => token = OperatorAt(z, p)
  BY DEF nextToken
<1>5. class = "QUOTE" => token = Quoted(z, p)
  BY DEF nextToken
<1>6. class = "QUOTE2" => token = Bracketed(z, p)
  BY DEF nextToken
<1>7. class = "DIGIT" \/ (class = "DOT" /\ Ch(z, p + 1) \in Digits) => token = scanNumber(z, p, sep)
  BY DEF nextToken
<1>8. class \in {"DOLLAR", "VARALPHA"} => token = Variable(z, p)
  BY DEF nextToken
<1>9. class = "KYWD0" => token = KeywordOrId(z, p, flags)
  BY DEF nextToken
<1>10. class = "X" /\ Ch(z, p + 1) = "'" => token = Blob(z, p)
  BY DEF nextToken
<1>11. class \in {"SPACE", "VARNUM", "KYWD", "ID", "BOM", "NUL", "ILLEGAL"}
         \/ (class = "X" /\ Ch(z, p + 1) # "'") \/ (class = "DOT" /\ Ch(z, p + 1) \notin Digits)
         => token.type \in {"SPACE", "VARIABLE", "ID", "ILLEGAL", "DOT"}
  BY DEF nextToken, Identifier, Illegal, T
<1>12. Minus(z, p).type \in {"COMMENT", "PTR", "MINUS"}
  BY DEF Minus, T
<1>13. Slash(z, p).type \in {"COMMENT", "SLASH"}
  BY DEF Slash, T
<1>14. class = "OPERATOR" => OperatorAt(z, p).type # "BLOB"
  <2> SUFFICES ASSUME class = "OPERATOR"
               PROVE  OperatorAt(z, p).type # "BLOB"
    OBVIOUS
  <2> DEFINE pairs == {pair \in Pairs : pair[1] = Ch(z, p) /\ pair[2] = Ch(z, p + 1)}
             chosen == CHOOSE pair \in pairs : TRUE
  <2>1. OperatorAt(z, p).type = IF pairs = {} THEN Singles[Ch(z, p)] ELSE chosen[3]
    BY DEF OperatorAt, T
  <2>2. Ch(z, p) \in OperatorChars
    BY ClassIs DEF classAt
  <2>3. \A c \in OperatorChars : Singles[c] # "BLOB"
    BY DEF OperatorChars, Singles
  <2>4. \A pair \in Pairs : pair[3] # "BLOB"
    BY DEF Pairs
  <2>5. pairs # {} => chosen \in Pairs
    OBVIOUS
  <2> HIDE DEF pairs, chosen
  <2> QED
    BY <2>1, <2>2, <2>3, <2>4, <2>5
<1>15. Quoted(z, p).type # "BLOB"
  BY DEF Quoted, T
<1>16. Bracketed(z, p).type # "BLOB"
  BY DEF Bracketed, T
<1>17. scanNumber(z, p, sep).type # "BLOB"
  BY DEF scanNumber, T
<1>18. Variable(z, p).type # "BLOB"
  <2> DEFINE end == Variable(z, p).end
  <2> QED
    BY DEF Variable, T
<1>19. KeywordOrId(z, p, flags).type # "BLOB"
  BY WordTypes
<1>20. class = "X" => Ch(z, p) \in {"x", "X"}
  BY DEF classAt, aiClass
<1> HIDE DEF class, token
<1>21. token.type = "BLOB"
  BY DEF token
<1>22. class = "X" /\ Ch(z, p + 1) = "'"
  BY <1>1, <1>2, <1>3, <1>4, <1>5, <1>6, <1>7, <1>8, <1>9, <1>11, <1>12, <1>13, <1>14, <1>15, <1>16,
     <1>17, <1>18, <1>19, <1>21 DEF Classes
<1> QED
  BY <1>10, <1>20, <1>22 DEF token

(* A hexadecimal digit is one of sixteen, in either case.                  *)
LEMMA HexFacts ==
  ASSUME NEW d \in XDigits
  PROVE  sqlite3HexToInt(d) \in 0 .. 15
<1> DEFINE hex == <<"0", "1", "2", "3", "4", "5", "6", "7", "8", "9", "A", "B", "C", "D", "E", "F">>
<1>1. \E n \in 0 .. 15 : hex[n + 1] = UpperOf(d)
  <2>1. CASE d \in Digits
    <3>1. UpperOf(d) = d
      <4>1. \A c \in Lower : c \in Letters
        BY DEF Letters
      <4>2. d \notin Lower
        BY <2>1, <4>1, LetterFacts
      <4> QED
        BY <4>2 DEF UpperOf
    <3>2. \E n \in 0 .. 15 : hex[n + 1] = d
      BY <2>1 DEF Digits
    <3> QED
      BY <3>1, <3>2
  <2>2. CASE d \notin Digits
    <3>1. PICK u \in {"A", "B", "C", "D", "E", "F"} : d = u \/ d = LowerOf[u]
      BY <2>2 DEF XDigits, LowerOf
    <3>2. u \in Upper
      BY DEF Upper
    <3>3. UpperOf(d) = u
      <4>1. /\ LowerOf[u] \in Lower /\ u \notin Lower
            /\ \A w \in Upper : LowerOf[w] = LowerOf[u] => w = u
        BY <3>2, SwapFacts
      <4> QED
        BY <3>1, <3>2, <4>1 DEF UpperOf
    <3>4. \E n \in 0 .. 15 : hex[n + 1] = u
      BY <3>1
    <3> QED
      BY <3>3, <3>4
  <2> QED
    BY <2>1, <2>2
<1>2. sqlite3HexToInt(d) = CHOOSE n \in 0 .. 15 : hex[n + 1] = UpperOf(d)
  BY DEF sqlite3HexToInt
<1> HIDE DEF hex
<1> QED
  BY <1>1, <1>2

(* The conversion of a blob succeeds, with a byte for every two digits.    *)
LEMMA BlobFacts ==
  ASSUME NEW y \in Text, Len(y) > 0, Ch(y, 0) \in {"x", "X"}, Ch(y, 0 + 1) = "'",
         Blob(y, 0) = T("BLOB", Len(y))
  PROVE  LET blob == sqlite3HexToBlob(y)
         IN  /\ ~blob.error
             /\ 2 * Len(blob.bytes) + 3 = Len(y)
             /\ ToSet(blob.bytes) \subseteq 0 .. 255
<1> DEFINE n == Len(y)
           digits == Past(y, 2, XDigits)
           quote == Find(y, digits, {"'"})
           hex == SubSeq(y, 3, n - 1)
<1>1. n \in Nat /\ y \in Seq(Characters) /\ \A j \in 1 .. n : y[j] = Ch(y, j - 1)
  BY DEF Text, Ch
<1>2. n >= 2 /\ 2 \in 0 .. n /\ y[1] \in {"x", "X"} /\ Ch(y, 1) = "'"
  <2>1. 1 < n
    BY <1>1, EndOfText
  <2> QED
    BY <1>1, <2>1
<1>3. /\ digits \in 2 .. n /\ \A k \in 2 .. digits - 1 : Ch(y, k) \in XDigits
  BY <1>2, PastFacts, NoClassHasEnd
<1>4. quote = digits /\ Ch(y, digits) = "'" /\ digits % 2 = 0 /\ n = digits + 1
  <2> DEFINE end == IF Ch(y, quote) = "EOI" THEN quote ELSE quote + 1
             judged == quote = digits /\ Ch(y, quote) = "'" /\ (digits - 0 - 2) % 2 = 0
  <2>1. Blob(y, 0) = T(IF judged THEN "BLOB" ELSE "ILLEGAL", end)
    BY DEF Blob
  <2> HIDE DEF judged, end
  <2>2. judged /\ end = n
    BY <2>1 DEF T
  <2>3. (digits - 0 - 2) % 2 = 0 /\ digits \in Nat
    BY <1>1, <1>3, <2>2 DEF judged
  <2> HIDE DEF quote, digits, n
  <2>4. digits % 2 = 0
    BY ONLY <2>3
  <2> QED
    BY <2>2, <2>4 DEF judged, end
<1> HIDE DEF quote, digits, n
<1>5. /\ hex \in Seq(Characters) /\ Len(hex) = digits - 2 /\ Len(hex) \in Nat
      /\ \A i \in 1 .. digits - 2 : hex[i] = Ch(y, i + 1)
  <2>1. /\ hex \in Seq(Characters) /\ Len(hex) = digits - 2
        /\ \A i \in 1 .. digits - 2 : hex[i] = y[i + 2]
    BY <1>1, <1>2, <1>3, <1>4 DEF n
  <2>2. \A i \in 1 .. digits - 2 : y[i + 2] = Ch(y, i + 1)
    BY <1>1, <1>3, <1>4
  <2> HIDE DEF hex
  <2> QED
    BY <1>3, <2>1, <2>2
<1>6. ASSUME NEW i \in 1 .. digits - 2
      PROVE  hex[i] \in XDigits
  <2>1. hex[i] = Ch(y, i + 1)
    BY <1>5
  <2>2. i + 1 \in 2 .. digits - 1
    BY <1>3
  <2> QED
    BY <1>3, <2>1, <2>2
<1>7. y[n] = "'"
  <2>1. n \in 1 .. n /\ n - 1 = digits
    BY <1>1, <1>2, <1>3, <1>4
  <2>2. y[n] = Ch(y, n - 1)
    BY <1>1, <2>1
  <2> QED
    BY <1>4, <2>1, <2>2
<1>8. Len(hex) % 2 = 0 /\ 2 * (Len(hex) \div 2) = Len(hex)
  <2>1. digits \in Nat /\ digits >= 2 /\ Len(hex) = digits - 2
    BY <1>1, <1>3, <1>5
  <2> HIDE DEF hex
  <2> QED
    BY ONLY <1>4, <2>1
<1> DEFINE half == Len(hex) \div 2
           nibble(i) == sqlite3HexToInt(hex[i])
           bytes == [i \in 1 .. half |-> 16 * nibble(2 * i - 1) + nibble(2 * i)]
<1>9. sqlite3HexToBlob(y) = [error |-> FALSE, bytes |-> bytes]
  BY <1>2, <1>7, <1>8 DEF sqlite3HexToBlob, n
<1>10. half \in Nat /\ 2 * half = digits - 2
  BY <1>5, <1>8
<1>11. \A i \in 1 .. half : bytes[i] \in 0 .. 255
  <2> SUFFICES ASSUME NEW i \in 1 .. half
               PROVE  bytes[i] \in 0 .. 255
    OBVIOUS
  <2>1. 2 * i - 1 \in 1 .. digits - 2 /\ 2 * i \in 1 .. digits - 2
    <3> HIDE DEF half
    <3> QED
      BY <1>10, <1>1, <1>3
  <2>2. nibble(2 * i - 1) \in 0 .. 15 /\ nibble(2 * i) \in 0 .. 15
    <3> HIDE DEF hex
    <3> QED
      BY <1>6, <2>1, HexFacts
  <2>3. bytes[i] = 16 * nibble(2 * i - 1) + nibble(2 * i)
    OBVIOUS
  <2> DEFINE high == nibble(2 * i - 1)
             low == nibble(2 * i)
  <2>4. high \in 0 .. 15 /\ low \in 0 .. 15 /\ bytes[i] = 16 * high + low
    BY <2>2, <2>3
  <2> HIDE DEF high, low, bytes
  <2> QED
    BY ONLY <2>4
<1>12. DOMAIN bytes = 1 .. half
  OBVIOUS
<1> HIDE DEF bytes, half, hex
<1>13. Len(bytes) = half
  BY <1>10, <1>12
<1>14. ToSet(bytes) \subseteq 0 .. 255
  <2>1. ASSUME NEW x \in ToSet(bytes)
        PROVE  x \in 0 .. 255
    <3>1. PICK i \in DOMAIN bytes : x = bytes[i]
      BY DEF ToSet
    <3>2. i \in 1 .. half
      BY ONLY <1>12, i \in DOMAIN bytes
    <3>3. bytes[i] \in 0 .. 255
      BY ONLY <1>11, <3>2
    <3> QED
      BY ONLY <3>1, <3>3
  <2> QED
    BY ONLY <2>1
<1>15. 2 * Len(bytes) + 3 = n
  BY <1>1, <1>3, <1>4, <1>10, <1>13
<1> QED
  BY <1>9, <1>14, <1>15 DEF n

-----------------------------------------------------------------------------
(* A token returned that begins with a quote: all of its text is quoted,   *)
(* and in the source no other quote follows.                               *)
LEMMA QuotedToken ==
  ASSUME StreamInv, AllFromSource, TokenStandsAlone, NEW i \in DOMAIN emitted,
         emitted[i].text[1] \in {"'", "DQ", "BT"}
  PROVE  LET y == emitted[i].text
         IN  /\ Quoted(y, 0) = T(emitted[i].type, Len(y))
             /\ Ch(input.source, emitted[i].span.offset + Len(y)) # y[1]
<1> DEFINE y == emitted[i].text
           z == input.source
           p == emitted[i].span.offset
           length == emitted[i].span.length
           sep == input.digitSep
           flags == input.flags
<1>1. /\ y \in Text /\ Len(y) \in Nat /\ Len(y) > 0 /\ Ch(y, 0) = y[1]
      /\ nextToken(y, 0, sep, flags) = T(emitted[i].type, Len(y))
  BY TextFacts DEF Alone
<1>2. z \in Text /\ Len(z) \in Nat
  BY InputFacts, RequestText DEF StreamInv, StreamOK
<1>3. /\ p \in 0 .. Len(z) - 1 /\ p + length \in p + 1 .. Len(z) /\ length \in Nat
      /\ nextToken(z, p, sep, flags).end = p + length
      /\ y = SubSeq(z, p + 1, p + length)
  BY DEF AllFromSource, FromSource, Scan
<1>4. y[1] \in {"'", "DQ", "BT"}
  OBVIOUS
<1> HIDE DEF y, z, p, length, sep, flags
<1>5. Len(y) = length /\ y[1] = Ch(z, p)
  BY <1>2, <1>3 DEF Ch, Text
<1>6. classAt(y, 0) = "QUOTE" /\ classAt(z, p) = "QUOTE"
  BY <1>1, <1>4, <1>5, JudgedClasses DEF classAt
<1>7. Quoted(y, 0) = T(emitted[i].type, Len(y))
  BY <1>1, <1>6 DEF nextToken
<1>8. Quoted(z, p).end = p + length
  BY <1>3, <1>6 DEF nextToken
<1>9. Ch(z, Quoted(z, p).end) # Ch(z, p)
  BY <1>2, <1>3, NoQuoteFollows
<1> QED
  BY <1>5, <1>7, <1>8, <1>9 DEF y, z, p

(* DequoteInverts for every source: a text is illegal exactly when its     *)
(* quotes are not paired, what sqlite3Dequote returns has lost nothing,    *)
(* and sqlite3HexToBlob takes every blob the scanner lets through.         *)
THEOREM DequoteAlwaysInverts == StreamSpec => []DequoteInverts
<1>1. ASSUME StreamInv, AllFromSource, TokenStandsAlone
      PROVE  QuotesPaired
  <2> SUFFICES ASSUME NEW i \in DOMAIN emitted, emitted[i].text[1] \in {"'", "DQ", "BT"}
               PROVE  LET text == emitted[i].text
                          quotes == Cardinality({j \in DOMAIN text : text[j] = text[1]})
                      IN  /\ (quotes % 2 = 0) <=> (emitted[i].type # "ILLEGAL")
                          /\ Ch(input.source, emitted[i].span.offset + Len(text)) # text[1]
    BY DEF QuotesPaired
  <2> DEFINE y == emitted[i].text
  <2>1. /\ Quoted(y, 0) = T(emitted[i].type, Len(y))
        /\ Ch(input.source, emitted[i].span.offset + Len(y)) # y[1]
    BY <1>1, QuotedToken
  <2>2. y \in Text /\ Len(y) > 0 /\ Ch(y, 0) = y[1]
    BY <1>1, TextFacts DEF Alone
  <2>3. y[1] \in {"'", "DQ", "BT"}
    OBVIOUS
  <2> HIDE DEF y
  <2>4. Quoted(y, 0).end = Len(y) /\ Quoted(y, 0).type = emitted[i].type
    BY <2>1 DEF T
  <2>5. (Cardinality({j \in DOMAIN y : y[j] = y[1]}) % 2 = 0) <=> (Quoted(y, 0).type # "ILLEGAL")
    BY <2>2, <2>3, <2>4, QuoteParity
  <2> QED
    BY <2>1, <2>4, <2>5 DEF y
<1>2. ASSUME StreamInv, AllFromSource, TokenStandsAlone, NEW i \in DOMAIN emitted,
             emitted[i].type \in {"STRING", "ID"}, emitted[i].text[1] \in {"'", "DQ", "BT"}
      PROVE  Requoted(sqlite3Dequote(emitted[i].text), emitted[i].text[1]) = emitted[i].text
  <2> DEFINE y == emitted[i].text
             type == emitted[i].type
  <2>1. Quoted(y, 0) = T(type, Len(y)) /\ type # "ILLEGAL" /\ y[1] \in {"'", "DQ", "BT"}
    BY <1>2, QuotedToken
  <2>2. y \in Text /\ Len(y) > 0 /\ Ch(y, 0) = y[1]
    BY <1>2, TextFacts DEF Alone
  <2> HIDE DEF y, type
  <2>3. Requoted(sqlite3Dequote(y), y[1]) = y
    BY <2>1, <2>2, RequoteFacts
  <2> QED
    BY <2>3 DEF y
<1>3. ASSUME StreamInv, AllFromSource, TokenStandsAlone, NEW i \in DOMAIN emitted,
             emitted[i].type = "BLOB"
      PROVE  LET blob == sqlite3HexToBlob(emitted[i].text)
             IN  /\ ~blob.error
                 /\ 2 * Len(blob.bytes) + 3 = Len(emitted[i].text)
                 /\ ToSet(blob.bytes) \subseteq 0 .. 255
  <2> DEFINE y == emitted[i].text
             sep == input.digitSep
             flags == input.flags
  <2>1. /\ y \in Text /\ Len(y) > 0
        /\ nextToken(y, 0, sep, flags) = T("BLOB", Len(y))
    BY <1>3, TextFacts DEF Alone
  <2> HIDE DEF y, sep, flags
  <2>2. Ch(y, 0) \in {"x", "X"} /\ Ch(y, 0 + 1) = "'" /\ Blob(y, 0) = T("BLOB", Len(y))
    <3>1. nextToken(y, 0, sep, flags).type = "BLOB"
      BY <2>1 DEF T
    <3> QED
      BY <2>1, <3>1, BlobTypes
  <2>3. LET blob == sqlite3HexToBlob(y)
        IN  /\ ~blob.error
            /\ 2 * Len(blob.bytes) + 3 = Len(y)
            /\ ToSet(blob.bytes) \subseteq 0 .. 255
    BY <2>1, <2>2, BlobFacts
  <2> QED
    BY <2>3 DEF y
<1>4. StreamInv /\ AllFromSource /\ TokenStandsAlone => DequoteInverts
  BY <1>1, <1>2, <1>3 DEF DequoteInverts
<1> QED
  BY <1>4, TokensFromSource, TokensStandAlone, PTL
-----------------------------------------------------------------------------
(* Carets *)

(* The line of an offset, the line breaks before it, and its column.       *)
BreaksTo(z, o) == {i \in 0 .. o - 1 : Ch(z, i) = "LF"}
LineOf(z, o) == LineColAt(z, o).line
ColOf(z, o) == LineColAt(z, o).col

(* An offset is on the line one after the line breaks before it, and its   *)
(* column counts from the last of them.                                    *)
LEMMA LineFacts ==
  ASSUME NEW z \in Text, NEW o \in Nat
  PROVE  /\ BreaksTo(z, o) \subseteq 0 .. o /\ IsFiniteSet(BreaksTo(z, o))
         /\ Cardinality(BreaksTo(z, o)) \in Nat
         /\ LineOf(z, o) = 1 + Cardinality(BreaksTo(z, o))
         /\ LineOf(z, o) \in Nat \ {0}
         /\ ColOf(z, o) = IF BreaksTo(z, o) = {} THEN o ELSE o - 1 - LastOf(BreaksTo(z, o))
<1>1. BreaksTo(z, o) \subseteq 0 .. o
  BY DEF BreaksTo
<1>2. IsFiniteSet(BreaksTo(z, o))
  <2>1. IsFiniteSet(0 .. o)
    BY FS_Interval
  <2> QED
    BY <1>1, <2>1, FS_Subset
<1>3. Cardinality(BreaksTo(z, o)) \in Nat
  BY <1>2, FS_CardinalityType
<1>4. /\ LineOf(z, o) = 1 + Cardinality(BreaksTo(z, o))
      /\ ColOf(z, o) = IF BreaksTo(z, o) = {} THEN o ELSE o - 1 - LastOf(BreaksTo(z, o))
  BY DEF LineOf, ColOf, LineColAt, BreaksTo, LastOf
<1> QED
  BY <1>1, <1>2, <1>3, <1>4

(* The first line is the one of offset zero.                               *)
LEMMA FirstLine ==
  ASSUME NEW z \in Text
  PROVE  LineOf(z, 0) = 1
<1>1. BreaksTo(z, 0) = {}
  BY DEF BreaksTo
<1>2. Cardinality(BreaksTo(z, 0)) = 0
  BY <1>1, FS_EmptySet
<1>3. LineOf(z, 0) = 1 + Cardinality(BreaksTo(z, 0))
  BY LineFacts
<1> QED
  BY <1>2, <1>3

(* A line goes on to the next offset, unless a line break is passed.       *)
LEMMA LineSteps ==
  ASSUME NEW z \in Text, NEW o \in Nat
  PROVE  LineOf(z, o + 1) = IF Ch(z, o) = "LF" THEN LineOf(z, o) + 1 ELSE LineOf(z, o)
<1> DEFINE B == BreaksTo(z, o)
<1>1. /\ IsFiniteSet(B) /\ LineOf(z, o) = 1 + Cardinality(B) /\ Cardinality(B) \in Nat
      /\ LineOf(z, o + 1) = 1 + Cardinality(BreaksTo(z, o + 1))
  BY LineFacts
<1>2. BreaksTo(z, o + 1) = IF Ch(z, o) = "LF" THEN B \cup {o} ELSE B
  BY DEF BreaksTo
<1>3. o \notin B
  BY DEF BreaksTo
<1> HIDE DEF B
<1>4. Cardinality(B \cup {o}) = Cardinality(B) + 1
  BY <1>1, <1>3, FS_AddElement
<1> QED
  BY <1>1, <1>2, <1>4

(* A later offset is on the same line or a later one, and on a later one   *)
(* when there is a line break between.                                     *)
LEMMA LinesGrow ==
  ASSUME NEW z \in Text, NEW a \in Nat, NEW b \in Nat, a <= b
  PROVE  /\ LineOf(z, a) <= LineOf(z, b)
         /\ \A o \in a .. b - 1 : Ch(z, o) = "LF" => LineOf(z, a) < LineOf(z, b)
<1> DEFINE A == BreaksTo(z, a)
           B == BreaksTo(z, b)
<1>1. /\ IsFiniteSet(B) /\ Cardinality(A) \in Nat /\ Cardinality(B) \in Nat
      /\ LineOf(z, a) = 1 + Cardinality(A) /\ LineOf(z, b) = 1 + Cardinality(B)
  BY LineFacts
<1>2. A \subseteq B
  BY DEF BreaksTo
<1>3. ASSUME NEW o \in a .. b - 1, Ch(z, o) = "LF"
      PROVE  o \in B /\ o \notin A
  BY <1>3 DEF BreaksTo
<1> HIDE DEF A, B
<1>4. Cardinality(A) <= Cardinality(B) /\ (Cardinality(A) = Cardinality(B) => A = B)
  BY <1>1, <1>2, FS_Subset
<1> QED
  BY <1>1, <1>3, <1>4

(* The line breaks passed from one offset to another, as Advance counts    *)
(* them and as lineColAt does: from zero, and from one.                    *)
Passed(z, a, b) == {i \in a .. b - 1 : Ch(z, i) = "LF"}
PassedFromOne(z, a, b) == {i \in Breaks(z) : a < i /\ i <= b}

(* There are as many of both, and they end at the same one.                *)
LEMMA BreaksShift ==
  ASSUME NEW z \in Text, NEW a \in Nat, NEW b \in 0 .. Len(z), a <= b
  PROVE  /\ IsFiniteSet(PassedFromOne(z, a, b))
         /\ Cardinality(PassedFromOne(z, a, b)) = Cardinality(Passed(z, a, b))
         /\ (PassedFromOne(z, a, b) = {}) = (Passed(z, a, b) = {})
         /\ Passed(z, a, b) # {} => LastOf(PassedFromOne(z, a, b)) = LastOf(Passed(z, a, b)) + 1
<1> DEFINE here  == PassedFromOne(z, a, b)
           there == Passed(z, a, b)
           f == [i \in there |-> i + 1]
<1>1. Len(z) \in Nat /\ z \in Seq(Characters) /\ DOMAIN z = 1 .. Len(z) /\ b \in Nat
  BY DEF Text
<1>2. here \subseteq 0 .. b /\ there \subseteq 0 .. b
  BY <1>1 DEF PassedFromOne, Passed, Breaks
<1>3. \A i \in there : i + 1 \in here
  BY <1>1 DEF PassedFromOne, Passed, Breaks, Ch
<1>4. \A i \in here : i - 1 \in there /\ i - 1 + 1 = i
  BY <1>1 DEF PassedFromOne, Passed, Breaks, Ch
<1> HIDE DEF here, there
<1>5. IsFiniteSet(here) /\ IsFiniteSet(there)
  <2>1. IsFiniteSet(0 .. b)
    BY <1>1, FS_Interval
  <2> QED
    BY <1>2, <2>1, FS_Subset
<1>6. f \in Bijection(there, here)
  <2>1. f \in [there -> here]
    BY <1>3
  <2>2. \A i, j \in there : f[i] = f[j] => i = j
    BY <1>2
  <2>3. \A j \in here : f[j - 1] = j /\ j - 1 \in there
    BY <1>4
  <2> HIDE DEF f
  <2>4. \A j \in here : \E i \in there : f[i] = j
    BY <2>3
  <2> QED
    BY <2>1, <2>2, <2>4 DEF Bijection, Injection, Surjection, IsInjective
<1>7. Cardinality(here) = Cardinality(there)
  <2>1. ExistsBijection(there, here)
    BY <1>6 DEF ExistsBijection
  <2> QED
    BY <1>5, <2>1, FS_Bijection
<1>8. (here = {}) = (there = {})
  BY <1>3, <1>4
<1>9. ASSUME there # {}
      PROVE  LastOf(here) = LastOf(there) + 1
  <2>1. here # {}
    BY <1>8, <1>9
  <2>2. \E m \in there : \A k \in there : k <= m
    BY <1>1, <1>2, <1>9, GreatestOf
  <2>3. LastOf(there) \in there /\ \A k \in there : k <= LastOf(there)
    BY <2>2 DEF LastOf
  <2>4. LastOf(there) + 1 \in here
    BY <1>3, <2>3
  <2>5. \A j \in here : j <= LastOf(there) + 1
    <3>1. LastOf(there) \in Int
      <4>1. LastOf(there) \in 0 .. b
        BY <1>2, <2>3
      <4> QED
        BY <1>1, <4>1
    <3>2. ASSUME NEW j \in here
          PROVE  j <= LastOf(there) + 1
      <4>1. j \in Int /\ j - 1 <= LastOf(there)
        BY <1>1, <1>2, <1>4, <2>3
      <4> QED
        BY <3>1, <4>1
    <3> QED
      BY <3>2
  <2> QED
    BY <1>1, <1>2, <2>1, <2>4, <2>5, LastFacts
<1> QED
  BY <1>5, <1>7, <1>8, <1>9 DEF here, there

(* lineColAt, which counts on from a span, finds the line and column of    *)
(* the offset.                                                             *)
LEMMA CountedOn ==
  ASSUME NEW z \in Text, NEW a \in Nat, NEW b \in 0 .. Len(z), a <= b, NEW span,
         span.offset = a, span.line = LineOf(z, a), span.col = ColOf(z, a)
  PROVE  lineColAt(z, b, span) = [line |-> LineOf(z, b), col |-> ColOf(z, b)]
<1> DEFINE here  == PassedFromOne(z, a, b)
           there == Passed(z, a, b)
           from == LineColAt(z, a)
<1>1. Len(z) \in Nat /\ b \in Nat
  BY DEF Text
<1>2. Advance(z, from, b) = LineColAt(z, b)
  BY <1>1, LocatedFacts
<1>3. from = [offset |-> a, line |-> LineOf(z, a), col |-> ColOf(z, a)]
  BY DEF LineOf, ColOf, LineColAt
<1>4. LineOf(z, a) \in Nat /\ ColOf(z, a) \in Int
  <2>1. BreaksTo(z, a) # {} => LastOf(BreaksTo(z, a)) \in 0 .. a
    <3>1. BreaksTo(z, a) # {} => LastOf(BreaksTo(z, a)) \in BreaksTo(z, a)
      BY LineFacts, LastFacts
    <3> QED
      BY <3>1, LineFacts
  <2>2. ColOf(z, a) = IF BreaksTo(z, a) = {} THEN a ELSE a - 1 - LastOf(BreaksTo(z, a))
    BY LineFacts
  <2>3. BreaksTo(z, a) # {} => LastOf(BreaksTo(z, a)) \in Int
    BY <2>1
  <2>4. LineOf(z, a) \in Nat
    BY LineFacts
  <2> QED
    BY <2>2, <2>3, <2>4
<1>5. /\ Cardinality(here) = Cardinality(there) /\ (here = {}) = (there = {})
      /\ there # {} => LastOf(here) = LastOf(there) + 1
  BY BreaksShift
<1>6. lineColAt(z, b, span) =
        [line |-> LineOf(z, a) + Cardinality(here),
         col |-> IF here = {} THEN ColOf(z, a) + (b - a) ELSE b - LastOf(here)]
  <2>1. Greatest(b - a, 0) = b - a
    BY <1>1 DEF Greatest
  <2> QED
    BY <2>1 DEF lineColAt, PassedFromOne, LastOf
<1>7. Advance(z, from, b) =
        IF there = {} THEN [from EXCEPT !.offset = b, !.col = @ + b - a]
        ELSE [offset |-> b, line |-> from.line + Cardinality(there), col |-> b - 1 - LastOf(there)]
  BY <1>3 DEF Advance, Passed, LastOf
<1>8. there # {} => LastOf(there) \in Nat
  <2>1. there \subseteq 0 .. b
    BY <1>1 DEF Passed
  <2> HIDE DEF there
  <2>2. there # {} => LastOf(there) \in there
    BY <1>1, <2>1, LastFacts
  <2>3. there # {} => LastOf(there) \in 0 .. b
    BY <2>1, <2>2
  <2> QED
    BY <1>1, <2>3
<1>9. there = {} => Cardinality(there) = 0
  BY FS_EmptySet
<1> HIDE DEF here, there, from
<1>10. CASE there = {}
  <2>1. Advance(z, from, b) = [offset |-> b, line |-> LineOf(z, a), col |-> ColOf(z, a) + b - a]
    BY <1>3, <1>7, <1>10
  <2>2. LineOf(z, b) = LineOf(z, a) /\ ColOf(z, b) = ColOf(z, a) + b - a
    BY <1>2, <2>1 DEF LineOf, ColOf
  <2>3. LineOf(z, a) + 0 = LineOf(z, a) /\ ColOf(z, a) + (b - a) = ColOf(z, a) + b - a
    BY <1>1, <1>4
  <2> QED
    BY <1>5, <1>6, <1>9, <1>10, <2>2, <2>3
<1>11. CASE there # {}
  <2>1. /\ LineOf(z, b) = LineOf(z, a) + Cardinality(there)
        /\ ColOf(z, b) = b - 1 - LastOf(there)
    BY <1>2, <1>3, <1>7, <1>11 DEF LineOf, ColOf
  <2>2. b - LastOf(here) = b - 1 - LastOf(there)
    BY <1>1, <1>5, <1>8, <1>11
  <2> QED
    BY <1>5, <1>6, <1>11, <2>1, <2>2
<1> QED
  BY <1>10, <1>11

(* Where a line ends: at the offset of its line break, or at the end of    *)
(* the source.                                                             *)
Ends(z, ln, o) == o \in 0 .. Len(z) /\ LineOf(z, o) = ln /\ (Ch(z, o) = "LF" \/ o = Len(z))
(* Where it starts: at the start of the source, or after a line break.     *)
Starts(z, ln, o) == o \in 0 .. Len(z) /\ LineOf(z, o) = ln /\ (o = 0 \/ Ch(z, o - 1) = "LF")

(* Every line of the source ends somewhere, and nowhere else.              *)
LEMMA LineEnds ==
  ASSUME NEW z \in Text, NEW ln \in 1 .. LineOf(z, Len(z))
  PROVE  \E o \in 0 .. Len(z) : Ends(z, ln, o) /\ \A m : Ends(z, ln, m) => m = o
<1> DEFINE n == Len(z)
           upTo == {o \in 0 .. n : LineOf(z, o) <= ln}
<1>1. n \in Nat /\ LineOf(z, n) \in Nat /\ ln \in Nat /\ 1 <= ln /\ ln <= LineOf(z, n)
  <2>1. n \in Nat
    BY DEF Text
  <2>2. LineOf(z, n) \in Nat
    BY <2>1, LineFacts
  <2> HIDE DEF n
  <2> QED
    BY <2>1, <2>2 DEF n
<1>2. \A o \in Nat : LineOf(z, o) \in Nat
  BY LineFacts
<1>3. LineOf(z, 0) = 1
  BY FirstLine
<1>4. \E last \in upTo : \A k \in upTo : k <= last
  <2>1. 0 \in upTo /\ upTo \subseteq 0 .. n
    BY <1>1, <1>3
  <2> HIDE DEF upTo
  <2> QED
    BY <1>1, <2>1, GreatestOf
<1>5. PICK o \in upTo : \A k \in upTo : k <= o
  BY <1>4
<1>6. o \in 0 .. n /\ o \in Nat /\ LineOf(z, o) <= ln
  BY <1>1, <1>5
<1>7. Ends(z, ln, o)
  <2>1. CASE o = n
    BY <1>1, <1>6, <2>1 DEF Ends
  <2>2. CASE o < n
    <3>1. o + 1 \in 0 .. n /\ o + 1 > o
      BY <1>1, <1>6, <2>2
    <3>2. LineOf(z, o + 1) > ln
      BY <1>1, <1>2, <1>5, <1>6, <3>1
    <3>3. LineOf(z, o + 1) = IF Ch(z, o) = "LF" THEN LineOf(z, o) + 1 ELSE LineOf(z, o)
      BY <1>6, LineSteps
    <3>4. LineOf(z, o) \in Nat
      BY <1>2, <1>6
    <3> HIDE DEF upTo, n
    <3>5. Ch(z, o) = "LF" /\ LineOf(z, o) = ln
      BY <1>1, <1>6, <3>2, <3>3, <3>4
    <3> QED
      BY <1>6, <3>5 DEF Ends, n
  <2> QED
    BY <1>1, <1>6, <2>1, <2>2
<1>8. ASSUME NEW a, NEW b, Ends(z, ln, a), Ends(z, ln, b), a < b
      PROVE  FALSE
  <2>1. a \in Nat /\ b \in Nat /\ a \in a .. b - 1 /\ a # n /\ LineOf(z, a) = LineOf(z, b)
    BY <1>1, <1>8 DEF Ends
  <2>2. Ch(z, a) = "LF"
    BY <1>8, <2>1 DEF Ends
  <2>3. LineOf(z, a) < LineOf(z, b)
    BY <1>8, <2>1, <2>2, LinesGrow
  <2> QED
    BY <1>2, <2>1, <2>3
<1>9. ASSUME NEW m, Ends(z, ln, m)
      PROVE  m = o
  <2>1. m \in Nat
    BY <1>1, <1>9 DEF Ends
  <2>2. ~(m < o) /\ ~(o < m)
    BY <1>7, <1>8, <1>9
  <2> QED
    BY <1>6, <2>1, <2>2
<1> QED
  BY <1>6, <1>7, <1>9

(* A line ends where its line break is.                                    *)
EndOfLine(z, ln) == CHOOSE o \in 0 .. Len(z) : Ends(z, ln, o)
(* It starts after the end of the one before it.                           *)
StartOfLine(z, ln) == IF ln = 1 THEN 0 ELSE EndOfLine(z, ln - 1) + 1

(* The offsets of a line are those from its start to its end, and no other *)
(* offset is; none of them but the last is a line break.                   *)
LEMMA LineSpan ==
  ASSUME NEW z \in Text, NEW ln \in 1 .. LineOf(z, Len(z))
  PROVE  LET first == StartOfLine(z, ln)
             last  == EndOfLine(z, ln)
         IN  /\ Ends(z, ln, last) /\ first \in 0 .. last
             /\ \A o \in 0 .. Len(z) : LineOf(z, o) = ln <=> o \in first .. last
             /\ \A o \in first .. last - 1 : Ch(z, o) # "LF"
             /\ \A o \in first .. last : ColOf(z, o) = o - first
<1> DEFINE n == Len(z)
           first == StartOfLine(z, ln)
           last == EndOfLine(z, ln)
<1>1. n \in Nat /\ LineOf(z, n) \in Nat /\ ln \in Nat /\ 1 <= ln /\ ln <= LineOf(z, n)
  <2>1. n \in Nat
    BY DEF Text
  <2>2. LineOf(z, n) \in Nat
    BY <2>1, LineFacts
  <2> HIDE DEF n
  <2> QED
    BY <2>1, <2>2 DEF n
<1>2. \A o \in Nat : LineOf(z, o) \in Nat
  BY LineFacts
<1>3. Ends(z, ln, last)
  BY LineEnds DEF EndOfLine
<1>4. last \in 0 .. n /\ last \in Nat /\ LineOf(z, last) = ln /\ (Ch(z, last) = "LF" \/ last = n)
  BY <1>1, <1>3 DEF Ends
<1>5. first \in Nat /\ Starts(z, ln, first)
  <2>1. CASE ln = 1
    <3>1. LineOf(z, 0) = 1
      BY FirstLine
    <3> QED
      BY <1>1, <2>1, <3>1 DEF StartOfLine, Starts
  <2>2. CASE ln # 1
    <3> DEFINE before == EndOfLine(z, ln - 1)
    <3>1. ln - 1 \in 1 .. LineOf(z, n) /\ ln - 1 # LineOf(z, n)
      BY <1>1, <2>2
    <3>2. Ends(z, ln - 1, before)
      BY <3>1, LineEnds DEF EndOfLine
    <3> HIDE DEF before
    <3>3. before \in 0 .. n /\ LineOf(z, before) = ln - 1 /\ (Ch(z, before) = "LF" \/ before = n)
      BY <3>2 DEF Ends
    <3>4. before # n
      BY <3>1, <3>3
    <3>5. before \in Nat /\ before + 1 \in 0 .. n /\ before + 1 - 1 = before
      BY <1>1, <3>3, <3>4
    <3>6. LineOf(z, before + 1) = LineOf(z, before) + 1
      BY <3>3, <3>4, <3>5, LineSteps
    <3>7. LineOf(z, before + 1) = ln
      BY <1>1, <3>3, <3>6
    <3>8. first = before + 1
      BY <2>2 DEF StartOfLine, before
    <3> HIDE DEF first
    <3> QED
      BY <3>3, <3>4, <3>5, <3>7, <3>8 DEF Starts
  <2> QED
    BY <2>1, <2>2
<1> HIDE DEF first, last
<1>6. first \in 0 .. n /\ LineOf(z, first) = ln /\ (first = 0 \/ Ch(z, first - 1) = "LF")
  BY <1>5 DEF Starts
<1>7. ASSUME NEW o \in 0 .. n, LineOf(z, o) = ln
      PROVE  o \in first .. last
  <2>1. o \in Nat
    BY <1>1
  <2>2. ~(o < first)
    <3> SUFFICES ASSUME o < first
                 PROVE  FALSE
      OBVIOUS
    <3>1. first - 1 \in o .. first - 1 /\ first # 0
      BY <1>5, <2>1
    <3>2. LineOf(z, o) < LineOf(z, first)
      BY <1>5, <1>6, <2>1, <3>1, LinesGrow
    <3> QED
      BY <1>1, <1>6, <1>7, <3>2
  <2>3. ~(last < o)
    <3> SUFFICES ASSUME last < o
                 PROVE  FALSE
      OBVIOUS
    <3>1. last \in last .. o - 1 /\ last # n
      BY <1>1, <1>4, <2>1
    <3>2. LineOf(z, last) < LineOf(z, o)
      BY <1>4, <2>1, <3>1, LinesGrow
    <3> QED
      BY <1>1, <1>4, <1>7, <3>2
  <2> QED
    BY <1>4, <1>5, <2>1, <2>2, <2>3
<1>8. first \in 0 .. last /\ last \in first .. last
  <2>1. first \in first .. last
    BY <1>6, <1>7
  <2> QED
    BY <1>4, <1>5, <2>1
<1>9. ASSUME NEW o \in first .. last
      PROVE  LineOf(z, o) = ln
  <2>1. o \in Nat /\ first <= o /\ o <= last
    BY <1>4, <1>5
  <2>2. LineOf(z, first) <= LineOf(z, o) /\ LineOf(z, o) <= LineOf(z, last)
    BY <1>4, <1>5, <2>1, LinesGrow
  <2>3. LineOf(z, o) \in Nat
    BY <1>2, <2>1
  <2> QED
    BY <1>1, <1>4, <1>6, <2>2, <2>3
<1>10. ASSUME NEW o \in first .. last - 1
       PROVE  Ch(z, o) # "LF"
  <2>1. o \in first .. last /\ o \in Nat /\ first <= o
    BY <1>4, <1>5
  <2>2. o \in o .. last - 1 /\ o <= last
    BY <1>4, <2>1
  <2>3. Ch(z, o) = "LF" => LineOf(z, o) < LineOf(z, last)
    BY <1>4, <2>1, <2>2, LinesGrow
  <2> QED
    BY <1>1, <1>4, <1>9, <2>1, <2>3
<1>11. ASSUME NEW o \in first .. last
       PROVE  ColOf(z, o) = o - first
  <2> DEFINE B == BreaksTo(z, o)
  <2>1. o \in Nat /\ first <= o /\ o <= last
    BY <1>4, <1>5
  <2>2. B \subseteq 0 .. first - 1
    <3>1. \A i \in first .. o - 1 : Ch(z, i) # "LF"
      BY <1>4, <1>5, <1>10, <2>1
    <3> QED
      BY <1>5, <2>1, <3>1 DEF BreaksTo
  <2>3. ColOf(z, o) = IF B = {} THEN o ELSE o - 1 - LastOf(B)
    BY <2>1, LineFacts
  <2>4. first # 0 => first - 1 \in B
    BY <1>5, <1>6, <2>1 DEF BreaksTo
  <2> HIDE DEF B
  <2>5. CASE first = 0
    <3>1. B = {}
      BY <2>2, <2>5
    <3> QED
      BY <2>1, <2>3, <2>5, <3>1
  <2>6. CASE first # 0
    <3>1. first - 1 \in Nat /\ \A j \in B : j <= first - 1
      BY <1>5, <2>2, <2>6
    <3>2. first - 1 = LastOf(B)
      <4>1. B \subseteq 0 .. first - 1 /\ B # {} /\ first - 1 \in B
        BY <2>2, <2>4, <2>6
      <4> QED
        BY <3>1, <4>1, LastFacts
    <3>3. B # {}
      BY <2>4, <2>6
    <3> QED
      BY <1>5, <2>1, <2>3, <3>2, <3>3
  <2> QED
    BY <2>5, <2>6
<1> QED
  BY <1>3, <1>7, <1>8, <1>9, <1>10, <1>11 DEF first, last

(* The last line is the one of the end of the source, and there are as     *)
(* many lines as line breaks, and one.                                     *)
LEMMA LineCount ==
  ASSUME NEW z \in Text
  PROVE  LineOf(z, Len(z)) = Cardinality(Breaks(z)) + 1 /\ IsFiniteSet(Breaks(z))
<1> DEFINE n == Len(z)
           here  == PassedFromOne(z, 0, n)
           there == Passed(z, 0, n)
<1>1. n \in Nat /\ n \in 0 .. n /\ 0 <= n /\ DOMAIN z = 1 .. n
  BY DEF Text
<1>2. here = Breaks(z)
  BY <1>1 DEF PassedFromOne, Breaks
<1>3. there = BreaksTo(z, n)
  BY DEF Passed, BreaksTo
<1>4. IsFiniteSet(here) /\ Cardinality(here) = Cardinality(there)
  BY <1>1, BreaksShift
<1> HIDE DEF here, there
<1>5. /\ LineOf(z, n) = 1 + Cardinality(BreaksTo(z, n))
      /\ Cardinality(BreaksTo(z, n)) \in Nat
  BY <1>1, LineFacts
<1>6. LineOf(z, n) = Cardinality(BreaksTo(z, n)) + 1
  <2> HIDE DEF n
  <2> QED
    BY <1>5
<1> QED
  BY <1>2, <1>3, <1>4, <1>6

(* The ends of the lines that split finds, numbered from one, with the one *)
(* before the source; and those before a position.                         *)
SplitEnds(z) == Breaks(z) \cup {0, Len(z) + 1}
Below(z, i) == Cardinality({j \in SplitEnds(z) : j < i})
NthEnd(z, n) == CHOOSE i \in SplitEnds(z) : Below(z, i) = n

(* There are as many ends before a position as its line says.              *)
LEMMA BelowFacts ==
  ASSUME NEW z \in Text, NEW i \in SplitEnds(z)
  PROVE  /\ i \in 0 .. Len(z) + 1
         /\ Below(z, i) = IF i = 0 THEN 0 ELSE LineOf(z, i - 1)
<1> DEFINE n == Len(z)
           below == {j \in SplitEnds(z) : j < i}
           here  == PassedFromOne(z, 0, i - 1)
           there == Passed(z, 0, i - 1)
<1>1. n \in Nat /\ Breaks(z) \subseteq 1 .. n
  BY DEF Text, Breaks
<1>2. i \in 0 .. n + 1
  BY <1>1 DEF SplitEnds
<1>3. CASE i = 0
  <2>1. below = {}
    BY <1>1, <1>3 DEF SplitEnds
  <2> HIDE DEF below
  <2>2. Cardinality(below) = 0
    BY <2>1, FS_EmptySet
  <2> QED
    BY <1>2, <1>3, <2>2 DEF Below, below
<1>4. CASE i # 0
  <2>1. i - 1 \in Nat /\ i - 1 \in 0 .. n /\ 0 <= i - 1
    BY <1>1, <1>2, <1>4
  <2>2. below = here \cup {0}
    BY <1>1, <1>2, <1>4 DEF SplitEnds, PassedFromOne
  <2>3. IsFiniteSet(here) /\ Cardinality(here) = Cardinality(there)
    BY <2>1, BreaksShift
  <2>4. there = BreaksTo(z, i - 1)
    BY DEF Passed, BreaksTo
  <2>5. 0 \notin here
    BY DEF PassedFromOne
  <2> HIDE DEF below, here, there
  <2>6. Cardinality(below) = Cardinality(here) + 1
    BY <2>2, <2>3, <2>5, FS_AddElement
  <2>7. LineOf(z, i - 1) = 1 + Cardinality(there) /\ Cardinality(there) \in Nat
    BY <2>1, <2>4, LineFacts
  <2>8. Cardinality(below) = LineOf(z, i - 1)
    BY <2>3, <2>6, <2>7
  <2> QED
    BY <1>2, <1>4, <2>8 DEF Below, below
<1> QED
  BY <1>3, <1>4

(* They are the ends of the lines.                                         *)
LEMMA NthEndFacts ==
  ASSUME NEW z \in Text
  PROVE  /\ NthEnd(z, 0) = 0
         /\ \A ln \in 1 .. LineOf(z, Len(z)) : NthEnd(z, ln) = EndOfLine(z, ln) + 1
<1> DEFINE n == Len(z)
<1>1. n \in Nat
  BY DEF Text
<1>2. 0 \in SplitEnds(z) /\ Below(z, 0) = 0
  <2>1. 0 \in SplitEnds(z)
    BY DEF SplitEnds
  <2> QED
    BY <2>1, BelowFacts
<1>3. ASSUME NEW i \in SplitEnds(z), i # 0
      PROVE  /\ i - 1 \in 0 .. n /\ Below(z, i) = LineOf(z, i - 1) /\ Below(z, i) \in Nat \ {0}
             /\ i - 1 = n \/ Ch(z, i - 1) = "LF"
  <2>1. i \in 0 .. n + 1 /\ Below(z, i) = LineOf(z, i - 1)
    BY <1>3, BelowFacts
  <2>2. i - 1 \in 0 .. n /\ i - 1 \in Nat
    BY <1>1, <1>3, <2>1
  <2>3. LineOf(z, i - 1) \in Nat \ {0}
    BY <2>2, LineFacts
  <2>4. i - 1 = n \/ Ch(z, i - 1) = "LF"
    <3>1. i = n + 1 \/ i \in Breaks(z)
      BY <1>3 DEF SplitEnds
    <3>2. CASE i = n + 1
      BY <1>1, <3>2
    <3>3. CASE i \in Breaks(z)
      <4>1. i \in 1 .. n /\ z[i] = "LF"
        BY <1>1, <3>3 DEF Breaks, Text
      <4> QED
        BY <1>1, <4>1 DEF Ch
    <3> QED
      BY <3>1, <3>2, <3>3
  <2> QED
    BY <2>1, <2>2, <2>3, <2>4
<1>4. NthEnd(z, 0) = 0
  <2>1. \A i \in SplitEnds(z) : Below(z, i) = 0 => i = 0
    BY <1>3
  <2> QED
    BY <1>2, <2>1 DEF NthEnd
<1>5. ASSUME NEW ln \in 1 .. LineOf(z, n)
      PROVE  NthEnd(z, ln) = EndOfLine(z, ln) + 1
  <2> DEFINE end == EndOfLine(z, ln)
  <2>1. Ends(z, ln, end) /\ \A m : Ends(z, ln, m) => m = end
    <3>1. \E o \in 0 .. n : Ends(z, ln, o) /\ \A m : Ends(z, ln, m) => m = o
      BY LineEnds
    <3> QED
      BY <3>1 DEF EndOfLine
  <2> HIDE DEF end
  <2>2. end \in 0 .. n /\ LineOf(z, end) = ln /\ (Ch(z, end) = "LF" \/ end = n)
    BY <2>1 DEF Ends
  <2>3. end + 1 - 1 = end /\ end + 1 # 0 /\ end \in Nat
    BY <1>1, <2>2
  <2>4. end + 1 \in SplitEnds(z)
    <3>1. CASE end = n
      BY <3>1 DEF SplitEnds
    <3>2. CASE Ch(z, end) = "LF" /\ end < n
      BY <1>1, <2>2, <3>2 DEF SplitEnds, Breaks, Ch, Text
    <3> QED
      BY <1>1, <2>2, <3>1, <3>2
  <2>5. Below(z, end + 1) = ln
    BY <1>3, <2>2, <2>3, <2>4
  <2>6. ASSUME NEW i \in SplitEnds(z), Below(z, i) = ln
        PROVE  i = end + 1
    <3>1. ln # 0
      <4>1. ln \in Nat /\ ln >= 1
        <5>1. LineOf(z, n) \in Nat
          BY <1>1, LineFacts
        <5> QED
          BY <5>1
      <4> QED
        BY <4>1
    <3>2. i # 0
      BY <1>2, <2>6, <3>1
    <3>3. Ends(z, ln, i - 1)
      BY <1>3, <2>6, <3>2 DEF Ends
    <3>4. i - 1 = end /\ i \in Int
      <4>1. i \in 0 .. n + 1
        BY BelowFacts
      <4> QED
        BY <1>1, <2>1, <3>3, <4>1
    <3> QED
      BY <2>3, <3>4
  <2> QED
    BY <2>4, <2>5, <2>6 DEF NthEnd, end
<1> QED
  BY <1>4, <1>5

(* LengthOfLine measures a line from its start to its end.                 *)
LEMMA LineLength ==
  ASSUME NEW z \in Text, NEW ln \in 1 .. LineOf(z, Len(z))
  PROVE  LengthOfLine(z, ln) = EndOfLine(z, ln) - StartOfLine(z, ln)
<1>1. LengthOfLine(z, ln) = NthEnd(z, ln) - NthEnd(z, ln - 1) - 1
  BY DEF LengthOfLine, NthEnd, Below, SplitEnds
<1>2. LineOf(z, Len(z)) \in Nat
  <2>1. Len(z) \in Nat
    BY DEF Text
  <2> QED
    BY <2>1, LineFacts
<1>3. NthEnd(z, ln) = EndOfLine(z, ln) + 1
  BY NthEndFacts
<1>4. NthEnd(z, ln - 1) = StartOfLine(z, ln)
  <2>1. CASE ln = 1
    BY <2>1, NthEndFacts DEF StartOfLine
  <2>2. CASE ln # 1
    <3>1. ln - 1 \in 1 .. LineOf(z, Len(z))
      BY <1>2, <2>2
    <3> QED
      BY <2>2, <3>1, NthEndFacts DEF StartOfLine
  <2> QED
    BY <2>1, <2>2
<1>5. StartOfLine(z, ln) \in Int /\ EndOfLine(z, ln) \in Int
  <2>1. Ends(z, ln, EndOfLine(z, ln)) /\ StartOfLine(z, ln) \in 0 .. EndOfLine(z, ln)
    BY LineSpan
  <2>2. EndOfLine(z, ln) \in 0 .. Len(z) /\ Len(z) \in Nat
    BY <2>1 DEF Ends, Text
  <2> QED
    BY <2>1, <2>2
<1> QED
  BY <1>1, <1>3, <1>4, <1>5

(* What CaretsUnderToken says of a token that starts and ends where span   *)
(* says.                                                                   *)
CaretsUnder(z, span, context) ==
  LET end   == span.offset + span.length
      block == renderCodeBlock(z, span, context, context)
      at(offset) == LineColAt(z, offset)
      under(ln) == {at(o).col : o \in {o \in span.offset .. end - 1 :
                                        at(o).line = ln /\ Ch(z, o) # "LF"}}
      last == Cardinality(Breaks(z)) + 1
  IN  /\ DOMAIN block = (span.line - context .. at(end).line + context) \cap 1 .. last
      /\ \A ln \in DOMAIN block :
           IF ln \notin span.line .. at(end).line THEN block[ln] = {}
           ELSE IF under(ln) # {} THEN block[ln] = under(ln)
           ELSE Cardinality(block[ln]) = 1

(* The columns of a line that a token from s up to e has characters other  *)
(* than a line break in, and those that renderCodeBlock puts carets in.    *)
Under(z, s, e, ln) ==
  {ColOf(z, o) : o \in {o \in s .. e - 1 : LineOf(z, o) = ln /\ Ch(z, o) # "LF"}}
Carets(z, s, e, ln) ==
  LET startCol == IF ln = LineOf(z, s) THEN ColOf(z, s) ELSE 0
      endCol   == IF ln = LineOf(z, e) THEN ColOf(z, e) ELSE LengthOfLine(z, ln)
  IN  startCol .. startCol + Greatest(1, endCol - startCol) - 1

(* They are the same, or there is one caret where there are none.          *)
LEMMA CaretFacts ==
  ASSUME NEW z \in Text, NEW s \in 0 .. Len(z), NEW e \in s .. Len(z),
         NEW ln \in LineOf(z, s) .. LineOf(z, e)
  PROVE  IF Under(z, s, e, ln) # {} THEN Carets(z, s, e, ln) = Under(z, s, e, ln)
         ELSE Cardinality(Carets(z, s, e, ln)) = 1
<1> DEFINE n == Len(z)
           first == StartOfLine(z, ln)
           last == EndOfLine(z, ln)
           lo == IF ln = LineOf(z, s) THEN s ELSE first
           hi == IF ln = LineOf(z, e) THEN e ELSE last
<1>1. n \in Nat /\ s \in Nat /\ e \in Nat /\ s <= e /\ e <= n /\ e \in 0 .. n
  <2>1. n \in Nat
    BY DEF Text
  <2> HIDE DEF n
  <2> QED
    BY <2>1 DEF n
<1>2. \A o \in Nat : LineOf(z, o) \in Nat \ {0}
  BY LineFacts
<1>3. /\ LineOf(z, s) \in Nat \ {0} /\ LineOf(z, e) \in Nat /\ LineOf(z, n) \in Nat
      /\ LineOf(z, e) <= LineOf(z, n)
  BY <1>1, <1>2, LinesGrow
<1>4. ln \in 1 .. LineOf(z, n) /\ ln \in Nat /\ LineOf(z, s) <= ln /\ ln <= LineOf(z, e)
  BY <1>3
<1>5. /\ Ends(z, ln, last) /\ first \in 0 .. last
      /\ \A o \in 0 .. n : LineOf(z, o) = ln <=> o \in first .. last
      /\ \A o \in first .. last - 1 : Ch(z, o) # "LF"
      /\ \A o \in first .. last : ColOf(z, o) = o - first
  BY <1>4, LineSpan
<1>6. LengthOfLine(z, ln) = last - first
  BY <1>4, LineLength
<1> HIDE DEF n, first, last
<1>7. /\ first \in Nat /\ last \in Nat /\ first <= last /\ last <= n
      /\ Ch(z, last) = "LF" \/ last = n
  BY <1>1, <1>5 DEF Ends, n
<1>8. IF ln = LineOf(z, s) THEN first <= s /\ s <= last /\ ColOf(z, s) = s - first
      ELSE s < first
  <2>1. CASE ln = LineOf(z, s)
    <3>1. s \in first .. last
      BY <1>5, <2>1 DEF n
    <3> QED
      BY <1>1, <1>5, <1>7, <2>1, <3>1
  <2>2. CASE ln # LineOf(z, s)
    <3>1. first \in 0 .. n /\ first \in first .. last
      BY <1>1, <1>7
    <3>2. LineOf(z, first) = ln
      BY <1>5, <3>1
    <3>3. first <= s => LineOf(z, first) <= LineOf(z, s)
      BY <1>1, <1>7, LinesGrow
    <3>4. ~(first <= s)
      BY <1>3, <1>4, <2>2, <3>2, <3>3
    <3> QED
      BY <1>1, <1>7, <2>2, <3>4
  <2> QED
    BY <2>1, <2>2
<1>9. IF ln = LineOf(z, e) THEN first <= e /\ e <= last /\ ColOf(z, e) = e - first
      ELSE last < e
  <2>1. CASE ln = LineOf(z, e)
    <3>1. e \in first .. last
      BY <1>1, <1>5, <2>1
    <3> QED
      BY <1>1, <1>5, <1>7, <2>1, <3>1
  <2>2. CASE ln # LineOf(z, e)
    <3>1. last \in 0 .. n /\ last \in first .. last
      BY <1>1, <1>7
    <3>2. LineOf(z, last) = ln
      BY <1>5, <3>1
    <3>3. e <= last => LineOf(z, e) <= LineOf(z, last)
      BY <1>1, <1>7, LinesGrow
    <3>4. ~(e <= last)
      BY <1>3, <1>4, <2>2, <3>2, <3>3
    <3> QED
      BY <1>1, <1>7, <2>2, <3>4
  <2> QED
    BY <2>1, <2>2
<1>10. /\ lo \in Nat /\ hi \in Nat /\ first <= lo /\ s <= lo /\ hi <= last /\ hi <= e
       /\ lo = s \/ lo = first
       /\ hi = e \/ hi = last
  BY <1>1, <1>7, <1>8, <1>9
<1>11. Carets(z, s, e, ln) = lo - first .. lo - first + Greatest(1, hi - lo) - 1
  <2>1. (IF ln = LineOf(z, s) THEN ColOf(z, s) ELSE 0) = lo - first
    BY <1>7, <1>8
  <2>2. (IF ln = LineOf(z, e) THEN ColOf(z, e) ELSE LengthOfLine(z, ln)) = hi - first
    BY <1>6, <1>9
  <2>3. hi - first - (lo - first) = hi - lo
    BY <1>7, <1>10
  <2> HIDE DEF lo, hi
  <2> QED
    BY <2>1, <2>2, <2>3 DEF Carets
<1> HIDE DEF lo, hi
<1>12. {o \in s .. e - 1 : LineOf(z, o) = ln /\ Ch(z, o) # "LF"} = lo .. hi - 1
  <2>1. ASSUME NEW o \in s .. e - 1, LineOf(z, o) = ln, Ch(z, o) # "LF"
        PROVE  o \in lo .. hi - 1
    <3>1. o \in Nat /\ s <= o /\ o < e /\ o \in 0 .. n /\ o # n
      BY <1>1
    <3>2. first <= o /\ o <= last
      BY <1>5, <1>7, <2>1, <3>1
    <3>3. o # last
      BY <1>7, <2>1, <3>1
    <3> QED
      BY <1>1, <1>7, <1>10, <3>1, <3>2, <3>3
  <2>2. ASSUME NEW o \in lo .. hi - 1
        PROVE  o \in s .. e - 1 /\ LineOf(z, o) = ln /\ Ch(z, o) # "LF"
    <3>1. /\ o \in s .. e - 1 /\ o \in first .. last - 1
          /\ o \in first .. last /\ o \in 0 .. n
      BY <1>1, <1>7, <1>10
    <3> QED
      BY <1>5, <3>1
  <2> QED
    BY <2>1, <2>2
<1>13. Under(z, s, e, ln) = {ColOf(z, o) : o \in lo .. hi - 1}
  BY <1>12 DEF Under
<1>14. CASE lo < hi
  <2>1. \A o \in lo .. hi - 1 : ColOf(z, o) = o - first
    <3>1. lo .. hi - 1 \subseteq first .. last
      BY <1>7, <1>10
    <3> QED
      BY <1>5, <3>1
  <2>2. Under(z, s, e, ln) = {o - first : o \in lo .. hi - 1}
    BY <1>13, <2>1
  <2>3. {o - first : o \in lo .. hi - 1} = lo - first .. hi - 1 - first
    <3>1. \A o \in lo .. hi - 1 : o - first \in lo - first .. hi - 1 - first
      BY <1>7, <1>10
    <3>2. ASSUME NEW c \in lo - first .. hi - 1 - first
          PROVE  c \in {o - first : o \in lo .. hi - 1}
      <4>1. \A d : d = c + first => d \in lo .. hi - 1 /\ c = d - first
        BY <1>7, <1>10
      <4> QED
        BY <4>1
    <3>3. ASSUME NEW c \in {o - first : o \in lo .. hi - 1}
          PROVE  c \in lo - first .. hi - 1 - first
      BY <3>1
    <3> QED
      BY <3>2, <3>3
  <2>4. lo - first + Greatest(1, hi - lo) - 1 = hi - 1 - first
    <3>1. Greatest(1, hi - lo) = hi - lo
      BY <1>10, <1>14 DEF Greatest
    <3> QED
      BY <1>7, <1>10, <3>1
  <2>5. Under(z, s, e, ln) # {}
    <3>1. lo \in lo .. hi - 1
      BY <1>10, <1>14
    <3> QED
      BY <1>13, <3>1
  <2> QED
    BY <1>11, <2>2, <2>3, <2>4, <2>5
<1>15. CASE ~(lo < hi)
  <2>1. lo .. hi - 1 = {}
    BY <1>10, <1>15
  <2>2. Under(z, s, e, ln) = {}
    BY <1>13, <2>1
  <2>3. Greatest(1, hi - lo) = 1
    BY <1>10, <1>15 DEF Greatest
  <2>4. lo - first + 1 - 1 = lo - first /\ lo - first \in Int
    BY <1>7, <1>10
  <2>5. Carets(z, s, e, ln) = lo - first .. lo - first
    BY <1>11, <2>3, <2>4
  <2>6. lo - first .. lo - first = {lo - first}
    BY <2>4
  <2> QED
    BY <2>2, <2>5, <2>6, FS_Singleton
<1> QED
  BY <1>14, <1>15

(* The block that cites a token is as CaretsUnderToken has it.             *)
LEMMA BlockFacts ==
  ASSUME NEW z \in Text, NEW s \in 0 .. Len(z), NEW e \in s .. Len(z), NEW span,
         span.offset = s, span.offset + span.length = e,
         span.line = LineOf(z, s), span.col = ColOf(z, s), NEW context \in {0, 1}
  PROVE  CaretsUnder(z, span, context)
<1> DEFINE n == Len(z)
           block == renderCodeBlock(z, span, context, context)
           from == Greatest(1, LineOf(z, s) - context)
           to == Least(Cardinality(Breaks(z)) + 1, LineOf(z, e) + context)
<1>1. n \in Nat /\ s \in Nat /\ e \in Nat /\ s <= e /\ e <= n /\ 0 <= s /\ s <= n
  <2>1. n \in Nat
    BY DEF Text
  <2> HIDE DEF n
  <2> QED
    BY <2>1 DEF n
<1>2. LineOf(z, s) \in Nat \ {0} /\ LineOf(z, e) \in Nat \ {0}
  BY <1>1, LineFacts
<1>3. Cardinality(Breaks(z)) \in Nat
  BY LineCount, FS_CardinalityType
<1>4. Greatest(0, Least(span.offset, Len(z))) = s
  BY <1>1 DEF Greatest, Least
<1>5. Greatest(s, Least(span.offset + span.length, Len(z))) = e
  BY <1>1 DEF Greatest, Least
<1>6. lineColAt(z, e, span) = [line |-> LineOf(z, e), col |-> ColOf(z, e)]
  <2>1. e \in 0 .. Len(z)
    BY <1>1
  <2> QED
    BY <1>1, <2>1, CountedOn
<1>7. block = [ln \in from .. to |->
                 IF ln \in LineOf(z, s) .. LineOf(z, e) THEN Carets(z, s, e, ln) ELSE {}]
  BY <1>4, <1>5, <1>6 DEF renderCodeBlock, Carets
<1>8. from .. to = (LineOf(z, s) - context .. LineOf(z, e) + context) \cap 1 .. Cardinality(Breaks(z)) + 1
  <2>1. context \in Nat
    OBVIOUS
  <2> QED
    BY <1>2, <1>3, <2>1 DEF Greatest, Least
<1> HIDE DEF block, from, to
<1>9. DOMAIN block = from .. to
  BY <1>7
<1>10. ASSUME NEW ln \in DOMAIN block
       PROVE  IF ln \notin LineOf(z, s) .. LineOf(z, e) THEN block[ln] = {}
              ELSE IF Under(z, s, e, ln) # {} THEN block[ln] = Under(z, s, e, ln)
              ELSE Cardinality(block[ln]) = 1
  <2>1. block[ln] = IF ln \in LineOf(z, s) .. LineOf(z, e) THEN Carets(z, s, e, ln) ELSE {}
    BY <1>7, <1>9
  <2>2. CASE ln \in LineOf(z, s) .. LineOf(z, e)
    <3>1. IF Under(z, s, e, ln) # {} THEN Carets(z, s, e, ln) = Under(z, s, e, ln)
          ELSE Cardinality(Carets(z, s, e, ln)) = 1
      BY <2>2, CaretFacts
    <3> QED
      BY <2>1, <2>2, <3>1
  <2>3. CASE ln \notin LineOf(z, s) .. LineOf(z, e)
    BY <2>1, <2>3
  <2> QED
    BY <2>2, <2>3
<1> QED
  BY <1>8, <1>9, <1>10 DEF CaretsUnder, Under, LineOf, ColOf, block

(* CaretsUnderToken for every source and every token of it, on however     *)
(* many lines it is: renderCodeBlock, which counts lines on from a span,   *)
(* agrees with the lines that split finds.                                 *)
THEOREM CaretsAlwaysUnderToken == StreamSpec => []CaretsUnderToken
<1>1. StreamInv /\ AllFromSource /\ CursorLocated => CaretsUnderToken
  <2> SUFFICES ASSUME StreamInv, AllFromSource, CursorLocated,
                      NEW i \in DOMAIN emitted, NEW context \in {0, 1}
               PROVE  CaretsUnder(input.source, emitted[i].span, context)
    BY DEF CaretsUnderToken, CaretsUnder
  <2> DEFINE z == input.source
             span == emitted[i].span
             s == span.offset
             e == span.offset + span.length
  <2>1. z \in Text /\ Len(z) \in Nat
    BY InputFacts, RequestText DEF StreamInv, StreamOK
  <2>2. s \in 0 .. Len(z) - 1 /\ e \in s + 1 .. Len(z)
    BY DEF AllFromSource, FromSource
  <2>3. [offset |-> s, line |-> span.line, col |-> span.col] = LineColAt(z, s)
    BY DEF CursorLocated
  <2> HIDE DEF z, span
  <2>4. span.line = LineOf(z, s) /\ span.col = ColOf(z, s)
    BY <2>3 DEF LineOf, ColOf
  <2>5. s \in 0 .. Len(z) /\ e \in s .. Len(z)
    BY <2>1, <2>2
  <2>6. CaretsUnder(z, span, context)
    BY <2>1, <2>4, <2>5, BlockFacts
  <2> QED
    BY <2>6 DEF z, span
<1> QED
  BY <1>1, TokensFromSource, CursorAlwaysLocated, PTL
=============================================================================
