------------------------- MODULE LemparYieldProofs -------------------------
(***************************************************************************)
(* The tokens on the stack, for every table, caller and sequence of        *)
(* tokens.  All is said of the tokens below the first k entries, for every *)
(* k (Below): where they end, and that the entries after them start later. *)
(* In this form a reduce has nothing to show for the entries it keeps, and *)
(* for its own entry what was known of the ones it replaces.               *)
(***************************************************************************)
EXTENDS LemparYield, LemparProofs, RecursionLemmas

(* The tokens of the first k entries, the sentinel being the first. *)
Below(stack, k) == Tokens([i \in 1 .. k - 1 |-> stack[i + 1]])

(* Where the last of some tokens ends, and the source if there is none. *)
EndOf(tokens) == IF tokens = <<>> THEN 0 ELSE End(TopOf(tokens))

Typed(stack) == /\ stack \in Seq(Entry) /\ Len(stack) >= 1
                /\ \A i \in 2 .. Len(stack) : stack[i].minor \in Seq(Span)

InOrder(tokens) == \A i, j \in 1 .. Len(tokens) : i < j => End(tokens[i]) <= tokens[j].offset

(* Entry k does not start after the tokens above the first k - 1 entries.  *)
StartsBefore(stack, k, tokens) ==
  \A n \in Len(Below(stack, k - 1)) + 1 .. Len(tokens) : stack[k].span.offset <= tokens[n].offset

Collected(stack) ==
  LET tokens == Below(stack, Len(stack))
  IN  /\ Typed(stack)
      /\ InOrder(tokens)
      /\ \A k \in 1 .. Len(stack) : End(stack[k].span) = EndOf(Below(stack, k))
      /\ \A k \in 2 .. Len(stack) : StartsBefore(stack, k, tokens)

YieldInv ==
  /\ Collected(yystack)
  /\ Len(Below(yystack, Len(yystack))) = inputIndex
  /\ la # None => la.minor = <<la.span>>
-----------------------------------------------------------------------------
(* Tokens of entries *)

LEMMA TokensType ==
  ASSUME NEW entries, NEW n \in Nat, DOMAIN entries = 1 .. n,
         \A i \in 1 .. n : entries[i].minor \in Seq(Span)
  PROVE  /\ [i \in DOMAIN entries |-> entries[i].minor] \in Seq(Seq(Span))
         /\ Len([i \in DOMAIN entries |-> entries[i].minor]) = n
         /\ Tokens(entries) \in Seq(Span)
<1> DEFINE minors == [i \in DOMAIN entries |-> entries[i].minor]
<1>1. minors \in [1 .. n -> Seq(Span)]
  OBVIOUS
<1>2. minors \in Seq(Seq(Span)) /\ Len(minors) = n
  <2> HIDE DEF minors
  <2>1. minors \in Seq(Seq(Span))
    BY <1>1, SeqDef
  <2>2. DOMAIN minors = 1 .. n
    BY <1>1
  <2>3. Len(minors) = n
    BY <2>1, <2>2, LenProperties
  <2> QED
    BY <2>1, <2>3
<1>3. FlattenSeq(minors) \in Seq(Span)
  <2> HIDE DEF minors
  <2> QED
    BY <1>2, FlattenType
<1> QED
  BY <1>2, <1>3 DEF Tokens

(* The tokens of the entries are the ones of the first and of the others.  *)
LEMMA TokensConcat ==
  ASSUME NEW left, NEW right, NEW all, NEW m \in Nat, NEW n \in Nat,
         DOMAIN left = 1 .. m, DOMAIN right = 1 .. n, DOMAIN all = 1 .. m + n,
         \A i \in 1 .. m : all[i] = left[i] /\ left[i].minor \in Seq(Span),
         \A i \in 1 .. n : all[m + i] = right[i] /\ right[i].minor \in Seq(Span)
  PROVE  Tokens(all) = Tokens(left) \o Tokens(right)
<1> DEFINE s == [i \in DOMAIN left |-> left[i].minor]
           t == [i \in DOMAIN right |-> right[i].minor]
           u == [i \in DOMAIN all |-> all[i].minor]
<1>1. s \in Seq(Seq(Span)) /\ Len(s) = m
  BY TokensType
<1>2. t \in Seq(Seq(Span)) /\ Len(t) = n
  BY TokensType
<1>3. ASSUME NEW i \in 1 .. m + n
      PROVE  u[i] = IF i <= m THEN s[i] ELSE t[i - m]
  <2>1. CASE i <= m
    BY <2>1
  <2>2. CASE i > m
    <3>1. i - m \in 1 .. n /\ m + (i - m) = i
      BY <2>2
    <3>2. all[i] = right[i - m]
      BY <3>1
    <3> QED
      BY <2>2, <3>1, <3>2
  <2> QED
    BY <2>1, <2>2
<1>4. ASSUME NEW i \in 1 .. m + n
      PROVE  u[i] \in Seq(Span)
  <2>1. i <= m => s[i] \in Seq(Span)
    OBVIOUS
  <2>2. i > m => i - m \in 1 .. n
    OBVIOUS
  <2>3. i > m => t[i - m] \in Seq(Span)
    BY <2>2
  <2> HIDE DEF s, t, u
  <2> QED
    BY <1>3, <2>1, <2>3
<1>5. u \in Seq(Seq(Span)) /\ Len(u) = m + n
  <2>1. u = [i \in 1 .. m + n |-> u[i]] /\ DOMAIN u = 1 .. m + n
    OBVIOUS
  <2>2. u \in [1 .. m + n -> Seq(Span)]
    <3> HIDE DEF u
    <3> QED
      BY <1>4, <2>1
  <2> HIDE DEF u
  <2>3. u \in Seq(Seq(Span))
    BY <2>2, SeqDef
  <2> QED
    BY <2>1, <2>3, LenProperties
<1> HIDE DEF s, t, u
<1>6. u = s \o t
  <2>1. /\ s \o t \in Seq(Seq(Span)) /\ Len(s \o t) = m + n
        /\ \A i \in 1 .. m + n : (s \o t)[i] = IF i <= m THEN s[i] ELSE t[i - m]
    <3>1. /\ s \o t \in Seq(Seq(Span)) /\ Len(s \o t) = Len(s) + Len(t)
          /\ \A i \in 1 .. Len(s) + Len(t) :
               (s \o t)[i] = IF i <= Len(s) THEN s[i] ELSE t[i - Len(s)]
      BY ONLY <1>1, <1>2, ConcatProperties
    <3> QED
      BY ONLY <1>1, <1>2, <3>1
  <2>2. \A i \in 1 .. Len(u) : u[i] = (s \o t)[i]
    <3>1. \A i \in 1 .. m + n : u[i] = (s \o t)[i]
      BY <1>3, <2>1, Zenon
    <3> SUFFICES ASSUME NEW i \in 1 .. Len(u)
                 PROVE  u[i] = (s \o t)[i]
      OBVIOUS
    <3>2. i \in 1 .. m + n
      <4>1. Len(u) = m + n
        BY <1>5
      <4> QED
        BY <4>1, Zenon
    <3> QED
      BY <3>1, <3>2, Zenon
  <2>3. Len(u) = Len(s \o t)
    BY <1>5, <2>1
  <2>4. u \in Seq(Seq(Span)) /\ s \o t \in Seq(Seq(Span))
    BY <1>5, <2>1
  <2> QED
    BY <2>2, <2>3, <2>4, SeqEqual, Zenon
<1>7. FlattenSeq(s \o t) = FlattenSeq(s) \o FlattenSeq(t)
  BY <1>1, <1>2, FlattenConcat
<1> QED
  BY <1>6, <1>7 DEF Tokens, s, t, u

LEMMA BelowFacts ==
  ASSUME NEW stack, Typed(stack)
  PROVE  /\ Below(stack, 1) = <<>>
         /\ \A k \in 1 .. Len(stack) : Below(stack, k) \in Seq(Span)
         /\ \A k \in 1 .. Len(stack) :
              /\ Tokens(SubSeq(stack, k + 1, Len(stack))) \in Seq(Span)
              /\ Below(stack, Len(stack)) = Below(stack, k) \o Tokens(SubSeq(stack, k + 1, Len(stack)))
<1> DEFINE n == Len(stack)
           first(k) == [i \in 1 .. k - 1 |-> stack[i + 1]]
           rest(k) == SubSeq(stack, k + 1, n)
<1>1. n \in Nat /\ n >= 1 /\ stack \in Seq(Entry) /\ \A i \in 2 .. n : stack[i].minor \in Seq(Span)
  BY DEF Typed
<1>2. ASSUME NEW k \in 1 .. n
      PROVE  /\ k - 1 \in Nat /\ DOMAIN first(k) = 1 .. k - 1
             /\ \A i \in 1 .. k - 1 : first(k)[i] = stack[i + 1] /\ first(k)[i].minor \in Seq(Span)
  <2>1. \A i \in 1 .. k - 1 : i + 1 \in 2 .. n
    BY <1>1
  <2> QED
    BY <1>1, <2>1
<1>3. ASSUME NEW k \in 1 .. n
      PROVE  /\ n - k \in Nat /\ DOMAIN rest(k) = 1 .. n - k
             /\ \A i \in 1 .. n - k : rest(k)[i] = stack[k + i] /\ rest(k)[i].minor \in Seq(Span)
  <2>1. n - k \in Nat /\ \A i \in 1 .. n - k : k + i \in 2 .. n
    BY <1>1
  <2>2. DOMAIN rest(k) = 1 .. n - k
    BY <1>1
  <2>3. \A i \in 1 .. n - k : rest(k)[i] = stack[k + i]
    BY <1>1
  <2> HIDE DEF rest
  <2> QED
    BY <1>1, <2>1, <2>2, <2>3
<1> HIDE DEF n, first, rest
<1>4. ASSUME NEW k \in 1 .. n
      PROVE  Below(stack, k) \in Seq(Span) /\ Tokens(rest(k)) \in Seq(Span)
  <2>1. Tokens(first(k)) \in Seq(Span)
    BY <1>2, TokensType
  <2>2. Tokens(rest(k)) \in Seq(Span)
    BY <1>3, TokensType
  <2> QED
    BY <2>1, <2>2 DEF Below, first
<1>5. ASSUME NEW k \in 1 .. n
      PROVE  Below(stack, n) = Below(stack, k) \o Tokens(rest(k))
  <2>1. /\ k - 1 \in Nat /\ n - k \in Nat /\ (k - 1) + (n - k) = n - 1 /\ n \in 1 .. n
        /\ \A i \in 1 .. k - 1 : i \in 1 .. n - 1
        /\ \A i \in 1 .. n - k : (k - 1) + i \in 1 .. n - 1 /\ ((k - 1) + i) + 1 = k + i
    BY <1>1
  <2>2. DOMAIN first(n) = 1 .. (k - 1) + (n - k)
    BY <1>2, <2>1
  <2>3. \A i \in 1 .. k - 1 : first(n)[i] = first(k)[i] /\ first(k)[i].minor \in Seq(Span)
    BY <1>2, <2>1
  <2>4. ASSUME NEW i \in 1 .. n - k
        PROVE  first(n)[(k - 1) + i] = rest(k)[i] /\ rest(k)[i].minor \in Seq(Span)
    <3>1. (k - 1) + i \in 1 .. n - 1 /\ ((k - 1) + i) + 1 = k + i
      BY <2>1
    <3>2. first(n)[(k - 1) + i] = stack[((k - 1) + i) + 1]
      BY <1>2, <2>1, <3>1, Zenon
    <3> QED
      BY <1>3, <3>1, <3>2
  <2>5. DOMAIN first(k) = 1 .. k - 1 /\ DOMAIN rest(k) = 1 .. n - k
    BY <1>2, <1>3
  <2>6. Tokens(first(n)) = Tokens(first(k)) \o Tokens(rest(k))
    BY <2>1, <2>2, <2>3, <2>4, <2>5, TokensConcat
  <2> QED
    BY <2>6 DEF Below, first
<1>6. Below(stack, 1) = <<>>
  BY DEF Below, Tokens, FlattenSeq
<1> QED
  BY <1>4, <1>5, <1>6 DEF n, rest

(* What an entry above the kept ones is has no effect on their tokens.     *)
LEMMA BelowSame ==
  ASSUME NEW s, NEW t, NEW k \in Nat, \A i \in 2 .. k : s[i] = t[i]
  PROVE  \A j \in 1 .. k : Below(s, j) = Below(t, j)
<1> SUFFICES ASSUME NEW j \in 1 .. k
             PROVE  Below(s, j) = Below(t, j)
  OBVIOUS
<1>1. [i \in 1 .. j - 1 |-> s[i + 1]] = [i \in 1 .. j - 1 |-> t[i + 1]]
  OBVIOUS
<1> QED
  BY <1>1 DEF Below

(* Every entry adds its tokens to the ones below.                          *)
LEMMA BelowNext ==
  ASSUME NEW stack, Typed(stack), NEW k \in 1 .. Len(stack) - 1
  PROVE  Below(stack, k + 1) = Below(stack, k) \o stack[k + 1].minor
<1> DEFINE entry == stack[k + 1]
           one == <<entry>>
           below == [i \in 1 .. k - 1 |-> stack[i + 1]]
           upto == [i \in 1 .. (k + 1) - 1 |-> stack[i + 1]]
<1>1. /\ k - 1 \in Nat /\ (k - 1) + 1 = k /\ (k + 1) - 1 = k /\ k \in Nat
      /\ \A i \in 1 .. k : stack[i + 1].minor \in Seq(Span)
  <2>1. Len(stack) \in Nat /\ \A i \in 2 .. Len(stack) : stack[i].minor \in Seq(Span)
    BY DEF Typed
  <2>2. \A i \in 1 .. k : i + 1 \in 2 .. Len(stack)
    BY <2>1
  <2> QED
    BY <2>1, <2>2
<1>2. DOMAIN below = 1 .. k - 1 /\ DOMAIN one = 1 .. 1 /\ DOMAIN upto = 1 .. (k - 1) + 1
  BY <1>1
<1>3. \A i \in 1 .. k - 1 : upto[i] = below[i] /\ below[i].minor \in Seq(Span)
  BY <1>1
<1>4. \A i \in 1 .. 1 : upto[(k - 1) + i] = one[i] /\ one[i].minor \in Seq(Span)
  BY <1>1
<1>5. Tokens(one) = entry.minor
  <2>1. [i \in DOMAIN one |-> one[i].minor] = <<entry.minor>>
    BY <1>2
  <2>2. entry.minor \in Seq(Span)
    BY <1>1
  <2> HIDE DEF one, entry
  <2> QED
    BY <2>1, <2>2, FlattenOne DEF Tokens
<1>6. Tokens(upto) = Tokens(below) \o Tokens(one)
  <2> HIDE DEF one, below, upto
  <2> QED
    BY <1>1, <1>2, <1>3, <1>4, TokensConcat
<1> QED
  BY <1>5, <1>6 DEF Below

(* An entry on top adds its tokens.                                        *)
LEMMA BelowPush ==
  ASSUME NEW stack, Typed(stack), NEW entry \in Entry, entry.minor \in Seq(Span)
  PROVE  LET pushed == Append(stack, entry)
         IN  /\ Typed(pushed)
             /\ \A k \in 1 .. Len(stack) : Below(pushed, k) = Below(stack, k)
             /\ Below(pushed, Len(stack) + 1) = Below(stack, Len(stack)) \o entry.minor
<1> DEFINE n == Len(stack)
           pushed == Append(stack, entry)
<1>1. /\ n \in Nat /\ n >= 1 /\ stack \in Seq(Entry)
      /\ \A i \in 2 .. n : stack[i].minor \in Seq(Span)
  BY DEF Typed
<1>2. /\ pushed \in Seq(Entry) /\ Len(pushed) = n + 1 /\ pushed[n + 1] = entry
      /\ \A i \in 1 .. n : pushed[i] = stack[i]
  BY <1>1
<1> HIDE DEF n, pushed
<1>3. ASSUME NEW i \in 2 .. n + 1
      PROVE  pushed[i].minor \in Seq(Span)
  <2>1. CASE i = n + 1
    BY <1>2, <2>1
  <2>2. CASE i # n + 1
    <3>1. i \in 1 .. n /\ i \in 2 .. n
      BY <1>1, <2>2
    <3> QED
      BY <1>1, <1>2, <3>1
  <2> QED
    BY <2>1, <2>2
<1>4. Typed(pushed)
  BY <1>1, <1>2, <1>3 DEF Typed
<1>5. \A k \in 1 .. n : Below(pushed, k) = Below(stack, k)
  <2>1. \A i \in 2 .. n : pushed[i] = stack[i]
    BY <1>1, <1>2
  <2> QED
    BY <1>1, <2>1, BelowSame
<1>6. Below(pushed, n + 1) = Below(stack, n) \o entry.minor
  <2>1. n \in 1 .. Len(pushed) - 1 /\ n \in 1 .. n
    BY <1>1, <1>2
  <2> QED
    BY <1>2, <1>4, <1>5, <2>1, BelowNext
<1> QED
  BY <1>4, <1>5, <1>6 DEF n, pushed

(* An entry on top that starts before its tokens, and ends where all do.   *)
LEMMA PushCollects ==
  ASSUME NEW stack, Typed(stack), NEW entry \in Entry, entry.minor \in Seq(Span),
         NEW tokens, tokens = Below(stack, Len(stack)) \o entry.minor, InOrder(tokens),
         \A k \in 1 .. Len(stack) : End(stack[k].span) = EndOf(Below(stack, k)),
         \A k \in 2 .. Len(stack) : StartsBefore(stack, k, tokens),
         End(entry.span) = EndOf(tokens),
         \A i \in Len(Below(stack, Len(stack))) + 1 .. Len(tokens) :
           entry.span.offset <= tokens[i].offset
  PROVE  LET pushed == Append(stack, entry)
         IN  Collected(pushed) /\ Below(pushed, Len(pushed)) = tokens
<1> DEFINE n == Len(stack)
           pushed == Append(stack, entry)
<1>1. n \in Nat /\ n >= 1 /\ stack \in Seq(Entry)
  BY DEF Typed
<1>2. /\ Len(pushed) = n + 1 /\ pushed[n + 1] = entry
      /\ \A i \in 1 .. n : pushed[i] = stack[i]
  BY <1>1
<1>3. /\ Typed(pushed) /\ \A k \in 1 .. n : Below(pushed, k) = Below(stack, k)
      /\ Below(pushed, n + 1) = tokens
  BY BelowPush
<1> HIDE DEF n, pushed
<1>4. ASSUME NEW k \in 1 .. n + 1
      PROVE  End(pushed[k].span) = EndOf(Below(pushed, k))
  <2>1. CASE k = n + 1
    BY <1>2, <1>3, <2>1
  <2>2. CASE k # n + 1
    <3>1. k \in 1 .. n
      BY <1>1, <2>2
    <3> QED
      BY <1>2, <1>3, <3>1 DEF n
  <2> QED
    BY <2>1, <2>2
<1>5. ASSUME NEW k \in 2 .. n + 1
      PROVE  StartsBefore(pushed, k, tokens)
  <2>1. CASE k = n + 1
    <3>1. n \in 1 .. n /\ k - 1 = n
      BY <1>1, <2>1
    <3>2. Below(pushed, k - 1) = Below(stack, n) /\ pushed[k] = entry
      BY <1>2, <1>3, <2>1, <3>1
    <3> QED
      BY <3>2 DEF StartsBefore, n
  <2>2. CASE k # n + 1
    <3>1. k \in 2 .. n /\ k \in 1 .. n /\ k - 1 \in 1 .. n
      BY <1>1, <2>2
    <3>2. StartsBefore(stack, k, tokens) /\ pushed[k] = stack[k] /\ Below(pushed, k - 1) = Below(stack, k - 1)
      BY <1>2, <1>3, <3>1 DEF n
    <3> QED
      BY <3>2 DEF StartsBefore
  <2> QED
    BY <2>1, <2>2
<1>6. Collected(pushed)
  BY <1>2, <1>3, <1>4, <1>5 DEF Collected
<1> QED
  BY <1>2, <1>3, <1>6 DEF pushed
-----------------------------------------------------------------------------
(* The steps *)

(* A reduce cuts entries off, and pushes one with their tokens.            *)
LEMMA ReduceCollects ==
  ASSUME NEW stack, Collected(stack), Ordered(stack), NEW keep \in 1 .. Len(stack),
         NEW entry \in Entry,
         entry.span = RuleSpan(SubSeq(stack, keep + 1, Len(stack)), stack[keep]),
         entry.minor = Tokens(SubSeq(stack, keep + 1, Len(stack)))
  PROVE  LET pushed == Append(SubSeq(stack, 1, keep), entry)
         IN  /\ Collected(pushed)
             /\ Below(pushed, Len(pushed)) = Below(stack, Len(stack))
<1> DEFINE n == Len(stack)
           below == SubSeq(stack, 1, keep)
           popped == SubSeq(stack, keep + 1, n)
           tokens == Below(stack, n)
<1>1. /\ Typed(stack) /\ InOrder(tokens)
      /\ \A k \in 1 .. n : End(stack[k].span) = EndOf(Below(stack, k))
      /\ \A k \in 2 .. n : StartsBefore(stack, k, tokens)
  BY DEF Collected
<1>2. /\ n \in Nat /\ n >= 1 /\ stack \in Seq(Entry) /\ keep \in Nat /\ keep >= 1 /\ keep <= n
      /\ \A i \in 2 .. n : stack[i].minor \in Seq(Span)
  BY <1>1 DEF Typed
<1>3. below \in Seq(Entry) /\ Len(below) = keep /\ \A i \in 1 .. keep : below[i] = stack[i]
  BY <1>2
<1>4. Tokens(popped) \in Seq(Span) /\ tokens = Below(stack, keep) \o Tokens(popped)
  BY <1>1, BelowFacts
<1>5. End(entry.span) = EndOf(tokens)
  <2>1. End(entry.span) = End(TopOf(stack).span)
    BY <1>2, RuleSpanFits
  <2>2. n \in 1 .. n
    BY <1>2
  <2> QED
    BY <1>1, <2>1, <2>2 DEF TopOf
<1>6. ASSUME NEW i \in Len(Below(stack, keep)) + 1 .. Len(tokens)
      PROVE  entry.span.offset <= tokens[i].offset
  <2>1. CASE keep = n
    <3>1. Below(stack, keep) = tokens
      BY <2>1
    <3>2. Len(tokens) \in Nat
      <4>1. n \in 1 .. n
        BY <1>2
      <4>2. tokens \in Seq(Span)
        BY <1>1, <4>1, BelowFacts
      <4> HIDE DEF tokens
      <4> QED
        BY <4>2
    <3> HIDE DEF tokens
    <3> QED
      BY <3>1, <3>2
  <2>2. CASE keep < n
    <3>1. keep + 1 \in 2 .. n /\ (keep + 1) - 1 = keep
      BY <1>2, <2>2
    <3>2. popped # <<>> /\ popped[1] = stack[keep + 1]
      <4>1. PICK m \in Int : m = keep + 1
        BY <1>2
      <4>2. m <= n /\ n \in Int /\ \A p \in m .. n : stack[p] \in Entry
        BY <1>2, <2>2, <4>1
      <4>3. /\ Len(SubSeq(stack, m, n)) = n - m + 1
            /\ \A p \in 1 .. n - m + 1 : SubSeq(stack, m, n)[p] = stack[m + p - 1]
        BY ONLY <4>1, <4>2, SubSeqProperties
      <4>4. 1 \in 1 .. n - m + 1 /\ n - m + 1 # 0 /\ m + 1 - 1 = m
        BY <4>1, <4>2
      <4>5. SubSeq(stack, m, n)[1] = stack[m] /\ Len(SubSeq(stack, m, n)) # 0
        BY <4>3, <4>4
      <4>6. popped = SubSeq(stack, m, n)
        BY <4>1
      <4> HIDE DEF popped
      <4> QED
        BY <4>1, <4>5, <4>6
    <3>3. entry.span.offset = stack[keep + 1].span.offset
      <4> HIDE DEF popped
      <4> QED
        BY <3>2 DEF RuleSpan, popped
    <3>4. StartsBefore(stack, keep + 1, tokens)
      BY <1>1, <3>1
    <3> QED
      BY <3>1, <3>3, <3>4 DEF StartsBefore
  <2> QED
    BY <1>2, <2>1, <2>2
<1> HIDE DEF n, below, popped, tokens
<1>7. Typed(below) /\ \A k \in 1 .. keep : Below(below, k) = Below(stack, k)
  <2>1. \A i \in 2 .. keep : below[i] = stack[i] /\ i \in 2 .. n
    BY <1>2, <1>3
  <2>2. Typed(below)
    BY <1>2, <1>3, <2>1 DEF Typed
  <2> QED
    BY <1>2, <2>1, <2>2, BelowSame
<1>8. Below(below, keep) = Below(stack, keep)
  BY <1>2, <1>7
<1>9. \A k \in 1 .. keep : End(below[k].span) = EndOf(Below(below, k))
  <2>1. \A k \in 1 .. keep : k \in 1 .. n
    BY <1>2
  <2> QED
    BY <1>1, <1>3, <1>7, <2>1
<1>10. ASSUME NEW k \in 2 .. keep
       PROVE  StartsBefore(below, k, tokens)
  <2>1. k \in 2 .. n /\ k \in 1 .. keep /\ k - 1 \in 1 .. keep
    BY <1>2
  <2>2. StartsBefore(stack, k, tokens) /\ below[k] = stack[k] /\ Below(below, k - 1) = Below(stack, k - 1)
    BY <1>1, <1>3, <1>7, <2>1
  <2> QED
    BY <2>2 DEF StartsBefore
<1>11. /\ entry.minor \in Seq(Span) /\ tokens = Below(below, keep) \o entry.minor
       /\ \A i \in Len(Below(below, keep)) + 1 .. Len(tokens) : entry.span.offset <= tokens[i].offset
  BY <1>4, <1>6, <1>8 DEF popped, n
<1>12. LET pushed == Append(below, entry)
       IN  Collected(pushed) /\ Below(pushed, Len(pushed)) = tokens
  BY <1>1, <1>3, <1>5, <1>7, <1>9, <1>10, <1>11, PushCollects
<1> QED
  BY <1>12 DEF below, tokens, n

(* A shift pushes the next token of the source.                            *)
LEMMA ShiftCollects ==
  ASSUME NEW stack, Collected(stack), Ordered(stack), NEW entry \in Entry,
         entry.minor = <<entry.span>>, End(TopOf(stack).span) <= entry.span.offset
  PROVE  LET pushed == Append(stack, entry)
         IN  /\ Collected(pushed)
             /\ Below(pushed, Len(pushed)) = Append(Below(stack, Len(stack)), entry.span)
<1> DEFINE n == Len(stack)
           shifted == Below(stack, n)
           m == Len(shifted)
           tokens == Append(shifted, entry.span)
<1>1. /\ Typed(stack) /\ InOrder(shifted)
      /\ \A k \in 1 .. n : End(stack[k].span) = EndOf(Below(stack, k))
      /\ \A k \in 2 .. n : StartsBefore(stack, k, shifted)
  BY DEF Collected
<1>2. n \in Nat /\ n >= 1 /\ n \in 1 .. n /\ stack \in Seq(Entry)
  BY <1>1 DEF Typed
<1>3. shifted \in Seq(Span)
  BY <1>1, <1>2, BelowFacts
<1>4. entry.span \in Span /\ entry.span.offset \in Nat /\ End(entry.span) \in Nat
  BY SpanTypes
<1>5. EndOf(shifted) <= entry.span.offset
  BY <1>1, <1>2 DEF TopOf
<1> HIDE DEF n, shifted
<1>6. /\ tokens = shifted \o entry.minor /\ entry.minor \in Seq(Span)
      /\ m \in Nat /\ Len(tokens) = m + 1 /\ tokens[m + 1] = entry.span
      /\ \A i \in 1 .. m : tokens[i] = shifted[i] /\ shifted[i] \in Span
  BY <1>3, <1>4
<1> HIDE DEF tokens
<1>7. \A i \in 1 .. m : End(shifted[i]) <= entry.span.offset
  <2> SUFFICES ASSUME NEW i \in 1 .. m
               PROVE  End(shifted[i]) <= entry.span.offset
    OBVIOUS
  <2>1. shifted # <<>> /\ m \in 1 .. m
    BY <1>3, <1>6
  <2>2. End(shifted[m]) <= entry.span.offset
    BY <1>5, <2>1 DEF EndOf, TopOf
  <2>3. CASE i = m
    BY <2>2, <2>3
  <2>4. CASE i # m
    <3>1. End(shifted[i]) <= shifted[m].offset
      BY <1>1, <1>6, <2>1, <2>4 DEF InOrder
    <3>2. /\ shifted[i] \in Span /\ shifted[m] \in Span
      BY <1>6, <2>1
    <3>3. \A span \in Span : /\ span.offset \in Nat /\ End(span) \in Nat
                              /\ span.offset <= End(span)
      BY ONLY DEF Span, End
    <3>4. /\ End(shifted[i]) \in Nat /\ shifted[m].offset \in Nat /\ End(shifted[m]) \in Nat
          /\ shifted[m].offset <= End(shifted[m])
      BY <3>2, <3>3
    <3> QED
      BY <1>4, <2>2, <3>1, <3>4
  <2> QED
    BY <2>3, <2>4
<1>8. InOrder(tokens)
  <2> SUFFICES ASSUME NEW i \in 1 .. m + 1, NEW j \in 1 .. m + 1, i < j
               PROVE  End(tokens[i]) <= tokens[j].offset
    BY <1>6 DEF InOrder
  <2>1. i \in 1 .. m
    BY <1>6
  <2>2. CASE j = m + 1
    BY <1>6, <1>7, <2>1, <2>2
  <2>3. CASE j # m + 1
    <3>1. j \in 1 .. m
      BY <1>6, <2>3
    <3>2. End(shifted[i]) <= shifted[j].offset
      BY <1>1, <2>1, <3>1 DEF InOrder
    <3>3. tokens[i] = shifted[i] /\ tokens[j] = shifted[j]
      BY <1>6, <2>1, <3>1
    <3> QED
      BY ONLY <3>2, <3>3
  <2> QED
    BY <2>2, <2>3
<1>9. ASSUME NEW k \in 2 .. n
      PROVE  StartsBefore(stack, k, tokens)
  <2> DEFINE l == Len(Below(stack, k - 1))
  <2> SUFFICES ASSUME NEW i \in l + 1 .. m + 1
               PROVE  stack[k].span.offset <= tokens[i].offset
    BY <1>6 DEF StartsBefore
  <2>1. k - 1 \in 1 .. n /\ k \in 1 .. n
    BY <1>2
  <2>2. l \in Nat
    <3>1. Below(stack, k - 1) \in Seq(Span)
      BY <1>1, <2>1, BelowFacts DEF n
    <3> QED
      BY <3>1
  <2> HIDE DEF l
  <2>3. CASE i = m + 1
    <3>1. stack[k].span.offset <= End(stack[n].span)
      <4>1. k \in 1 .. Len(stack) /\ n \in 1 .. Len(stack) /\ k \in 1 .. n
        BY <1>2, <2>1 DEF n
      <4> QED
        BY <1>2, <4>1, OrderedEnds
    <3>2. End(stack[n].span) <= entry.span.offset
      BY DEF TopOf, n
    <3>3. stack[k] \in Entry /\ stack[n] \in Entry
      BY <1>2, <2>1 DEF n
    <3>4. stack[k].span.offset \in Nat /\ End(stack[n].span) \in Nat
      BY <3>3, SpanTypes
    <3> QED
      BY <1>4, <1>6, <2>3, <3>1, <3>2, <3>4
  <2>4. CASE i # m + 1
    <3>1. i \in l + 1 .. m /\ i \in 1 .. m
      BY <1>6, <2>2, <2>4
    <3>2. stack[k].span.offset <= shifted[i].offset
      BY <1>1, <3>1 DEF StartsBefore, l
    <3> QED
      BY <1>6, <3>1, <3>2
  <2> QED
    BY <2>3, <2>4
<1>10. End(entry.span) = EndOf(tokens)
  <2>1. tokens # <<>>
    BY <1>6
  <2> QED
    BY <1>6, <2>1 DEF EndOf, TopOf
<1>11. \A i \in Len(Below(stack, n)) + 1 .. Len(tokens) : entry.span.offset <= tokens[i].offset
  <2>1. \A i \in m + 1 .. m + 1 : i = m + 1
    BY <1>6
  <2> QED
    BY <1>4, <1>6, <2>1 DEF shifted
<1>12. LET pushed == Append(stack, entry)
       IN  Collected(pushed) /\ Below(pushed, Len(pushed)) = tokens
  BY <1>1, <1>6, <1>8, <1>9, <1>10, <1>11, PushCollects DEF n, shifted
<1> QED
  BY <1>12 DEF tokens, shifted, n
-----------------------------------------------------------------------------
(* The session *)

LEMMA YieldInit == Init => YieldInv
<1> SUFFICES ASSUME Init
             PROVE  YieldInv
  OBVIOUS
<1>1. yystack = <<Sentinel>> /\ inputIndex = 0 /\ la = None
  BY DEF Init
<1>2. Len(yystack) = 1 /\ yystack[1] = Sentinel /\ End(Sentinel.span) = 0
  BY <1>1 DEF Sentinel, End
<1>3. Sentinel \in Entry
  BY EncodingAssumption DEF Sentinel, Entry, StackCode, State, Span
<1>4. Typed(yystack)
  BY <1>1, <1>2, <1>3 DEF Typed
<1>5. Below(yystack, 1) = <<>>
  BY <1>4, BelowFacts
<1>6. Collected(yystack)
  BY <1>2, <1>4, <1>5 DEF Collected, InOrder, EndOf, StartsBefore
<1> QED
  BY <1>1, <1>2, <1>5, <1>6 DEF YieldInv

(* Yield, as the proofs have it. *)
LEMMA YieldIs ==
  ASSUME Typed(yystack)
  PROVE  Yield = Below(yystack, Len(yystack))
<1> DEFINE n == Len(yystack)
           tail == Tail(yystack)
<1>1. n \in Nat /\ n >= 1 /\ yystack \in Seq(Entry)
  BY DEF Typed
<1>2. DOMAIN tail = 1 .. n - 1 /\ \A i \in 1 .. n - 1 : tail[i] = yystack[i + 1]
  BY <1>1
<1> DEFINE first == [i \in 1 .. n - 1 |-> yystack[i + 1]]
<1>3. DOMAIN first = 1 .. n - 1 /\ \A i \in 1 .. n - 1 : first[i] = yystack[i + 1]
  OBVIOUS
<1> HIDE DEF tail, first
<1>4. [i \in DOMAIN tail |-> tail[i].minor] = [i \in DOMAIN first |-> first[i].minor]
  BY <1>2, <1>3
<1> QED
  BY <1>4 DEF Yield, Below, Tokens, tail, first

(* What a step does to the tokens on the stack. *)
Grown == Yield' = IF inputIndex' = inputIndex THEN Yield ELSE Append(Yield, la.span)

LEMMA ReduceYields ==
  ASSUME Collecting, EngineInv, YieldInv, ReduceStep
  PROVE  YieldInv' /\ Grown
<1> DEFINE rule  == Act - YY_MIN_REDUCE
           keep  == Len(yystack) - At(yyRuleInfoNRhs, rule)
           below == SubSeq(yystack, 1, keep)
           span  == RuleSpan(Popped(keep), TopOf(below))
           lhs   == At(yyRuleInfoLhs, rule)
           code  == yy_find_reduce_action(TopOf(below).stateno, lhs)
           entry == TopOf(yystack')
<1>1. la # None /\ Act >= YY_MIN_REDUCE /\ UNCHANGED <<inputIndex, la>>
  BY DEF ReduceStep
<1>2. PICK result \in Reducer(state, rule, Popped(keep), span) :
        yystack' = Append(below, [stateno |-> code, major |-> lhs,
                                  minor |-> result.minor, span |-> span])
  BY DEF ReduceStep, yy_reduce
<1>3. keep \in 1 .. Len(yystack)
  BY <1>1, ReduceFits
<1>4. yystack \in Seq(Entry) /\ Ordered(yystack) /\ yystack' \in Seq(Entry)
  <2>1. EngineInv'
    BY ReduceInv
  <2> QED
    BY <2>1 DEF EngineInv, TypeOK, SpansOrdered, Ordered
<1>5. below \in Seq(Entry) /\ Len(below) = keep /\ TopOf(below) = yystack[keep]
  BY <1>3, <1>4 DEF TopOf
<1>6. result.minor = Tokens(Popped(keep))
  BY <1>2 DEF Collecting
<1> DEFINE new == [stateno |-> code, major |-> lhs, minor |-> result.minor, span |-> span]
<1> HIDE DEF below, keep, code, lhs, span
<1>7. /\ entry = new /\ yystack' = Append(below, entry)
      /\ entry.minor = result.minor /\ entry.span = span
  BY <1>2, <1>5 DEF TopOf
<1>8. entry \in Entry
  <2>1. Len(yystack') = keep + 1 /\ keep + 1 \in 1 .. Len(yystack') /\ entry = yystack'[keep + 1]
    BY <1>2, <1>3, <1>4, <1>5 DEF TopOf
  <2> HIDE DEF entry
  <2> QED
    BY <1>4, <2>1
<1>9. /\ entry.span = RuleSpan(SubSeq(yystack, keep + 1, Len(yystack)), yystack[keep])
      /\ entry.minor = Tokens(SubSeq(yystack, keep + 1, Len(yystack)))
  BY <1>5, <1>6, <1>7 DEF span, Popped
<1>10. Collected(yystack') /\ Below(yystack', Len(yystack')) = Below(yystack, Len(yystack))
  <2> HIDE DEF entry
  <2>1. Collected(yystack)
    BY DEF YieldInv
  <2>2. LET pushed == Append(SubSeq(yystack, 1, keep), entry)
        IN  /\ Collected(pushed)
            /\ Below(pushed, Len(pushed)) = Below(yystack, Len(yystack))
    BY <1>3, <1>4, <1>8, <1>9, <2>1, ReduceCollects
  <2> QED
    BY <1>7, <2>2 DEF below
<1>11. YieldInv'
  BY <1>1, <1>10 DEF YieldInv, Collected
<1>12. Yield = Below(yystack, Len(yystack)) /\ Yield' = Below(yystack', Len(yystack'))
  <2>1. Typed(yystack) /\ Typed(yystack')
    BY <1>10 DEF YieldInv, Collected
  <2>2. Yield = Below(yystack, Len(yystack))
    BY <2>1, YieldIs
  <2>3. (Typed(yystack) => Yield = Below(yystack, Len(yystack)))'
    BY YieldIs, PTL
  <2> QED
    BY <2>1, <2>2, <2>3
<1> QED
  BY <1>1, <1>10, <1>11, <1>12 DEF Grown

LEMMA ShiftYields ==
  ASSUME EngineInv, YieldInv, ShiftStep
  PROVE  YieldInv' /\ Grown
<1> DEFINE entry == [stateno |-> Shifted(Act), major |-> la.major, minor |-> la.minor, span |-> la.span]
<1>1. /\ la # None /\ la' = None /\ inputIndex' = inputIndex + 1
      /\ yystack' = Append(yystack, entry)
  BY DEF ShiftStep
<1>2. /\ yystack \in Seq(Entry) /\ Ordered(yystack) /\ yystack' \in Seq(Entry)
      /\ inputIndex \in Nat /\ End(Top.span) <= la.span.offset
  <2>1. EngineInv'
    BY ShiftInv
  <2> QED
    BY <1>1, <2>1 DEF EngineInv, TypeOK, SpansOrdered, Ordered
<1>3. Collected(yystack) /\ la.minor = <<la.span>> /\ Len(Below(yystack, Len(yystack))) = inputIndex
  BY <1>1 DEF YieldInv
<1>4. entry \in Entry
  <2> DEFINE n == Len(yystack)
  <2>1. n \in Nat /\ Len(yystack') = n + 1 /\ yystack'[n + 1] = entry
    BY <1>1, <1>2
  <2>2. n + 1 \in 1 .. Len(yystack')
    BY <2>1
  <2> HIDE DEF entry, n
  <2> QED
    BY <1>2, <2>1, <2>2
<1>5. /\ entry.minor = <<entry.span>> /\ entry.span = la.span
      /\ End(TopOf(yystack).span) <= entry.span.offset
  BY <1>2, <1>3 DEF Top
<1> HIDE DEF entry
<1>6. /\ Collected(yystack')
      /\ Below(yystack', Len(yystack')) = Append(Below(yystack, Len(yystack)), la.span)
  <2>1. LET pushed == Append(yystack, entry)
        IN  /\ Collected(pushed)
            /\ Below(pushed, Len(pushed)) = Append(Below(yystack, Len(yystack)), entry.span)
    BY <1>2, <1>3, <1>4, <1>5, ShiftCollects
  <2> QED
    BY <1>1, <1>5, <2>1
<1>7. Len(Append(Below(yystack, Len(yystack)), la.span)) = inputIndex + 1
  <2>1. Below(yystack, Len(yystack)) \in Seq(Span)
    <3>1. Typed(yystack) /\ Len(yystack) \in 1 .. Len(yystack)
      BY <1>3 DEF Collected, Typed
    <3> QED
      BY <3>1, BelowFacts
  <2>2. la.span \in Span
    BY <1>4, <1>5, SpanTypes
  <2> QED
    BY <1>3, <2>1, <2>2
<1>8. YieldInv'
  BY <1>1, <1>6, <1>7 DEF YieldInv, Collected
<1>9. Yield = Below(yystack, Len(yystack)) /\ Yield' = Below(yystack', Len(yystack'))
  <2>1. Typed(yystack) /\ Typed(yystack')
    BY <1>3, <1>6 DEF Collected
  <2>2. (Typed(yystack) => Yield = Below(yystack, Len(yystack)))'
    BY YieldIs, PTL
  <2> QED
    BY <2>1, <2>2, YieldIs
<1>10. inputIndex' # inputIndex
  BY <1>1, <1>2
<1> QED
  BY <1>6, <1>8, <1>9, <1>10 DEF Grown

LEMMA YieldStep == Collecting /\ EngineInv /\ YieldInv /\ [Next]_engineVars => YieldInv' /\ Grown
<1> SUFFICES ASSUME Collecting, EngineInv, YieldInv, [Next]_engineVars
             PROVE  YieldInv' /\ Grown
  OBVIOUS
<1>1. CASE Feed
  <2>1. PICK feed \in Feeds : Call(feed)
    BY <1>1 DEF Feed
  <2>2. UNCHANGED <<yystack, inputIndex>> /\ la' \in {feed, None}
    BY <2>1 DEF Call
  <2>3. feed.minor = <<feed.span>>
    BY DEF Collecting
  <2> QED
    BY <2>2, <2>3 DEF YieldInv, Collected, Grown, Yield
<1>2. CASE ReduceStep
  BY <1>2, ReduceYields
<1>3. CASE ShiftStep
  BY <1>3, ShiftYields
<1>4. CASE AcceptStep
  <2>1. UNCHANGED <<yystack, inputIndex>> /\ la' = None
    BY <1>4 DEF AcceptStep
  <2> QED
    BY <2>1 DEF YieldInv, Collected, Grown, Yield
<1>5. CASE ErrorStep
  <2>1. UNCHANGED <<yystack, inputIndex>> /\ la' = None
    BY <1>5 DEF ErrorStep
  <2> QED
    BY <2>1 DEF YieldInv, Collected, Grown, Yield
<1>6. CASE UNCHANGED engineVars
  <2>1. UNCHANGED <<yystack, inputIndex, la>>
    BY <1>6 DEF engineVars
  <2> QED
    BY <2>1 DEF YieldInv, Collected, Grown, Yield
<1> QED
  BY <1>1, <1>2, <1>3, <1>4, <1>5, <1>6 DEF Next, Step

(* What the invariant says of Yield and of each entry.                     *)
LEMMA YieldSound == YieldInv => StackYieldsInput
<1> SUFFICES ASSUME YieldInv
             PROVE  StackYieldsInput
  OBVIOUS
<1> DEFINE n == Len(yystack)
           tokens == Below(yystack, n)
<1>1. /\ Typed(yystack) /\ InOrder(tokens) /\ Len(tokens) = inputIndex
      /\ \A k \in 1 .. n : End(yystack[k].span) = EndOf(Below(yystack, k))
      /\ \A k \in 2 .. n : StartsBefore(yystack, k, tokens)
  BY DEF YieldInv, Collected
<1>2. n \in Nat /\ \A i \in 2 .. n : yystack[i].minor \in Seq(Span)
  BY <1>1 DEF Typed
<1>3. Yield = tokens
  BY <1>1, YieldIs
<1>4. ASSUME NEW i \in 2 .. n, yystack[i].minor # <<>>
      PROVE  /\ yystack[i].span.offset <= yystack[i].minor[1].offset
             /\ End(yystack[i].span) = End(TopOf(yystack[i].minor))
  <2> DEFINE minor == yystack[i].minor
             before == Below(yystack, i - 1)
             upto == Below(yystack, i)
             rest == Tokens(SubSeq(yystack, i + 1, n))
             l == Len(before)
  <2>1. i \in 1 .. n /\ i - 1 \in 1 .. n /\ i - 1 \in 1 .. n - 1 /\ (i - 1) + 1 = i
    BY <1>2
  <2>2. /\ before \in Seq(Span) /\ upto \in Seq(Span) /\ rest \in Seq(Span)
        /\ tokens = upto \o rest
    BY <1>1, <2>1, BelowFacts
  <2>3. upto = before \o minor
    BY <1>1, <2>1, BelowNext
  <2>4. minor \in Seq(Span)
    BY <1>2
  <2>5. End(yystack[i].span) = EndOf(upto)
    BY <1>1, <2>1
  <2>6. StartsBefore(yystack, i, tokens)
    BY <1>1
  <2>7. minor # <<>>
    BY <1>4
  <2> HIDE DEF minor, before, upto, rest, tokens
  <2>8. /\ l \in Nat /\ Len(minor) \in Nat /\ Len(minor) >= 1 /\ Len(rest) \in Nat
        /\ Len(upto) = l + Len(minor) /\ \A j \in 1 .. Len(minor) : upto[l + j] = minor[j]
    BY <2>2, <2>3, <2>4, <2>7
  <2>9. Len(tokens) = Len(upto) + Len(rest) /\ \A j \in 1 .. Len(upto) : tokens[j] = upto[j]
    BY <2>2
  <2> HIDE DEF l
  <2>10. TopOf(upto) = TopOf(minor) /\ upto # <<>>
    <3>1. upto[l + Len(minor)] = minor[Len(minor)]
      BY <2>8
    <3>2. Len(upto) # 0
      BY <2>8
    <3> QED
      BY <2>8, <3>1, <3>2 DEF TopOf
  <2>11. tokens[l + 1] = minor[1] /\ l + 1 \in l + 1 .. Len(tokens)
    BY <2>8, <2>9
  <2>12. yystack[i].span.offset <= tokens[l + 1].offset
    BY <2>6, <2>11 DEF StartsBefore, before, l
  <2> QED
    BY <2>5, <2>10, <2>11, <2>12 DEF EndOf, minor
<1> QED
  BY <1>1, <1>3, <1>4 DEF StackYieldsInput, InOrder
-----------------------------------------------------------------------------
(* A reduce gives the reducer what the stack has: for every table, caller  *)
(* and sequence of tokens, read from bottom to top the nodes cover all the *)
(* tokens shifted, once and in order, and their spans cover their tokens.  *)
THEOREM NoTokenLost ==
  ASSUME Collecting
  PROVE  Spec => []StackYieldsInput
<1>1. Spec => [](EngineInv /\ YieldInv)
  <2>1. EngineInv /\ YieldInv /\ [Next]_engineVars => YieldInv'
    BY YieldStep
  <2> QED
    BY <2>1, YieldInit, EngineInvariant, PTL DEF Spec
<1> QED
  BY <1>1, YieldSound, PTL

(* A shift adds the token in flight to what the stack holds of the source, *)
(* and no other step changes that.                                         *)
THEOREM TokensOnlyAdded ==
  ASSUME Collecting
  PROVE  Spec => TakesTokens
<1>1. EngineInv /\ YieldInv /\ [Next]_engineVars => YieldInv'
  BY YieldStep
<1>2. EngineInv /\ YieldInv /\ [Next]_engineVars
        => [Yield' = IF inputIndex' = inputIndex THEN Yield ELSE Append(Yield, la.span)]_engineVars
  BY YieldStep DEF Grown
<1> QED
  BY <1>1, <1>2, YieldInit, EngineInvariant, PTL DEF Spec, TakesTokens
=============================================================================
