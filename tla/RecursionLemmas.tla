-------------------------- MODULE RecursionLemmas --------------------------
(***************************************************************************)
(* Induction and recursion over the natural numbers, stated with sets and  *)
(* functions: what a loop of the source computes is modelled by recursive  *)
(* functions, and these lemmas say that they are defined and what follows  *)
(* of them step by step.                                                   *)
(***************************************************************************)
EXTENDS Integers, Sequences, SequencesExt, Functions, SequenceTheorems, WellFoundedInduction, TLAPS

(* A set of naturals that is not empty has a least element. *)
LEMMA LeastOf ==
  ASSUME NEW T, T \subseteq Nat, T # {}
  PROVE  \E m \in T : \A k \in T : m <= k
<1>1. \E x \in T : \A y \in T : ~(<<y, x>> \in OpToRel(<, Nat))
  BY NatLessThanWellFounded, WFMin
<1>2. \A x, y \in Nat : y < x => <<y, x>> \in OpToRel(<, Nat)
  BY DEF OpToRel
<1>3. PICK x \in T : \A y \in T : ~(<<y, x>> \in OpToRel(<, Nat))
  BY <1>1
<1>4. \A y \in T : ~(y < x)
  BY <1>2, <1>3
<1>5. \A y \in T : x \in Nat /\ y \in Nat
  OBVIOUS
<1> QED
  BY <1>4, <1>5

(* A set of naturals up to N that is not empty has a greatest element. *)
LEMMA GreatestOf ==
  ASSUME NEW T, NEW N \in Nat, T \subseteq 0 .. N, T # {}
  PROVE  \E m \in T : \A k \in T : k <= m
<1> DEFINE U == {n \in 0 .. N : N - n \in T}
<1>1. U \subseteq Nat
  OBVIOUS
<1>2. PICK t : t \in T
  OBVIOUS
<1>3. N - t \in U
  <2>1. t \in 0 .. N /\ N - t \in 0 .. N /\ N - (N - t) = t
    BY <1>2
  <2> QED
    BY <1>2, <2>1
<1>4. PICK u \in U : \A k \in U : u <= k
  <2> HIDE DEF U
  <2> QED
    BY <1>1, <1>3, LeastOf
<1>5. ASSUME NEW k \in T
      PROVE  k <= N - u
  <2>1. k \in 0 .. N /\ N - k \in 0 .. N /\ N - (N - k) = k
    OBVIOUS
  <2>2. N - k \in U
    BY <2>1
  <2> QED
    BY <1>4, <2>1, <2>2
<1>6. N - u \in T
  BY <1>4
<1> QED
  BY <1>5, <1>6

(* Induction: a set that has 0, and n whenever it has the number before n, *)
(* for all n up to N, has all numbers up to N.                             *)
LEMMA InductionTo ==
  ASSUME NEW N \in Nat, NEW T, 0 \in T, \A n \in 1 .. N : n - 1 \in T => n \in T
  PROVE  \A n \in 0 .. N : n \in T
<1>1. SUFFICES ASSUME NEW c \in 0 .. N, c \notin T
               PROVE  FALSE
  OBVIOUS
<1> DEFINE U == {n \in 0 .. N : n \notin T}
<1>2. PICK m \in U : \A k \in U : m <= k
  <2>1. U \subseteq Nat /\ U # {}
    BY <1>1
  <2> HIDE DEF U
  <2> QED
    BY <2>1, LeastOf
<1>3. m \in 1 .. N /\ m \notin T
  OBVIOUS
<1>4. m - 1 \in 0 .. N /\ ~(m <= m - 1)
  BY <1>3
<1>5. m - 1 \in T
  BY <1>2, <1>4
<1> QED
  BY <1>3, <1>5

(* There is a function that starts with initial and takes the given steps. *)
Steps(N, S) == [1 .. N -> [S -> S]]
Runs(f, N, S, initial, step) ==
  /\ f \in [0 .. N -> S]
  /\ f[0] = initial
  /\ \A n \in 1 .. N : f[n] = step[n][f[n - 1]]

(* And such a function exists.                                             *)
LEMMA Recursion ==
  ASSUME NEW N, NEW S, NEW initial, NEW step,
         N \in Nat, initial \in S, step \in Steps(N, S)
  PROVE  \E f : Runs(f, N, S, initial, step)
<1> USE DEF Steps
<1> DEFINE Upto(n, f) == /\ f \in [0 .. n -> S]
                         /\ f[0] = initial
                         /\ \A k \in 1 .. n : f[k] = step[k][f[k - 1]]
           T == {n \in 0 .. N : \E f : Upto(n, f)}
<1>1. 0 \in T
  <2> DEFINE f == [k \in 0 .. 0 |-> initial]
  <2>1. Upto(0, f)
    OBVIOUS
  <2>2. \E h : Upto(0, h)
    <3> HIDE DEF Upto, f
    <3> QED
      BY <2>1
  <2>3. 0 \in 0 .. N
    OBVIOUS
  <2> QED
    BY <2>2, <2>3
<1>2. ASSUME NEW n \in 1 .. N, n - 1 \in T
      PROVE  n \in T
  <2>1. PICK f : Upto(n - 1, f)
    BY <1>2
  <2> DEFINE g == [k \in 0 .. n |-> IF k < n THEN f[k] ELSE step[n][f[n - 1]]]
  <2>2. f[n - 1] \in S /\ step[n] \in [S -> S]
    BY <2>1
  <2>3. g \in [0 .. n -> S]
    BY <2>1, <2>2
  <2>4. g[0] = initial
    BY <2>1
  <2>5. \A k \in 1 .. n : g[k] = step[k][g[k - 1]]
    BY <2>1
  <2>6. Upto(n, g)
    BY <2>3, <2>4, <2>5
  <2>7. \E h : Upto(n, h)
    <3> HIDE DEF Upto, g
    <3> QED
      BY <2>6
  <2>8. n \in 0 .. N
    OBVIOUS
  <2> QED
    BY <2>7, <2>8
<1>3. N \in T
  <2>1. \A n \in 1 .. N : n - 1 \in T => n \in T
    BY <1>2
  <2>2. \A n \in 0 .. N : n \in T
    <3> HIDE DEF T
    <3> QED
      BY <1>1, <2>1, InductionTo
  <2>3. N \in 0 .. N
    OBVIOUS
  <2> HIDE DEF T
  <2> QED
    BY <2>2, <2>3
<1> QED
  BY <1>3 DEF Runs
-----------------------------------------------------------------------------
(* Loops.  A loop is in a state of S, takes a step while in C, and returns *)
(* a result when it is not; every step makes a measure up to N smaller.    *)

Loops(f, S, C, step, result) ==
  \A c \in S : f[c] = IF c \in C THEN f[step[c]] ELSE result[c]
Terminates(S, C, step, measure, N) ==
  /\ N \in Nat /\ C \subseteq S /\ step \in [S -> S] /\ measure \in [S -> 0 .. N]
  /\ \A c \in C : measure[step[c]] < measure[c]

(* What holds where a loop ends, and before a step when it does after it,  *)
(* holds everywhere.                                                       *)
LEMMA LoopInduction ==
  ASSUME NEW S, NEW C, NEW step, NEW measure, NEW N, NEW P,
         Terminates(S, C, step, measure, N), P \in SUBSET S,
         \A c \in S : c \notin C => c \in P,
         \A c \in C : step[c] \in P => c \in P
  PROVE  \A c \in S : c \in P
<1>1. /\ N \in Nat /\ C \subseteq S /\ step \in [S -> S] /\ measure \in [S -> 0 .. N]
      /\ \A c \in C : measure[step[c]] < measure[c]
  BY DEF Terminates
<1>2. \A c \in S : measure[c] \in 0 .. N /\ step[c] \in S
  BY <1>1
<1> DEFINE T == {n \in 0 .. N : \A c \in S : measure[c] <= n => c \in P}
<1>3. 0 \in T
  <2>1. \A c \in S : measure[c] <= 0 => c \notin C
    BY <1>1, <1>2
  <2> QED
    BY <1>1, <2>1
<1>4. ASSUME NEW n \in 1 .. N, n - 1 \in T
      PROVE  n \in T
  <2>1. ASSUME NEW c \in S, measure[c] <= n, c \in C
        PROVE  c \in P
    <3>1. measure[step[c]] < measure[c] /\ measure[step[c]] \in Int /\ measure[c] \in Int /\ step[c] \in S
      BY <1>1, <1>2, <2>1
    <3>2. measure[step[c]] <= n - 1
      BY <1>1, <2>1, <3>1
    <3> QED
      BY <1>4, <2>1, <3>1, <3>2
  <2> QED
    BY <2>1
<1>5. \A n \in 0 .. N : n \in T
  <2>1. \A n \in 1 .. N : n - 1 \in T => n \in T
    BY <1>4
  <2> HIDE DEF T
  <2> QED
    BY <1>1, <1>3, <2>1, InductionTo
<1>6. N \in T
  <2> HIDE DEF T
  <2> QED
    BY <1>1, <1>5
<1> QED
  BY <1>2, <1>6

(* Such a loop has a function that says what it returns.                   *)
LEMMA LoopDefined ==
  ASSUME NEW S, NEW R, NEW C, NEW step, NEW result, NEW measure, NEW N,
         Terminates(S, C, step, measure, N), result \in [S -> R]
  PROVE  \E f : f \in [S -> R] /\ Loops(f, S, C, step, result)
<1>1. /\ N \in Nat /\ C \subseteq S /\ step \in [S -> S] /\ measure \in [S -> 0 .. N]
      /\ \A c \in C : measure[step[c]] < measure[c]
  BY DEF Terminates
<1>2. \A c \in S : measure[c] \in 0 .. N /\ step[c] \in S /\ result[c] \in R
  BY <1>1
<1> DEFINE K == N + 1
           more(h) == [c \in S |-> IF c \in C THEN h[step[c]] ELSE result[c]]
           round == [n \in 1 .. K |-> [h \in [S -> R] |-> more(h)]]
<1>3. round \in Steps(K, [S -> R])
  <2>1. \A h \in [S -> R] : more(h) \in [S -> R]
    BY <1>2
  <2> HIDE DEF more
  <2> QED
    BY <2>1 DEF Steps
<1>4. PICK g : Runs(g, K, [S -> R], result, round)
  <2>1. K \in Nat /\ result \in [S -> R]
    BY <1>1
  <2> HIDE DEF K, round
  <2> QED
    BY <1>3, <2>1, Recursion
<1>5. \A n \in 0 .. K : g[n] \in [S -> R]
  BY <1>4 DEF Runs
<1>6. g[0] = result /\ \A n \in 1 .. K : g[n] = more(g[n - 1])
  <2>1. g[0] = result /\ \A n \in 1 .. K : g[n] = round[n][g[n - 1]]
    <3> HIDE DEF round
    <3> QED
      BY <1>4 DEF Runs
  <2>2. \A n \in 1 .. K : n - 1 \in 0 .. K
    BY <1>1
  <2>3. \A n \in 1 .. K : g[n - 1] \in [S -> R]
    BY <1>5, <2>2
  <2> HIDE DEF more
  <2> QED
    BY <2>1, <2>3
<1>7. \A n \in 1 .. K : \A c \in S : g[n][c] = IF c \in C THEN g[n - 1][step[c]] ELSE result[c]
  <2>1. ASSUME NEW n \in 1 .. K, NEW c \in S
        PROVE  g[n][c] = IF c \in C THEN g[n - 1][step[c]] ELSE result[c]
    <3>1. g[n] = more(g[n - 1])
      <4> HIDE DEF more
      <4> QED
        BY <1>6
    <3>2. \A h : more(h)[c] = IF c \in C THEN h[step[c]] ELSE result[c]
      OBVIOUS
    <3> HIDE DEF more
    <3> QED
      BY <3>1, <3>2
  <2> QED
    BY <2>1
<1> HIDE DEF more, round
<1> DEFINE T == {n \in 0 .. N : \A c \in S : measure[c] <= n => g[n + 1][c] = g[n][c]}
<1>8. 0 \in T
  <2>1. ASSUME NEW c \in S, measure[c] <= 0
        PROVE  g[0 + 1][c] = g[0][c]
    <3>1. c \notin C
      BY <1>1, <1>2, <2>1
    <3>2. 0 + 1 \in 1 .. K
      BY <1>1
    <3> QED
      BY <1>6, <1>7, <3>1, <3>2
  <2> QED
    BY <1>1, <2>1
<1>9. ASSUME NEW n \in 1 .. N, n - 1 \in T
      PROVE  n \in T
  <2>1. n \in 1 .. K /\ n + 1 \in 1 .. K /\ (n + 1) - 1 = n /\ (n - 1) + 1 = n
    BY <1>1
  <2>2. ASSUME NEW c \in S, measure[c] <= n
        PROVE  g[n + 1][c] = g[n][c]
    <3>1. CASE c \notin C
      BY <1>7, <2>1, <3>1
    <3>2. CASE c \in C
      <4>1. measure[step[c]] < measure[c] /\ measure[step[c]] \in Int /\ measure[c] \in Int
        BY <1>1, <1>2, <3>2
      <4>2. measure[step[c]] <= n - 1
        BY <1>1, <2>2, <4>1
      <4>3. g[n][step[c]] = g[n - 1][step[c]]
        BY <1>2, <1>9, <2>1, <4>2
      <4>4. g[n + 1][c] = g[n][step[c]] /\ g[n][c] = g[n - 1][step[c]]
        BY <1>7, <2>1, <3>2
      <4> QED
        BY <4>3, <4>4
    <3> QED
      BY <3>1, <3>2
  <2> QED
    BY <2>2
<1>10. \A n \in 0 .. N : n \in T
  <2>1. \A n \in 1 .. N : n - 1 \in T => n \in T
    BY <1>9
  <2> HIDE DEF T
  <2> QED
    BY <1>1, <1>8, <2>1, InductionTo
<1>11. N \in T
  <2> HIDE DEF T
  <2> QED
    BY <1>1, <1>10
<1>12. \A c \in S : g[N + 1][c] = g[N][c]
  BY <1>2, <1>11
<1>13. \A c \in S : g[N][c] = IF c \in C THEN g[N][step[c]] ELSE result[c]
  <2>1. N + 1 \in 1 .. K /\ (N + 1) - 1 = N
    BY <1>1
  <2> QED
    BY <1>7, <1>12, <2>1
<1>14. g[N] \in [S -> R]
  BY <1>1, <1>5
<1> QED
  BY <1>13, <1>14 DEF Loops
-----------------------------------------------------------------------------
(* Concatenation *)

(* What a loop computes that puts a piece of its result together in each   *)
(* of its turns.                                                           *)
Builds(f, S, C, step, piece) ==
  \A c \in S : f[c] = IF c \in C THEN piece[c] \o f[step[c]] ELSE <<>>

(* There is a function that does.                                          *)
LEMMA LoopBuilds ==
  ASSUME NEW S, NEW R, NEW C, NEW step, NEW piece, NEW measure, NEW N,
         Terminates(S, C, step, measure, N), piece \in [S -> Seq(R)]
  PROVE  \E f : f \in [S -> Seq(R)] /\ Builds(f, S, C, step, piece)
<1> DEFINE A == Seq(R)
           S2 == S \X A
           C2 == {x \in S2 : x[1] \in C}
           step2 == [x \in S2 |-> <<step[x[1]], x[2] \o piece[x[1]]>>]
           result2 == [x \in S2 |-> x[2]]
           measure2 == [x \in S2 |-> measure[x[1]]]
<1>1. /\ N \in Nat /\ C \subseteq S /\ step \in [S -> S] /\ measure \in [S -> 0 .. N]
      /\ \A c \in C : measure[step[c]] < measure[c]
  BY DEF Terminates
<1>2. <<>> \in A /\ \A a, b \in A : a \o b \in A
  BY ConcatProperties
<1>3. Terminates(S2, C2, step2, measure2, N) /\ result2 \in [S2 -> A]
  <2>1. step2 \in [S2 -> S2]
    <3>1. \A x \in S2 : step[x[1]] \in S /\ x[2] \o piece[x[1]] \in A
      BY <1>1, <1>2
    <3> HIDE DEF A
    <3> QED
      BY <3>1
  <2>2. measure2 \in [S2 -> 0 .. N]
    BY <1>1
  <2>3. \A x \in C2 : measure2[step2[x]] < measure2[x]
    <3> SUFFICES ASSUME NEW x \in C2
                 PROVE  measure2[step2[x]] < measure2[x]
      OBVIOUS
    <3>1. x \in S2 /\ x[1] \in C
      OBVIOUS
    <3>2. step2[x] \in S2 /\ step2[x][1] = step[x[1]]
      BY <2>1, <3>1
    <3> HIDE DEF S2, C2, step2
    <3> QED
      BY <1>1, <3>1, <3>2
  <2>4. result2 \in [S2 -> A] /\ C2 \subseteq S2
    OBVIOUS
  <2> HIDE DEF S2, C2, step2, measure2, result2
  <2> QED
    BY <1>1, <2>1, <2>2, <2>3, <2>4 DEF Terminates
<1>4. PICK g : g \in [S2 -> A] /\ Loops(g, S2, C2, step2, result2)
  <2> HIDE DEF S2, C2, step2, measure2, result2, A
  <2> QED
    BY <1>3, LoopDefined
<1>5. ASSUME NEW c \in S, NEW a \in A
      PROVE  g[<<c, a>>] = IF c \in C THEN g[<<step[c], a \o piece[c]>>] ELSE a
  <2>1. <<c, a>> \in S2 /\ (<<c, a>> \in C2 <=> c \in C)
    OBVIOUS
  <2>2. step2[<<c, a>>] = <<step[c], a \o piece[c]>> /\ result2[<<c, a>>] = a
    BY <2>1
  <2> HIDE DEF S2, C2, step2, result2
  <2> QED
    BY <1>4, <2>1, <2>2 DEF Loops
<1> DEFINE P == {c \in S : \A a \in A : g[<<c, a>>] = a \o g[<<c, <<>>>>]}
           f == [c \in S |-> g[<<c, <<>>>>]]
<1>6. \A c \in S, a \in A : g[<<c, a>>] \in A
  BY <1>4
<1> HIDE DEF S2, C2, step2, measure2, result2
<1>7. ASSUME NEW c \in S, c \notin C
      PROVE  c \in P
  <2>1. g[<<c, <<>>>>] = <<>>
    BY <1>2, <1>5, <1>7
  <2>2. ASSUME NEW a \in A
        PROVE  g[<<c, a>>] = a \o g[<<c, <<>>>>]
    <3>1. g[<<c, a>>] = a
      BY <1>5, <1>7
    <3>2. a \o <<>> = a
      OBVIOUS
    <3> QED
      BY <2>1, <3>1, <3>2
  <2> QED
    BY <2>2
<1>8. ASSUME NEW c \in C, step[c] \in P
      PROVE  /\ c \in P /\ \A a \in A : g[<<c, a>>] = a \o g[<<c, <<>>>>]
             /\ g[<<c, <<>>>>] = piece[c] \o g[<<step[c], <<>>>>]
  <2> DEFINE t == step[c]
             u == piece[c]
             rest == g[<<t, <<>>>>]
  <2>1. c \in S /\ t \in S /\ u \in A
    BY <1>1
  <2>2. rest \in A
    BY <1>2, <1>6, <2>1
  <2>3. \A a \in A : g[<<t, a>>] = a \o rest
    BY <1>8
  <2> HIDE DEF t, u, rest, P
  <2>4. g[<<c, <<>>>>] = u \o rest
    <3>1. g[<<c, <<>>>>] = g[<<t, <<>> \o u>>]
      BY <1>2, <1>5, <2>1 DEF t, u
    <3>2. <<>> \o u = u
      BY <2>1
    <3> QED
      BY <2>1, <2>3, <3>1, <3>2
  <2>5. ASSUME NEW a \in A
        PROVE  g[<<c, a>>] = a \o g[<<c, <<>>>>]
    <3>1. g[<<c, a>>] = g[<<t, a \o u>>]
      BY <1>5, <2>1 DEF t, u
    <3>2. a \o u \in A
      BY <1>2, <2>1
    <3>3. g[<<c, a>>] = (a \o u) \o rest
      BY <2>3, <3>1, <3>2
    <3>4. (a \o u) \o rest = a \o (u \o rest)
      BY <2>1, <2>2
    <3> QED
      BY <2>4, <3>3, <3>4
  <2> QED
    BY <2>1, <2>4, <2>5 DEF P, t, u, rest
<1>9. \A c \in S : c \in P
  <2>1. P \in SUBSET S
    OBVIOUS
  <2>2. \A c \in C : step[c] \in P => c \in P
    <3> HIDE DEF P
    <3> QED
      BY <1>8
  <2> HIDE DEF P
  <2>3. Terminates(S, C, step, measure, N)
    OBVIOUS
  <2> QED
    BY ONLY <1>7, <2>1, <2>2, <2>3, LoopInduction
<1>10. f \in [S -> A]
  BY <1>2, <1>6
<1>11. ASSUME NEW c \in S
       PROVE  f[c] = IF c \in C THEN piece[c] \o f[step[c]] ELSE <<>>
  <2>1. CASE c \in C
    <3>1. step[c] \in S /\ step[c] \in P
      BY <1>1, <1>9, <2>1
    <3> HIDE DEF P
    <3>2. g[<<c, <<>>>>] = piece[c] \o g[<<step[c], <<>>>>]
      BY <1>8, <2>1, <3>1
    <3> QED
      BY <2>1, <3>1, <3>2
  <2>2. CASE c \notin C
    BY <1>2, <1>5, <2>2
  <2> QED
    BY <2>1, <2>2
<1> HIDE DEF f
<1> QED
  BY <1>10, <1>11 DEF Builds

(* FlattenSeq adds one sequence after the other.                           *)
FlattensTo(f, seqs, S) ==
  /\ f \in [0 .. Len(seqs) -> Seq(S)]
  /\ f[0] = <<>>
  /\ \A n \in 1 .. Len(seqs) : f[n] = f[n - 1] \o seqs[n]

(* FlattenSeq appends one sequence after the other.                        *)
LEMMA FlattenRuns ==
  ASSUME NEW S, NEW seqs \in Seq(Seq(S))
  PROVE  \E f : FlattensTo(f, seqs, S) /\ FlattenSeq(seqs) = f[Len(seqs)]
<1>1. CASE seqs = <<>>
  <2> DEFINE f == [n \in 0 .. 0 |-> <<>>]
  <2>1. FlattensTo(f, seqs, S)
    BY <1>1, EmptySeq DEF FlattensTo
  <2>2. FlattenSeq(seqs) = f[Len(seqs)]
    BY <1>1, EmptySeq DEF FlattenSeq
  <2> HIDE DEF f
  <2> QED
    BY <2>1, <2>2
<1>2. CASE seqs # <<>>
  <2> DEFINE N == Len(seqs)
             step == [n \in 1 .. N |-> [s \in Seq(S) |-> s \o seqs[n]]]
  <2>1. N \in Nat /\ N >= 1 /\ \A n \in 1 .. N : seqs[n] \in Seq(S)
    BY <1>2, LenProperties, ElementOfSeq, EmptySeq
  <2>2. step \in [1 .. N -> [Seq(S) -> Seq(S)]]
    BY <2>1, ConcatProperties
  <2>3. PICK f \in [0 .. N -> Seq(S)] : f[0] = <<>> /\ \A n \in 1 .. N : f[n] = step[n][f[n - 1]]
    <3>1. <<>> \in Seq(S)
      BY EmptySeq
    <3>2. N \in Nat /\ step \in Steps(N, Seq(S))
      BY <2>1, <2>2 DEF Steps
    <3>3. \E f : Runs(f, N, Seq(S), <<>>, step)
      <4> HIDE DEF step, N
      <4> QED
        BY <3>1, <3>2, Recursion
    <3> HIDE DEF step, N
    <3> QED
      BY <3>3 DEF Runs
  <2> DEFINE Concat(h) == h = [i \in 1 .. N |-> IF i = 1 THEN seqs[i] ELSE h[i - 1] \o seqs[i]]
             g == [i \in 1 .. N |-> f[i]]
             flat == CHOOSE h : Concat(h)
  <2>4. \A n \in 1 .. N : f[n - 1] \in Seq(S) /\ f[n] = f[n - 1] \o seqs[n]
    <3>1. \A n \in 1 .. N : n - 1 \in 0 .. N
      BY <2>1
    <3>2. \A n \in 1 .. N : f[n - 1] \in Seq(S)
      BY <3>1
    <3> QED
      BY <2>3, <3>2
  <2>5. \A n \in 1 .. N : f[n] = IF n = 1 THEN seqs[n] ELSE f[n - 1] \o seqs[n]
    <3>1. 1 \in 1 .. N /\ seqs[1] \in Seq(S)
      BY <2>1
    <3>2. <<>> \o seqs[1] = seqs[1]
      BY <3>1, ConcatEmptySeq
    <3>3. f[1 - 1] = <<>>
      BY <2>3
    <3> HIDE DEF step
    <3> QED
      BY <2>4, <3>2, <3>3
  <2>6. Concat(g)
    BY <2>1, <2>5
  <2>7. Concat(flat)
    <3> HIDE DEF Concat, g
    <3> QED
      BY <2>6
  <2>8. \A n \in 1 .. N : flat[n] = f[n]
    <3> DEFINE T == {n \in 0 .. N : n = 0 \/ flat[n] = f[n]}
    <3>1. 0 \in T
      BY <2>1
    <3>2. ASSUME NEW n \in 1 .. N, n - 1 \in T
          PROVE  n \in T
      <4>1. flat[n] = IF n = 1 THEN seqs[n] ELSE flat[n - 1] \o seqs[n]
        <5> HIDE DEF flat
        <5> QED
          BY <2>7
      <4> HIDE DEF flat
      <4> QED
        BY <2>5, <3>2, <4>1
    <3>3. \A n \in 0 .. N : n \in T
      <4>1. \A n \in 1 .. N : n - 1 \in T => n \in T
        BY <3>2
      <4>2. N \in Nat
        BY <2>1
      <4> HIDE DEF T, N
      <4> QED
        BY <3>1, <4>1, <4>2, InductionTo
    <3> HIDE DEF flat
    <3> QED
      BY <3>3
  <2>9. FlattenSeq(seqs) = flat[N]
    BY <2>1 DEF FlattenSeq
  <2>10. FlattenSeq(seqs) = f[N]
    <3>1. N \in 1 .. N
      BY <2>1
    <3> HIDE DEF flat, step
    <3> QED
      BY <2>8, <2>9, <3>1
  <2>11. FlattensTo(f, seqs, S)
    BY <2>3, <2>4 DEF FlattensTo
  <2> QED
    BY <2>10, <2>11
<1> QED
  BY <1>1, <1>2

(* The concatenation of sequences over a set is one over that set.         *)
LEMMA FlattenType ==
  ASSUME NEW S, NEW seqs \in Seq(Seq(S))
  PROVE  FlattenSeq(seqs) \in Seq(S)
<1>1. PICK f : FlattensTo(f, seqs, S) /\ FlattenSeq(seqs) = f[Len(seqs)]
  BY FlattenRuns
<1>2. Len(seqs) \in 0 .. Len(seqs)
  BY LenProperties
<1> QED
  BY <1>1, <1>2 DEF FlattensTo

(* One sequence is itself.                                                 *)
LEMMA FlattenOne ==
  ASSUME NEW S, NEW seq \in Seq(S)
  PROVE  FlattenSeq(<<seq>>) = seq
<1>1. <<seq>> \in Seq(Seq(S)) /\ Len(<<seq>>) = 1 /\ <<seq>>[1] = seq
  OBVIOUS
<1>2. PICK f : FlattensTo(f, <<seq>>, S) /\ FlattenSeq(<<seq>>) = f[Len(<<seq>>)]
  BY <1>1, FlattenRuns
<1>3. f[1] = f[1 - 1] \o seq /\ f[1 - 1] = <<>>
  <2>1. f[0] = <<>> /\ \A n \in 1 .. 1 : f[n] = f[n - 1] \o <<seq>>[n]
    BY <1>1, <1>2 DEF FlattensTo
  <2>2. f[1] = f[1 - 1] \o <<seq>>[1]
    BY <2>1
  <2>3. f[1 - 1] = <<>>
    BY <2>1
  <2> QED
    BY <1>1, <2>2, <2>3
<1>4. <<>> \o seq = seq
  BY ConcatEmptySeq
<1> QED
  BY <1>1, <1>2, <1>3, <1>4

(* What is concatenated first comes first.                                 *)
LEMMA FlattenConcat ==
  ASSUME NEW S, NEW s \in Seq(Seq(S)), NEW t \in Seq(Seq(S))
  PROVE  FlattenSeq(s \o t) = FlattenSeq(s) \o FlattenSeq(t)
<1> DEFINE N == Len(s)
           M == Len(t)
           u == s \o t
<1>1. /\ u \in Seq(Seq(S)) /\ N \in Nat /\ M \in Nat /\ Len(u) = N + M
      /\ \A n \in 1 .. N : u[n] = s[n]
      /\ \A n \in 1 .. M : u[N + n] = t[n] /\ t[n] \in Seq(S)
  BY LenProperties, ElementOfSeq, ConcatProperties
<1> HIDE DEF N, M, u
<1>2. PICK f : FlattensTo(f, s, S) /\ FlattenSeq(s) = f[N]
  BY FlattenRuns DEF N
<1>3. PICK g : FlattensTo(g, t, S) /\ FlattenSeq(t) = g[M]
  BY FlattenRuns DEF M
<1>4. PICK h : FlattensTo(h, u, S) /\ FlattenSeq(u) = h[N + M]
  BY <1>1, FlattenRuns
<1>5. /\ f[0] = <<>> /\ \A n \in 1 .. N : f[n] = f[n - 1] \o s[n]
      /\ f \in [0 .. N -> Seq(S)]
  BY <1>2 DEF FlattensTo, N
<1>6. /\ g[0] = <<>> /\ \A n \in 1 .. M : g[n] = g[n - 1] \o t[n]
      /\ g \in [0 .. M -> Seq(S)]
  BY <1>3 DEF FlattensTo, M
<1>7. h[0] = <<>> /\ \A n \in 1 .. N + M : h[n] = h[n - 1] \o u[n]
  BY <1>1, <1>4 DEF FlattensTo
<1>8. \A n \in 0 .. N : f[n] = h[n]
  <2>1. \A n \in 1 .. N : n \in 1 .. N + M
    BY <1>1
  <2>2. \A n \in 1 .. N : f[n - 1] = h[n - 1] => f[n] = h[n]
    BY <1>1, <1>5, <1>7, <2>1
  <2>3. f[0] = h[0]
    BY <1>5, <1>7
  <2>4. N \in Nat
    BY <1>1
  <2> DEFINE T == {n \in 0 .. N : f[n] = h[n]}
  <2>5. 0 \in T
    BY ONLY <2>3, <2>4
  <2>6. \A n \in 1 .. N : n - 1 \in T => n \in T
    BY ONLY <2>2, <2>4
  <2>7. \A n \in 0 .. N : n \in T
    <3> HIDE DEF T
    <3> QED
      BY ONLY <2>4, <2>5, <2>6, InductionTo
  <2> QED
    BY ONLY <2>7
<1>9. f[N] \in Seq(S) /\ h[N] = f[N]
  BY <1>1, <1>5, <1>8
<1> DEFINE T == {n \in 0 .. M : h[N + n] = f[N] \o g[n]}
<1>10. 0 \in T
  <2>1. f[N] \o <<>> = f[N]
    BY <1>9, ConcatEmptySeq
  <2>2. N + 0 = N /\ 0 \in 0 .. M
    BY <1>1
  <2> QED
    BY <1>6, <1>9, <2>1, <2>2
<1>11. ASSUME NEW n \in 1 .. M, n - 1 \in T
       PROVE  n \in T
  <2>1. N + n \in 1 .. N + M /\ (N + n) - 1 = N + (n - 1) /\ n - 1 \in 0 .. M
    <3>1. N \in Nat /\ M \in Nat /\ n \in 1 .. M
      BY <1>1
    <3> QED
      BY ONLY <3>1
  <2>2. h[N + n] = h[(N + n) - 1] \o u[N + n]
    BY <1>7, <2>1
  <2>3. h[N + n] = (f[N] \o g[n - 1]) \o t[n]
    BY <1>1, <1>11, <2>1, <2>2
  <2>4. g[n - 1] \in Seq(S) /\ t[n] \in Seq(S) /\ f[N] \in Seq(S)
    <3> HIDE DEF T
    <3> QED
      BY <1>1, <1>6, <1>9, <2>1
  <2>5. (f[N] \o g[n - 1]) \o t[n] = f[N] \o (g[n - 1] \o t[n])
    <3>1. ASSUME NEW a \in Seq(S), NEW b \in Seq(S), NEW c \in Seq(S)
          PROVE  (a \o b) \o c = a \o (b \o c)
      OBVIOUS
    <3> HIDE DEF T
    <3> QED
      BY <2>4, <3>1
  <2>6. g[n] = g[n - 1] \o t[n]
    BY <1>6, Zenon
  <2>7. n \in 0 .. M
    BY <1>1
  <2> QED
    BY <2>3, <2>5, <2>6, <2>7
<1>12. \A n \in 0 .. M : n \in T
  <2>1. \A n \in 1 .. M : n - 1 \in T => n \in T
    BY <1>11
  <2> HIDE DEF T
  <2> QED
    BY <1>1, <1>10, <2>1, InductionTo
<1>13. h[N + M] = f[N] \o g[M]
  <2>1. M \in 0 .. M
    BY <1>1
  <2> QED
    BY <1>12, <2>1
<1> QED
  BY <1>2, <1>3, <1>4, <1>13 DEF u

(* What is in a concatenation, and when each of it is there once.          *)
LEMMA ConcatSet ==
  ASSUME NEW S, NEW s \in Seq(S), NEW t \in Seq(S)
  PROVE  ToSet(s \o t) = ToSet(s) \cup ToSet(t)
<1> DEFINE u == s \o t
           m == Len(s)
           n == Len(t)
<1>1. /\ m \in Nat /\ n \in Nat /\ DOMAIN s = 1 .. m /\ DOMAIN t = 1 .. n
      /\ DOMAIN u = 1 .. m + n
      /\ \A k \in 1 .. m : u[k] = s[k]
      /\ \A k \in 1 .. n : u[m + k] = t[k]
  BY ConcatProperties, LenProperties
<1>2. \A k \in 1 .. m + n : (k \in 1 .. m) \/ (k - m \in 1 .. n /\ m + (k - m) = k)
  BY <1>1
<1>3. \A k \in 1 .. m : k \in 1 .. m + n
  BY <1>1
<1>4. \A k \in 1 .. n : m + k \in 1 .. m + n
  BY <1>1
<1> HIDE DEF u, m, n
<1>5. ToSet(u) \subseteq ToSet(s) \cup ToSet(t)
  <2>1. ASSUME NEW k \in 1 .. m + n
        PROVE  u[k] \in ToSet(s) \cup ToSet(t)
    <3>1. CASE k \in 1 .. m
      BY <1>1, <3>1 DEF ToSet
    <3>2. CASE k - m \in 1 .. n /\ m + (k - m) = k
      <4>1. u[k] = t[k - m]
        BY <1>1, <3>2
      <4> QED
        BY <1>1, <3>2, <4>1 DEF ToSet
    <3> QED
      BY <1>2, <3>1, <3>2
  <2> QED
    BY <1>1, <2>1 DEF ToSet
<1>6. ToSet(s) \subseteq ToSet(u)
  BY <1>1, <1>3 DEF ToSet
<1>7. ToSet(t) \subseteq ToSet(u)
  BY <1>1, <1>4 DEF ToSet
<1> QED
  BY <1>5, <1>6, <1>7 DEF u

(* Two sequences without a common member, each of different members.       *)
LEMMA ConcatInjective ==
  ASSUME NEW S, NEW s \in Seq(S), NEW t \in Seq(S),
         IsInjective(s), IsInjective(t), ToSet(s) \cap ToSet(t) = {}
  PROVE  IsInjective(s \o t)
<1> DEFINE u == s \o t
           m == Len(s)
           n == Len(t)
<1>1. /\ m \in Nat /\ n \in Nat /\ DOMAIN s = 1 .. m /\ DOMAIN t = 1 .. n
      /\ DOMAIN u = 1 .. m + n
      /\ \A k \in 1 .. m : u[k] = s[k]
      /\ \A k \in 1 .. n : u[m + k] = t[k]
  BY ConcatProperties, LenProperties
<1>2. \A k \in 1 .. m + n : (k \in 1 .. m) \/ (k - m \in 1 .. n /\ m + (k - m) = k)
  BY <1>1
<1> HIDE DEF u, m, n
<1>3. \A j \in 1 .. m, k \in 1 .. n : s[j] # t[k]
  BY <1>1 DEF ToSet
<1>4. \A j, k \in 1 .. m : s[j] = s[k] => j = k
  BY <1>1 DEF IsInjective
<1>5. \A j, k \in 1 .. n : t[j] = t[k] => j = k
  BY <1>1 DEF IsInjective
<1>6. \A k \in 1 .. m + n : \/ (k \in 1 .. m /\ u[k] = s[k])
                             \/ (k - m \in 1 .. n /\ u[k] = t[k - m])
  BY <1>1, <1>2
<1>7. ASSUME NEW j \in 1 .. m + n, NEW k \in 1 .. m + n, u[j] = u[k]
      PROVE  j = k
  <2>1. CASE j \in 1 .. m /\ k \in 1 .. m
    BY <1>1, <1>4, <1>7, <2>1
  <2>2. CASE j - m \in 1 .. n /\ u[j] = t[j - m] /\ k - m \in 1 .. n /\ u[k] = t[k - m]
    <3>1. j - m = k - m
      BY <1>5, <1>7, <2>2
    <3> QED
      BY <1>1, <3>1
  <2> QED
    BY <1>3, <1>6, <1>7, <2>1, <2>2
<1> QED
  BY <1>1, <1>7 DEF IsInjective, u

(* The members of all the sequences.                                       *)
LEMMA FlattenedSet ==
  ASSUME NEW S, NEW seqs \in Seq(Seq(S))
  PROVE  ToSet(FlattenSeq(seqs)) = UNION {ToSet(seqs[n]) : n \in 1 .. Len(seqs)}
<1> DEFINE N == Len(seqs)
           upTo(n) == UNION {ToSet(seqs[m]) : m \in 1 .. n}
<1>1. N \in Nat /\ \A n \in 1 .. N : seqs[n] \in Seq(S)
  BY LenProperties, ElementOfSeq
<1>2. PICK f : FlattensTo(f, seqs, S) /\ FlattenSeq(seqs) = f[N]
  BY FlattenRuns
<1> HIDE DEF N
<1>3. f \in [0 .. N -> Seq(S)] /\ f[0] = <<>> /\ \A n \in 1 .. N : f[n] = f[n - 1] \o seqs[n]
  BY <1>2 DEF FlattensTo, N
<1> DEFINE T == {n \in 0 .. N : ToSet(f[n]) = upTo(n)}
<1>4. 0 \in T
  <2>1. ToSet(<<>>) = {} /\ upTo(0) = {} /\ 0 \in 0 .. N
    BY <1>1 DEF ToSet
  <2> QED
    BY <1>3, <2>1
<1>5. ASSUME NEW n \in 1 .. N, n - 1 \in T
      PROVE  n \in T
  <2>1. n - 1 \in 0 .. N /\ n \in 0 .. N
    BY <1>1
  <2>2. f[n - 1] \in Seq(S) /\ seqs[n] \in Seq(S) /\ f[n] = f[n - 1] \o seqs[n]
    <3> HIDE DEF T
    <3> QED
      BY <1>1, <1>3, <2>1
  <2>3. ToSet(f[n]) = ToSet(f[n - 1]) \cup ToSet(seqs[n])
    <3>1. ToSet(f[n - 1] \o seqs[n]) = ToSet(f[n - 1]) \cup ToSet(seqs[n])
      BY ONLY <2>2, ConcatSet
    <3> QED
      BY ONLY <2>2, <3>1
  <2>4. upTo(n) = upTo(n - 1) \cup ToSet(seqs[n])
    <3>1. 1 .. n = 1 .. n - 1 \cup {n}
      BY <1>1
    <3> QED
      BY ONLY <3>1
  <2> QED
    BY <1>5, <2>1, <2>3, <2>4
<1>6. \A n \in 0 .. N : n \in T
  <2>1. \A n \in 1 .. N : n - 1 \in T => n \in T
    BY <1>5
  <2> HIDE DEF T
  <2> QED
    BY ONLY <1>1, <1>4, <2>1, InductionTo
<1>7. ToSet(f[N]) = upTo(N)
  <2>1. N \in 0 .. N
    BY <1>1
  <2> QED
    BY <1>6, <2>1
<1> QED
  BY <1>2, <1>7 DEF N

(* Sequences without common members, each of different members.            *)
LEMMA FlattenInjective ==
  ASSUME NEW S, NEW seqs \in Seq(Seq(S)),
         \A n \in 1 .. Len(seqs) : IsInjective(seqs[n]),
         \A m, n \in 1 .. Len(seqs) : m < n => ToSet(seqs[m]) \cap ToSet(seqs[n]) = {}
  PROVE  IsInjective(FlattenSeq(seqs))
<1> DEFINE N == Len(seqs)
           before(n) == UNION {ToSet(seqs[m]) : m \in 1 .. n - 1}
<1>1. N \in Nat /\ \A n \in 1 .. N : seqs[n] \in Seq(S)
  BY LenProperties, ElementOfSeq
<1>2. PICK f : FlattensTo(f, seqs, S) /\ FlattenSeq(seqs) = f[N]
  BY FlattenRuns
<1>3. \A n \in 1 .. N : before(n) \cap ToSet(seqs[n]) = {}
  <2>1. \A n \in 1 .. N : \A m \in 1 .. n - 1 : m \in 1 .. N /\ m < n
    BY <1>1
  <2> QED
    BY <2>1
<1> HIDE DEF N
<1>4. f \in [0 .. N -> Seq(S)] /\ f[0] = <<>> /\ \A n \in 1 .. N : f[n] = f[n - 1] \o seqs[n]
  BY <1>2 DEF FlattensTo, N
<1> DEFINE T == {n \in 0 .. N : IsInjective(f[n]) /\ ToSet(f[n]) = before(n + 1)}
<1>5. 0 \in T
  <2>1. IsInjective(<<>>)
    BY DEF IsInjective
  <2>2. ToSet(<<>>) = {} /\ before(0 + 1) = {} /\ 0 \in 0 .. N
    BY <1>1 DEF ToSet
  <2> QED
    BY <1>4, <2>1, <2>2
<1>6. ASSUME NEW n \in 1 .. N, n - 1 \in T
      PROVE  n \in T
  <2>1. n - 1 \in 0 .. N /\ n \in 0 .. N /\ (n - 1) + 1 = n
    BY <1>1
  <2>2. f[n - 1] \in Seq(S) /\ seqs[n] \in Seq(S) /\ f[n] = f[n - 1] \o seqs[n]
    <3> HIDE DEF T
    <3> QED
      BY <1>1, <1>4, <2>1
  <2>3. IsInjective(f[n - 1]) /\ ToSet(f[n - 1]) = before(n)
    BY <1>6, <2>1
  <2>4. ToSet(f[n]) = ToSet(f[n - 1]) \cup ToSet(seqs[n])
    <3>1. ToSet(f[n - 1] \o seqs[n]) = ToSet(f[n - 1]) \cup ToSet(seqs[n])
      BY ONLY <2>2, ConcatSet
    <3> QED
      BY ONLY <2>2, <3>1
  <2>5. IsInjective(f[n])
    <3>1. ToSet(f[n - 1]) \cap ToSet(seqs[n]) = {}
      BY <1>3, <2>3
    <3>2. IsInjective(seqs[n])
      BY DEF N
    <3>3. IsInjective(f[n - 1] \o seqs[n])
      BY ONLY <2>2, <2>3, <3>1, <3>2, ConcatInjective
    <3> QED
      BY ONLY <2>2, <3>3
  <2>6. before(n + 1) = before(n) \cup ToSet(seqs[n])
    <3>1. 1 .. (n + 1) - 1 = 1 .. n - 1 \cup {n}
      BY <1>1
    <3> QED
      BY ONLY <3>1
  <2> QED
    BY <2>1, <2>3, <2>4, <2>5, <2>6
<1>7. \A n \in 0 .. N : n \in T
  <2>1. \A n \in 1 .. N : n - 1 \in T => n \in T
    BY <1>6
  <2> HIDE DEF T
  <2> QED
    BY ONLY <1>1, <1>5, <2>1, InductionTo
<1>8. IsInjective(f[N])
  <2>1. N \in 0 .. N
    BY <1>1
  <2> QED
    BY <1>7, <2>1
<1> QED
  BY <1>2, <1>8 DEF N
=============================================================================
