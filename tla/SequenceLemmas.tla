--------------------------- MODULE SequenceLemmas ---------------------------
(***************************************************************************)
(* Induction for the proofs of this directory.  The library's induction    *)
(* theorems speak of a predicate, which the provers cannot instantiate;    *)
(* here induction is about a set of numbers, and a definition by recursion *)
(* over a sequence about a function that gives each step.                  *)
(***************************************************************************)
EXTENDS Queues, SequencesExt, SequenceTheorems, WellFoundedInduction, TLAPS

(* A set that contains 0 and with a number its successor contains them     *)
(* all: otherwise take the least number missing.                           *)
LessThan == {p \in Nat \X Nat : p[1] < p[2]}
LEMMA Induction ==
  ASSUME NEW T, 0 \in T, \A n \in Nat : n \in T => n + 1 \in T
  PROVE  Nat \subseteq T
<1> SUFFICES ASSUME Nat \ T # {} PROVE FALSE
  OBVIOUS
<1>1. IsWellFoundedOn(LessThan, Nat)
  BY NatLessThanWellFounded DEF LessThan, OpToRel
<1>2. PICK n \in Nat \ T : \A m \in Nat \ T : ~ (<<m, n>> \in LessThan)
  <2>1. Nat \ T \subseteq Nat
    OBVIOUS
  <2> QED BY <1>1, <2>1, WFMin, Zenon
<1>3. n # 0
  OBVIOUS
<1>4. n - 1 \in Nat /\ n - 1 < n
  BY <1>3
<1>5. <<n - 1, n>> \in LessThan
  <2>1. <<n - 1, n>> \in Nat \X Nat /\ <<n - 1, n>>[1] = n - 1 /\ <<n - 1, n>>[2] = n
    BY <1>4
  <2> QED BY <1>4, <2>1 DEF LessThan
<1>6. n - 1 \in T
  BY <1>2, <1>4, <1>5
<1>7. (n - 1) + 1 = n
  OBVIOUS
<1> QED BY <1>4, <1>6, <1>7

(* The same up to a bound.                                                 *)
LEMMA BoundedInduction ==
  ASSUME NEW N \in Nat, NEW T, 0 \in T, \A n \in 1..N : n - 1 \in T => n \in T
  PROVE  0..N \subseteq T
<1> DEFINE U == {n \in Nat : n <= N => n \in T}
<1>1. 0 \in U
  OBVIOUS
<1>2. \A n \in Nat : n \in U => n + 1 \in U
  <2> SUFFICES ASSUME NEW n \in Nat, n \in U, n + 1 <= N PROVE n + 1 \in T
    OBVIOUS
  <2>1. n + 1 \in 1..N /\ (n + 1) - 1 = n /\ n \in T
    OBVIOUS
  <2> QED BY <2>1
<1> HIDE DEF U
<1>3. Nat \subseteq U
  BY <1>1, <1>2, Induction
<1> QED BY <1>3 DEF U

(* What a recursive definition needs to be one: there is a function that   *)
(* starts from base and takes each step as given.                          *)
IsStep(step, V, N) == step \in [V \X (1..N) -> V]
Follows(g, V, N, base, step) ==
  /\ g \in [0..N -> V]
  /\ g[0] = base
  /\ \A k \in 1..N : g[k] = step[<<g[k - 1], k>>]
LEMMA PrefixRecursion ==
  ASSUME NEW N \in Nat, NEW V, NEW base \in V, NEW step, IsStep(step, V, N)
  PROVE  \E g : Follows(g, V, N, base, step)
<1> USE DEF IsStep
<1> DEFINE Runs(g, n) == /\ g \in [0..n -> V] /\ g[0] = base
                         /\ \A k \in 1..n : g[k] = step[<<g[k - 1], k>>]
           T == {n \in 0..N : \E g : Runs(g, n)}
<1>1. 0 \in T
  <2>1. Runs([k \in 0..0 |-> base], 0)
    OBVIOUS
  <2> HIDE DEF Runs
  <2> QED BY <2>1
<1>2. ASSUME NEW n \in 1..N, n - 1 \in T PROVE n \in T
  <2>1. PICK g : Runs(g, n - 1)
    BY <1>2
  <2> DEFINE h == [k \in 0..n |-> IF k = n THEN step[<<g[n - 1], n>>] ELSE g[k]]
  <2>2. step[<<g[n - 1], n>>] \in V
    <3>1. n - 1 \in 0..(n - 1) /\ g[n - 1] \in V
      BY <2>1
    <3>2. <<g[n - 1], n>> \in V \X (1..N)
      BY <3>1
    <3> QED BY <3>2
  <2>3. h \in [0..n -> V]
    <3> SUFFICES ASSUME NEW k \in 0..n, k # n PROVE g[k] \in V
      BY <2>2
    <3>1. k \in 0..(n - 1)
      OBVIOUS
    <3> QED BY <2>1, <3>1
  <2>4. h[0] = base
    BY <2>1
  <2>5. ASSUME NEW k \in 1..n PROVE h[k] = step[<<h[k - 1], k>>]
    <3>1. h[k - 1] = g[k - 1]
      OBVIOUS
    <3>2. CASE k = n
      <4>1. h[n] = step[<<g[n - 1], n>>]
        OBVIOUS
      <4> HIDE DEF h
      <4> QED BY <3>1, <3>2, <4>1
    <3>3. CASE k # n
      <4>1. k \in 1..(n - 1) /\ h[k] = g[k]
        BY <3>3
      <4> QED BY <2>1, <3>1, <4>1
    <3> QED BY <3>2, <3>3
  <2>6. Runs(h, n)
    BY <2>3, <2>4, <2>5
  <2> HIDE DEF Runs, h
  <2> QED BY <2>6
<1>3. 0..N \subseteq T
  <2> HIDE DEF T
  <2> QED BY <1>1, <1>2, BoundedInduction
<1>4. PICK g : Runs(g, N)
  <2>1. N \in 0..N
    OBVIOUS
  <2> HIDE DEF Runs
  <2>2. N \in T
    <3> HIDE DEF T
    <3> QED BY <1>3, <2>1, Zenon
  <2> QED BY <2>2
<1> QED BY <1>4 DEF Follows
-----------------------------------------------------------------------------
(* The elements of a sequence that grows or shrinks by one.                *)
LEMMA RangeOfAppend ==
  ASSUME NEW S, NEW s \in Seq(S), NEW e
  PROVE  Range(Append(s, e)) = Range(s) \cup {e}
<1>1. /\ Len(s) \in Nat /\ DOMAIN s = 1..Len(s)
      /\ DOMAIN Append(s, e) = 1..(Len(s) + 1) /\ Append(s, e)[Len(s) + 1] = e
      /\ \A i \in 1..Len(s) : Append(s, e)[i] = s[i]
  OBVIOUS
<1> DEFINE t == Append(s, e)
<1> HIDE DEF t
<1>2. Range(t) \subseteq Range(s) \cup {e}
  BY <1>1 DEF Range, t
<1>3. Range(s) \subseteq Range(t)
  BY <1>1 DEF Range, t
<1>4. e \in Range(t)
  BY <1>1 DEF Range, t
<1> QED BY <1>2, <1>3, <1>4 DEF t

LEMMA RangeOfTail ==
  ASSUME NEW S, NEW s \in Seq(S), s # <<>>
  PROVE  Range(s) = {Head(s)} \cup Range(Tail(s))
<1> DEFINE t == Tail(s)
<1>1. /\ Len(t) \in Nat /\ DOMAIN s = 1..(Len(t) + 1) /\ s[1] = Head(s)
      /\ DOMAIN t = 1..Len(t) /\ \A i \in 1..Len(t) : t[i] = s[i + 1]
  OBVIOUS
<1> HIDE DEF t
<1>2. Range(t) \subseteq Range(s) /\ Head(s) \in Range(s)
  BY <1>1 DEF Range
<1>3. Range(s) \subseteq {Head(s)} \cup Range(t)
  <2> SUFFICES ASSUME NEW i \in 1..(Len(t) + 1), i # 1 PROVE s[i] \in Range(t)
    BY <1>1 DEF Range
  <2>1. i - 1 \in 1..Len(t) /\ (i - 1) + 1 = i
    BY <1>1
  <2>2. t[i - 1] = s[i]
    BY <1>1, <2>1
  <2> QED BY <1>1, <2>1, <2>2 DEF Range
<1> QED BY <1>2, <1>3 DEF t

(* Moving the first element of one sequence to the end of another leaves   *)
(* their concatenation.                                                    *)
LEMMA MoveHead ==
  ASSUME NEW S, NEW s \in Seq(S), NEW t \in Seq(S), t # <<>>
  PROVE  Append(s, Head(t)) \o Tail(t) = s \o t
<1> DEFINE m == Len(s)
           n == Len(t)
           u == Append(s, Head(t)) \o Tail(t)
<1>1. /\ m \in Nat /\ n \in Nat \ {0}
      /\ Append(s, Head(t)) \in Seq(S) /\ Tail(t) \in Seq(S)
      /\ Len(Append(s, Head(t))) = m + 1 /\ Len(Tail(t)) = n - 1
      /\ \A i \in 1..m : Append(s, Head(t))[i] = s[i]
      /\ Append(s, Head(t))[m + 1] = t[1]
      /\ \A i \in 1..(n - 1) : Tail(t)[i] = t[i + 1]
  OBVIOUS
<1>2. u \in Seq(S) /\ Len(u) = m + n
  BY <1>1
<1>3. s \o t \in Seq(S) /\ Len(s \o t) = m + n
  BY <1>1
<1>4. ASSUME NEW i \in 1..(m + n) PROVE u[i] = (s \o t)[i]
  <2>1. CASE i <= m
    BY <1>1, <2>1
  <2>2. CASE i = m + 1
    BY <1>1, <2>2
  <2>3. CASE i > m + 1
    <3>1. i - (m + 1) \in 1..(n - 1) /\ (i - (m + 1)) + 1 = i - m
      BY <1>1, <2>3
    <3>2. u[i] = Tail(t)[i - (m + 1)] /\ (s \o t)[i] = t[i - m]
      BY <1>1, <2>3
    <3> QED BY <1>1, <3>1, <3>2
  <2> QED BY <1>1, <2>1, <2>2, <2>3
<1> HIDE DEF u, m, n
<1> QED BY <1>2, <1>3, <1>4, SeqEqual DEF u

(* A sequence ends with what was appended to it last.                      *)
LEMMA SuffixOfConcat ==
  ASSUME NEW S, NEW u \in Seq(S), NEW f \in Seq(S)
  PROVE  IsSuffix(f, u \o f)
<1> DEFINE t == u \o f
           m == Len(u)
           n == Len(f)
<1>1. /\ m \in Nat /\ n \in Nat /\ t \in Seq(S) /\ Len(t) = m + n
      /\ \A i \in 1..n : t[m + i] = f[i]
  OBVIOUS
<1>2. Reverse(f) = [i \in 1..n |-> f[(n - i) + 1]]
  BY DEF Reverse
<1>3. Reverse(t) = [i \in 1..(m + n) |-> t[((m + n) - i) + 1]]
  BY <1>1 DEF Reverse
<1> HIDE DEF t, m, n
<1>4. \A i \in 1..n : t[((m + n) - i) + 1] = f[(n - i) + 1]
  <2> SUFFICES ASSUME NEW i \in 1..n PROVE t[((m + n) - i) + 1] = f[(n - i) + 1]
    OBVIOUS
  <2>1. (n - i) + 1 \in 1..n /\ ((m + n) - i) + 1 = m + ((n - i) + 1)
    BY <1>1
  <2> QED BY <1>1, <2>1
<1>5. Len(Reverse(f)) = n /\ Len(Reverse(t)) = m + n
  BY <1>1, <1>2, <1>3
<1>6. SubSeq(Reverse(f), 1, n) = [i \in 1..n |-> f[(n - i) + 1]]
  BY <1>1, <1>2
<1>7. SubSeq(Reverse(t), 1, n) = [i \in 1..n |-> t[((m + n) - i) + 1]]
  BY <1>1, <1>3
<1>8. SubSeq(Reverse(f), 1, n) = SubSeq(Reverse(t), 1, n)
  BY <1>4, <1>6, <1>7
<1>9. n <= m + n
  BY <1>1
<1> QED BY <1>5, <1>8, <1>9 DEF IsSuffix, IsPrefix, t

-----------------------------------------------------------------------------
(* Sums.                                                                   *)

IsSum(sum, s) ==
  /\ sum \in [0..Len(s) -> Nat]
  /\ sum[0] = 0
  /\ \A k \in 1..Len(s) : sum[k] = sum[k - 1] + s[k]

(* SumOf, a recursive function over the sequence, adds number by number.   *)
LEMMA SumExists ==
  ASSUME NEW s \in Seq(Nat)
  PROVE  \E sum : IsSum(sum, s) /\ SumOf(s) = sum[Len(s)]
<1> DEFINE N == Len(s)
           step == [p \in Nat \X (1..N) |-> p[1] + s[p[2]]]
           Rule(g) == [k \in 0..N |-> IF k = 0 THEN 0 ELSE g[k - 1] + s[k]]
           sum == CHOOSE g : g = Rule(g)
<1>1. N \in Nat /\ \A k \in 1..N : s[k] \in Nat
  OBVIOUS
<1>2. IsStep(step, Nat, N)
  BY <1>1 DEF IsStep
<1>3. PICK g : Follows(g, Nat, N, 0, step)
  <2>1. 0 \in Nat /\ N \in Nat
    OBVIOUS
  <2> HIDE DEF N, step
  <2> QED BY <1>2, <2>1, PrefixRecursion
<1>4. \A k \in 1..N : step[<<g[k - 1], k>>] = g[k - 1] + s[k]
  <2> SUFFICES ASSUME NEW k \in 1..N
               PROVE  step[<<g[k - 1], k>>] = g[k - 1] + s[k]
    OBVIOUS
  <2>1. k - 1 \in 0..N
    BY <1>1
  <2> HIDE DEF step, N
  <2>2. g[k - 1] \in Nat
    BY <1>3, <2>1 DEF Follows
  <2>3. <<g[k - 1], k>> \in Nat \X (1..N)
    BY <2>2
  <2> QED BY <2>3 DEF step, N
<1>5. g = Rule(g)
  <2>1. \A k \in 1..N : g[k] = g[k - 1] + s[k]
    BY <1>3, <1>4 DEF Follows
  <2>2. g = [k \in 0..N |-> g[k]]
    BY <1>3 DEF Follows
  <2>3. \A k \in 0..N : g[k] = IF k = 0 THEN 0 ELSE g[k - 1] + s[k]
    BY <1>1, <1>3, <2>1 DEF Follows
  <2> HIDE DEF N
  <2> QED BY <2>2, <2>3
<1>6. sum = Rule(sum)
  <2> HIDE DEF Rule
  <2> QED BY <1>5
<1>7. SumOf(s) = sum[N]
  BY DEF SumOf
<1>8. IsSum(sum, s)
  <2> HIDE DEF sum
  <2>1. /\ sum[0] = 0 /\ DOMAIN sum = 0..N
        /\ \A k \in 1..N : sum[k] = sum[k - 1] + s[k]
    BY <1>1, <1>6
  <2>2. \A k \in 0..N : sum[k] \in Nat
    <3> DEFINE T == {k \in 0..N : sum[k] \in Nat}
    <3>1. 0 \in T
      BY <1>1, <2>1
    <3>2. ASSUME NEW k \in 1..N, k - 1 \in T PROVE k \in T
      BY <1>1, <2>1, <3>2
    <3> HIDE DEF T, N
    <3>3. 0..N \subseteq T
      BY <1>1, <3>1, <3>2, BoundedInduction
    <3> QED BY <3>3 DEF T
  <2>3. sum = [k \in 0..N |-> sum[k]]
    BY <1>6
  <2> QED BY <2>1, <2>2, <2>3 DEF IsSum
<1> QED BY <1>7, <1>8

(* No other function does.                                                 *)
LEMMA SumIs ==
  ASSUME NEW s \in Seq(Nat), NEW sum, IsSum(sum, s)
  PROVE  SumOf(s) = sum[Len(s)]
<1>1. PICK g : IsSum(g, s) /\ SumOf(s) = g[Len(s)]
  BY SumExists
<1> DEFINE T == {k \in 0..Len(s) : g[k] = sum[k]}
<1>2. 0 \in T
  BY <1>1 DEF IsSum
<1>3. \A k \in 1..Len(s) : k - 1 \in T => k \in T
  BY <1>1 DEF IsSum
<1>4. Len(s) \in Nat
  OBVIOUS
<1> HIDE DEF T
<1>5. 0..Len(s) \subseteq T
  BY <1>2, <1>3, <1>4, BoundedInduction
<1> QED BY <1>1, <1>4, <1>5 DEF T

LEMMA SumNat ==
  ASSUME NEW s \in Seq(Nat)
  PROVE  SumOf(s) \in Nat
<1>1. Len(s) \in Nat
  OBVIOUS
<1> QED BY <1>1, SumExists DEF IsSum

LEMMA SumOfNone == SumOf(<<>>) = 0
<1>1. <<>> \in Seq(Nat) /\ Len(<<>>) = 0
  OBVIOUS
<1> QED BY <1>1, SumExists DEF IsSum

LEMMA PastTheFirst ==
  ASSUME NEW m \in Nat, NEW n \in Nat, NEW k \in 1..(m + n), k > m + 1
  PROVE  /\ k - m \in 1..n /\ (k - 1) - m = (k - m) - 1 /\ ~ (k <= m) /\ ~ (k - 1 <= m)
         /\ k \in (m + 1)..(m + n) /\ k - 1 \in 0..(m + n)
OBVIOUS

(* The sum of a concatenation.                                             *)
LEMMA SumOfConcat ==
  ASSUME NEW s \in Seq(Nat), NEW t \in Seq(Nat)
  PROVE  SumOf(s \o t) = SumOf(s) + SumOf(t)
<1> DEFINE M == Len(s)
           N == Len(t)
           u == s \o t
<1>1. PICK f : IsSum(f, s) /\ SumOf(s) = f[M]
  BY SumExists
<1>2. PICK g : IsSum(g, t) /\ SumOf(t) = g[N]
  BY SumExists
<1> DEFINE h == [k \in 0..(M + N) |-> IF k <= M THEN f[k] ELSE f[M] + g[k - M]]
<1>3. /\ M \in Nat /\ N \in Nat /\ u \in Seq(Nat) /\ Len(u) = M + N
      /\ \A k \in 1..M : u[k] = s[k]
      /\ \A k \in (M + 1)..(M + N) : u[k] = t[k - M]
  OBVIOUS
<1>4. f[M] \in Nat
  BY <1>1, <1>3 DEF IsSum
<1> HIDE DEF u, M, N
<1>5. ASSUME NEW k \in 0..(M + N), k > M PROVE k - M \in 0..N /\ g[k - M] \in Nat
  <2>1. k - M \in 0..N
    BY <1>3, <1>5
  <2> QED BY <1>2, <2>1 DEF IsSum, N
<1>6. h \in [0..(M + N) -> Nat]
  <2> SUFFICES ASSUME NEW k \in 0..(M + N) PROVE h[k] \in Nat
    OBVIOUS
  <2>1. CASE k <= M
    <3>1. k \in 0..M
      BY <1>3, <2>1
    <3> QED BY <1>1, <2>1, <3>1 DEF IsSum, M
  <2>2. CASE k > M
    <3>1. h[k] = f[M] + g[k - M]
      BY <1>3, <2>2
    <3>2. g[k - M] \in Nat
      BY <1>5, <2>2
    <3> HIDE DEF h
    <3> QED BY <1>4, <3>1, <3>2
  <2> QED BY <1>3, <2>1, <2>2
<1>7. h[0] = 0
  BY <1>1, <1>3 DEF IsSum
<1>8. ASSUME NEW k \in 1..(M + N) PROVE h[k] = h[k - 1] + u[k]
  <2>1. CASE k <= M
    <3>1. k \in 1..M /\ k - 1 \in 0..M /\ k - 1 <= M
      BY <1>3, <2>1
    <3>2. f[k] = f[k - 1] + s[k]
      BY <1>1, <3>1 DEF IsSum, M
    <3> QED BY <1>3, <2>1, <3>1, <3>2
  <2>2. CASE k = M + 1
    <3>1. 1 \in 1..N /\ k - M = 1 /\ k - 1 = M /\ k \in (M + 1)..(M + N) /\ ~ (k <= M)
      BY <1>3, <2>2
    <3>2. g[1] = g[1 - 1] + t[1] /\ g[0] = 0 /\ 1 - 1 = 0
      BY <1>2, <3>1 DEF IsSum, N
    <3>3. h[k] = f[M] + g[1] /\ h[k - 1] = f[M] /\ u[k] = t[1]
      <4>1. h[k] = f[M] + g[k - M]
        BY ONLY <3>1, k \in 1..(M + N), <1>3
      <4>2. h[k - 1] = f[M]
        <5>1. M \in 0..(M + N) /\ M <= M
          BY ONLY <1>3
        <5> QED BY ONLY <3>1, <5>1
      <4>3. u[k] = t[1]
        <5> HIDE DEF h
        <5> QED BY ONLY <1>3, <3>1
      <4> HIDE DEF h
      <4> QED BY ONLY <3>1, <4>1, <4>2, <4>3
    <3>4. t[1] \in Nat
      BY <3>1 DEF N
    <3> QED BY <1>4, <3>2, <3>3, <3>4
  <2>3. CASE k > M + 1
    <3>1. /\ k - M \in 1..N /\ (k - 1) - M = (k - M) - 1 /\ ~ (k <= M) /\ ~ (k - 1 <= M)
          /\ k \in (M + 1)..(M + N) /\ k - 1 \in 0..(M + N)
      <4> HIDE DEF h
      <4>1. M \in Nat /\ N \in Nat
        BY ONLY <1>3
      <4> QED BY ONLY <2>3, <4>1, k \in 1..(M + N), PastTheFirst
    <3>2. g[k - M] = g[(k - M) - 1] + t[k - M]
      BY <1>2, <3>1 DEF IsSum, N
    <3>3. h[k] = f[M] + g[k - M] /\ h[k - 1] = f[M] + g[(k - M) - 1] /\ u[k] = t[k - M]
      <4>1. h[k] = f[M] + g[k - M]
        BY ONLY <3>1, k \in 1..(M + N), <1>3
      <4>2. h[k - 1] = f[M] + g[(k - 1) - M]
        BY ONLY <3>1
      <4>3. u[k] = t[k - M]
        <5> HIDE DEF h
        <5> QED BY ONLY <1>3, <3>1
      <4> QED BY <3>1, <4>1, <4>2, <4>3
    <3>4. t[k - M] \in Nat /\ g[(k - M) - 1] \in Nat
      <4>1. (k - M) - 1 \in 0..N
        BY <1>3, <3>1
      <4> QED BY <1>2, <3>1, <4>1 DEF IsSum, N
    <3> QED BY <1>4, <3>2, <3>3, <3>4
  <2> QED BY <1>3, <2>1, <2>2, <2>3
<1>9. IsSum(h, u)
  BY <1>3, <1>6, <1>7, <1>8 DEF IsSum
<1>10. h[M + N] = f[M] + g[N]
  <2>1. CASE N = 0
    <3>1. g[N] = 0 /\ M + N = M
      BY <1>2, <1>3, <2>1 DEF IsSum
    <3> QED BY <1>3, <1>4, <3>1
  <2>2. CASE N # 0
    BY <1>3, <2>2
  <2> QED BY <2>1, <2>2
<1> HIDE DEF h
<1>11. SumOf(u) = h[M + N]
  BY <1>3, <1>9, SumIs
<1> QED BY <1>1, <1>2, <1>10, <1>11 DEF u, M, N

LEMMA SumOfOne ==
  ASSUME NEW n \in Nat
  PROVE  SumOf(<<n>>) = n
<1>1. <<n>> \in Seq(Nat) /\ Len(<<n>>) = 1
  OBVIOUS
<1>2. PICK sum : IsSum(sum, <<n>>) /\ SumOf(<<n>>) = sum[1]
  BY <1>1, SumExists
<1>3. 1 \in 1..1 /\ <<n>>[1] = n /\ 1 - 1 = 0
  OBVIOUS
<1> QED BY <1>1, <1>2, <1>3 DEF IsSum
-----------------------------------------------------------------------------
(* What the elements of a sequence weigh together.                         *)

Total(s, w) == SumOf([k \in DOMAIN s |-> w[s[k]]])

LEMMA Weights ==
  ASSUME NEW S, NEW s \in Seq(S), NEW w \in [S -> Nat]
  PROVE  /\ [k \in DOMAIN s |-> w[s[k]]] \in Seq(Nat)
         /\ Len([k \in DOMAIN s |-> w[s[k]]]) = Len(s)
         /\ Total(s, w) \in Nat
<1> DEFINE t == [k \in DOMAIN s |-> w[s[k]]]
<1>1. Len(s) \in Nat /\ DOMAIN s = 1..Len(s) /\ \A k \in 1..Len(s) : s[k] \in S
  OBVIOUS
<1>2. t \in Seq(Nat) /\ Len(t) = Len(s)
  BY <1>1
<1> HIDE DEF t
<1>3. SumOf(t) \in Nat
  BY <1>2, SumNat
<1> QED BY <1>2, <1>3 DEF Total, t

LEMMA TotalOfNone ==
  ASSUME NEW w
  PROVE  Total(<<>>, w) = 0
<1>1. [k \in DOMAIN <<>> |-> w[<<>>[k]]] = <<>>
  OBVIOUS
<1> QED BY <1>1, SumOfNone DEF Total

LEMMA TotalOfConcat ==
  ASSUME NEW S, NEW s \in Seq(S), NEW t \in Seq(S), NEW w \in [S -> Nat]
  PROVE  Total(s \o t, w) = Total(s, w) + Total(t, w)
<1> DEFINE u == s \o t
           f == [k \in DOMAIN s |-> w[s[k]]]
           g == [k \in DOMAIN t |-> w[t[k]]]
           h == [k \in DOMAIN u |-> w[u[k]]]
<1>1. u \in Seq(S)
  OBVIOUS
<1>2. f \in Seq(Nat) /\ Len(f) = Len(s) /\ g \in Seq(Nat) /\ Len(g) = Len(t)
  BY Weights
<1>3. h \in Seq(Nat) /\ Len(h) = Len(u)
  <2> HIDE DEF u
  <2> QED BY <1>1, Weights
<1>4. /\ Len(s) \in Nat /\ Len(t) \in Nat /\ Len(u) = Len(s) + Len(t)
      /\ \A k \in 1..(Len(s) + Len(t)) :
           u[k] = IF k <= Len(s) THEN s[k] ELSE t[k - Len(s)]
  OBVIOUS
<1>5. DOMAIN s = 1..Len(s) /\ DOMAIN t = 1..Len(t) /\ DOMAIN u = 1..Len(u)
  BY <1>1
<1> HIDE DEF u
<1>6. f \o g \in Seq(Nat) /\ Len(f \o g) = Len(s) + Len(t)
  <2> HIDE DEF f, g, h
  <2>1. f \o g \in Seq(Nat) /\ Len(f \o g) = Len(f) + Len(g)
    BY <1>2, ConcatProperties
  <2> QED BY <1>2, <2>1
<1>7. ASSUME NEW k \in 1..(Len(s) + Len(t)) PROVE h[k] = (f \o g)[k]
  <2>1. CASE k <= Len(s)
    <3>1. k \in 1..Len(s) /\ k \in 1..Len(u)
      BY <1>4, <2>1
    <3>2. f[k] = w[s[k]] /\ h[k] = w[s[k]]
      BY <1>4, <1>5, <2>1, <3>1
    <3>3. (f \o g)[k] = f[k]
      BY <1>2, <1>4, <2>1
    <3> QED BY <3>2, <3>3
  <2>2. CASE k > Len(s)
    <3>1. k - Len(s) \in 1..Len(t) /\ k \in 1..Len(u) /\ ~ (k <= Len(s))
      BY <1>4, <2>2
    <3>2. g[k - Len(s)] = w[t[k - Len(s)]] /\ h[k] = w[t[k - Len(s)]]
      BY <1>4, <1>5, <3>1
    <3>3. (f \o g)[k] = g[k - Len(s)]
      <4> HIDE DEF f, g, h
      <4>1. k \in 1..(Len(f) + Len(g)) /\ ~ (k <= Len(f))
        BY <1>2, <1>4, <3>1
      <4>2. (f \o g)[k] = g[k - Len(f)]
        BY ONLY <1>2, <4>1, f \in Seq(Nat), g \in Seq(Nat), ConcatProperties
      <4> QED BY <1>2, <4>2
    <3> QED BY <3>2, <3>3
  <2> QED BY <1>4, <2>1, <2>2
<1> HIDE DEF f, g, h
<1>8. h = f \o g
  BY <1>3, <1>4, <1>6, <1>7, SeqEqual
<1>9. SumOf(h) = SumOf(f) + SumOf(g)
  BY <1>2, <1>8, SumOfConcat
<1> QED BY <1>9 DEF Total, f, g, h, u

LEMMA TotalOfOne ==
  ASSUME NEW S, NEW e \in S, NEW w \in [S -> Nat]
  PROVE  Total(<<e>>, w) = w[e]
<1>1. [k \in DOMAIN <<e>> |-> w[<<e>>[k]]] = <<w[e]>>
  OBVIOUS
<1> QED BY <1>1, SumOfOne DEF Total

LEMMA TotalOfAppend ==
  ASSUME NEW S, NEW s \in Seq(S), NEW e \in S, NEW w \in [S -> Nat]
  PROVE  Total(Append(s, e), w) = Total(s, w) + w[e]
<1>1. Append(s, e) = s \o <<e>> /\ <<e>> \in Seq(S)
  OBVIOUS
<1> DEFINE one == <<e>>
<1>2. Total(one, w) = w[e]
  BY TotalOfOne
<1>3. one \in Seq(S) /\ Append(s, e) = s \o one
  BY <1>1
<1> HIDE DEF one
<1>4. Total(s \o one, w) = Total(s, w) + Total(one, w)
  BY <1>3, TotalOfConcat
<1> QED BY <1>2, <1>3, <1>4

LEMMA TotalOfTail ==
  ASSUME NEW S, NEW s \in Seq(S), s # <<>>, NEW w \in [S -> Nat]
  PROVE  Total(s, w) = w[Head(s)] + Total(Tail(s), w)
<1>1. /\ s = <<Head(s)>> \o Tail(s) /\ <<Head(s)>> \in Seq(S) /\ Tail(s) \in Seq(S)
      /\ Head(s) \in S
  OBVIOUS
<1> DEFINE one == <<Head(s)>>
           rest == Tail(s)
<1>2. Total(one, w) = w[Head(s)]
  BY <1>1, TotalOfOne
<1>3. one \in Seq(S) /\ rest \in Seq(S) /\ s = one \o rest
  BY <1>1
<1> HIDE DEF one, rest
<1>4. Total(one \o rest, w) = Total(one, w) + Total(rest, w)
  BY <1>3, TotalOfConcat
<1> QED BY <1>2, <1>3, <1>4 DEF rest

-----------------------------------------------------------------------------
(* Filters.                                                                *)

IsFilter(kept, elements, s, S) ==
  /\ kept \in [0..Len(s) -> Seq(S \cap elements)]
  /\ kept[0] = <<>>
  /\ \A k \in 1..Len(s) :
       kept[k] = IF s[k] \in elements THEN Append(kept[k - 1], s[k]) ELSE kept[k - 1]

(* Only, a recursive function over the sequence, keeps one by one.         *)
LEMMA OnlyIs ==
  ASSUME NEW S, NEW s \in Seq(S), NEW elements
  PROVE  \E kept : IsFilter(kept, elements, s, S) /\ Only(elements, s) = kept[Len(s)]
<1> DEFINE N == Len(s)
           V == Seq(S \cap elements)
           Next1(q, k) == IF s[k] \in elements THEN Append(q, s[k]) ELSE q
           step == [p \in V \X (1..N) |-> Next1(p[1], p[2])]
           Rule(g) == [k \in 0..N |-> IF k = 0 THEN <<>> ELSE Next1(g[k - 1], k)]
           kept == CHOOSE g : g = Rule(g)
<1>1. N \in Nat /\ \A k \in 1..N : s[k] \in S
  OBVIOUS
<1>2. \A q \in V, k \in 1..N : Next1(q, k) \in V
  BY <1>1
<1> HIDE DEF Next1
<1>3. <<>> \in V
  OBVIOUS
<1> HIDE DEF N, V
<1>4. IsStep(step, V, N)
  <2> SUFFICES ASSUME NEW p \in V \X (1..N) PROVE Next1(p[1], p[2]) \in V
    BY DEF IsStep
  <2> QED BY <1>2
<1>5. PICK g : Follows(g, V, N, <<>>, step)
  <2> HIDE DEF step
  <2> QED BY <1>1, <1>3, <1>4, PrefixRecursion
<1>6. \A k \in 1..N : g[k] = Next1(g[k - 1], k)
  <2> SUFFICES ASSUME NEW k \in 1..N PROVE g[k] = Next1(g[k - 1], k)
    OBVIOUS
  <2>1. k - 1 \in 0..N
    BY <1>1
  <2>2. g[k - 1] \in V /\ g[k] = step[<<g[k - 1], k>>]
    <3> HIDE DEF step
    <3> QED BY <1>5, <2>1 DEF Follows
  <2>3. <<g[k - 1], k>> \in V \X (1..N)
    BY <2>2
  <2> QED BY <2>2, <2>3
<1> HIDE DEF step
<1>7. g = Rule(g)
  <2>1. g = [k \in 0..N |-> g[k]] /\ g[0] = <<>>
    BY <1>5 DEF Follows
  <2>2. \A k \in 0..N : k # 0 => k \in 1..N
    BY <1>1
  <2>3. \A k \in 0..N : g[k] = IF k = 0 THEN <<>> ELSE Next1(g[k - 1], k)
    BY <1>6, <2>1, <2>2
  <2> QED BY <2>1, <2>3
<1>8. kept = Rule(kept)
  <2> HIDE DEF Rule
  <2> QED BY <1>7
<1>9. Only(elements, s) = kept[N]
  BY DEF Only, Next1, N
<1> HIDE DEF kept
<1>10. /\ DOMAIN kept = 0..N /\ kept[0] = <<>>
       /\ \A k \in 1..N : kept[k] = Next1(kept[k - 1], k)
  <2>1. DOMAIN kept = 0..N /\ \A k \in 0..N : kept[k] = Rule(kept)[k]
    BY <1>8
  <2>2. 0 \in 0..N /\ \A k \in 1..N : k \in 0..N /\ k # 0
    BY <1>1
  <2> QED BY <2>1, <2>2
<1> HIDE DEF Rule
<1>11. \A k \in 0..N : kept[k] \in V
  <2> DEFINE T == {k \in 0..N : kept[k] \in V}
  <2>1. 0 \in T
    BY <1>1, <1>3, <1>10
  <2>2. ASSUME NEW k \in 1..N, k - 1 \in T PROVE k \in T
    BY <1>1, <1>2, <1>10, <2>2
  <2> HIDE DEF T
  <2>3. 0..N \subseteq T
    BY <1>1, <2>1, <2>2, BoundedInduction
  <2> QED BY <2>3 DEF T
<1>12. kept \in [0..N -> V]
  <2>1. kept = [k \in 0..N |-> kept[k]]
    BY <1>8 DEF Rule
  <2> QED BY <1>11, <2>1
<1>13. IsFilter(kept, elements, s, S)
  BY <1>10, <1>12 DEF IsFilter, Next1, N, V
<1> QED BY <1>9, <1>13 DEF N

(* What is kept weighs no more, and as much if what goes weighs nothing.   *)
Remains(gone, w, m, n) == m <= n /\ ((\A e \in gone : w[e] = 0) => m = n)
LEMMA TotalOfOnly ==
  ASSUME NEW S, NEW s \in Seq(S), NEW elements, NEW w \in [S -> Nat]
  PROVE  /\ Only(elements, s) \in Seq(S \cap elements)
         /\ Remains(S \ elements, w, Total(Only(elements, s), w), Total(s, w))
<1> DEFINE N == Len(s)
           V == Seq(S \cap elements)
           f == [k \in DOMAIN s |-> w[s[k]]]
<1>1. PICK kept : IsFilter(kept, elements, s, S) /\ Only(elements, s) = kept[N]
  BY OnlyIs
<1>2. f \in Seq(Nat) /\ Len(f) = N
  BY Weights
<1>3. N \in Nat /\ DOMAIN s = 1..N /\ \A k \in 1..N : s[k] \in S /\ f[k] = w[s[k]]
  OBVIOUS
<1> HIDE DEF f
<1>4. PICK sum : IsSum(sum, f) /\ SumOf(f) = sum[N]
  BY <1>2, SumExists
<1> HIDE DEF N
<1>5. /\ kept[0] = <<>> /\ \A k \in 0..N : kept[k] \in V
      /\ \A k \in 1..N :
           kept[k] = IF s[k] \in elements THEN Append(kept[k - 1], s[k]) ELSE kept[k - 1]
  BY <1>1 DEF IsFilter, N
<1>6. /\ sum[0] = 0 /\ \A k \in 0..N : sum[k] \in Nat
      /\ \A k \in 1..N : sum[k] = sum[k - 1] + w[s[k]]
  BY <1>2, <1>3, <1>4 DEF IsSum
<1> DEFINE Light == \A e \in S \ elements : w[e] = 0
           T == {k \in 0..N : /\ Total(kept[k], w) <= sum[k]
                              /\ Light => Total(kept[k], w) = sum[k]}
<1>7. V \subseteq Seq(S)
  <2> SUFFICES ASSUME NEW q \in V PROVE q \in Seq(S)
    OBVIOUS
  <2> QED BY SeqMonotonic
<1> HIDE DEF V
<1>8. 0 \in T
  BY <1>3, <1>5, <1>6, TotalOfNone
<1>9. ASSUME NEW k \in 1..N, k - 1 \in T PROVE k \in T
  <2> DEFINE q == kept[k - 1]
  <2>1. k - 1 \in 0..N /\ k \in 0..N /\ s[k] \in S
    BY <1>3
  <2>2. q \in Seq(S) /\ sum[k - 1] \in Nat /\ w[s[k]] \in Nat
    BY <1>5, <1>6, <1>7, <2>1
  <2>3. Total(q, w) \in Nat
    BY <2>2, Weights
  <2>4. Total(q, w) <= sum[k - 1] /\ (Light => Total(q, w) = sum[k - 1])
    BY <1>9
  <2>5. sum[k] = sum[k - 1] + w[s[k]]
    BY <1>6
  <2>6. CASE s[k] \in elements
    <3>1. kept[k] = Append(q, s[k])
      BY <1>5, <2>6
    <3>2. Total(kept[k], w) = Total(q, w) + w[s[k]]
      <4> HIDE DEF q
      <4> QED BY <2>1, <2>2, <3>1, TotalOfAppend
    <3> HIDE DEF q, Light
    <3> QED BY <2>1, <2>2, <2>3, <2>4, <2>5, <3>2
  <2>7. CASE s[k] \notin elements
    <3>1. kept[k] = q
      BY <1>5, <2>7
    <3>2. Light => w[s[k]] = 0
      BY <2>1, <2>7
    <3> HIDE DEF q, Light
    <3> QED BY <2>1, <2>2, <2>3, <2>4, <2>5, <3>1, <3>2
  <2> QED BY <2>6, <2>7
<1> HIDE DEF T
<1>10. 0..N \subseteq T
  BY <1>3, <1>8, <1>9, BoundedInduction
<1>11. N \in T /\ N \in 0..N
  BY <1>3, <1>10
<1>12. Total(s, w) = sum[N]
  BY <1>4 DEF Total, f
<1> QED BY <1>1, <1>5, <1>11, <1>12 DEF T, V, Remains
(* Smaller numbers have a smaller sum.                                     *)
LEMMA SumMonotone ==
  ASSUME NEW s \in Seq(Nat), NEW t \in Seq(Nat), Len(s) = Len(t),
         \A k \in 1..Len(s) : s[k] <= t[k]
  PROVE  SumOf(s) <= SumOf(t)
<1> DEFINE N == Len(s)
<1>1. N \in Nat /\ Len(t) = N /\ \A k \in 1..N : s[k] \in Nat /\ t[k] \in Nat
  OBVIOUS
<1> HIDE DEF N
<1>2. PICK f : IsSum(f, s) /\ SumOf(s) = f[N]
  BY SumExists DEF N
<1>3. PICK g : IsSum(g, t) /\ SumOf(t) = g[N]
  BY SumExists DEF N
<1>4. /\ f[0] = 0 /\ g[0] = 0 /\ \A k \in 0..N : f[k] \in Nat /\ g[k] \in Nat
      /\ \A k \in 1..N : f[k] = f[k - 1] + s[k] /\ g[k] = g[k - 1] + t[k]
  BY <1>1, <1>2, <1>3 DEF IsSum, N
<1> DEFINE T == {k \in 0..N : f[k] <= g[k]}
<1>5. 0 \in T
  BY <1>1, <1>4
<1>6. ASSUME NEW k \in 1..N, k - 1 \in T PROVE k \in T
  <2>1. k - 1 \in 0..N /\ s[k] <= t[k] /\ f[k - 1] <= g[k - 1]
    BY <1>1, <1>6 DEF N
  <2> QED BY <1>1, <1>4, <2>1, SMTT(30)
<1> HIDE DEF T
<1>7. 0..N \subseteq T
  BY <1>1, <1>5, <1>6, BoundedInduction
<1>8. N \in T
  BY <1>1, <1>7
<1> QED BY <1>2, <1>3, <1>8 DEF T

LEMMA InRange ==
  ASSUME NEW S, NEW s \in Seq(S)
  PROVE  s \in Seq(Range(s)) /\ Range(s) \subseteq S
<1>1. Len(s) \in Nat /\ DOMAIN s = 1..Len(s) /\ \A k \in 1..Len(s) : s[k] \in S
  OBVIOUS
<1>2. \A k \in 1..Len(s) : s[k] \in Range(s)
  BY <1>1 DEF Range
<1>3. Range(s) \subseteq S
  BY <1>1 DEF Range
<1>4. s = [k \in 1..Len(s) |-> s[k]]
  OBVIOUS
<1> DEFINE R == Range(s)
           n == Len(s)
<1>5. n \in Nat /\ s = [k \in 1..n |-> s[k]] /\ \A k \in 1..n : s[k] \in R
  BY <1>1, <1>2, <1>4
<1> HIDE DEF R, n
<1>6. s \in Seq(R)
  BY <1>5
<1> QED BY <1>3, <1>6 DEF R
-----------------------------------------------------------------------------
(* Sequences built element by element, and what Only and FlattenSeq do to  *)
(* each element.                                                           *)

LEMMA SeqInduction ==
  ASSUME NEW S, NEW T, <<>> \in T,
         \A s \in Seq(S), e \in S : s \in T => Append(s, e) \in T
  PROVE  Seq(S) \subseteq T
<1> DEFINE U == {n \in Nat : \A s \in Seq(S) : Len(s) = n => s \in T}
<1>1. 0 \in U
  OBVIOUS
<1>2. ASSUME NEW n \in Nat, n \in U PROVE n + 1 \in U
  <2> SUFFICES ASSUME NEW s \in Seq(S), Len(s) = n + 1 PROVE s \in T
    OBVIOUS
  <2> DEFINE f == [k \in 1..n |-> s[k]]
             e == s[n + 1]
  <2>1. f \in Seq(S) /\ Len(f) = n /\ e \in S
    OBVIOUS
  <2>2. s = Append(f, e)
    OBVIOUS
  <2> HIDE DEF f, e
  <2>3. f \in T
    BY <1>2, <2>1
  <2> QED BY <2>1, <2>2, <2>3
<1> HIDE DEF U
<1>3. Nat \subseteq U
  BY <1>1, <1>2, Induction
<1>4. ASSUME NEW s \in Seq(S) PROVE s \in T
  <2>1. Len(s) \in U
    BY <1>3
  <2> QED BY <2>1 DEF U
<1> QED BY <1>4

LEMMA OnlyOfNone ==
  ASSUME NEW elements
  PROVE  Only(elements, <<>>) = <<>>
<1>1. <<>> \in Seq({}) /\ Len(<<>>) = 0
  OBVIOUS
<1>2. PICK kept : IsFilter(kept, elements, <<>>, {}) /\ Only(elements, <<>>) = kept[Len(<<>>)]
  BY <1>1, OnlyIs
<1> QED BY <1>1, <1>2 DEF IsFilter

LEMMA OnlyOfAppend ==
  ASSUME NEW S, NEW s \in Seq(S), NEW e \in S, NEW elements
  PROVE  /\ Only(elements, s) \in Seq(S)
         /\ Only(elements, Append(s, e))
              = IF e \in elements THEN Append(Only(elements, s), e) ELSE Only(elements, s)
<1> DEFINE N == Len(s)
           t == Append(s, e)
<1>1. /\ N \in Nat /\ t \in Seq(S) /\ Len(t) = N + 1 /\ t[N + 1] = e
      /\ \A k \in 1..N : t[k] = s[k]
  OBVIOUS
<1>2. PICK f : IsFilter(f, elements, s, S) /\ Only(elements, s) = f[N]
  BY OnlyIs
<1> HIDE DEF t
<1>3. PICK g : IsFilter(g, elements, t, S) /\ Only(elements, t) = g[N + 1]
  BY <1>1, OnlyIs
<1> HIDE DEF N
<1>4. /\ f[0] = <<>> /\ f[N] \in Seq(S \cap elements)
      /\ \A k \in 1..N : f[k] = IF s[k] \in elements THEN Append(f[k - 1], s[k]) ELSE f[k - 1]
  BY <1>1, <1>2 DEF IsFilter, N
<1>5. /\ g[0] = <<>>
      /\ \A k \in 1..(N + 1) :
           g[k] = IF t[k] \in elements THEN Append(g[k - 1], t[k]) ELSE g[k - 1]
  BY <1>1, <1>3 DEF IsFilter
<1> DEFINE T == {k \in 0..N : f[k] = g[k]}
<1>6. 0 \in T
  BY <1>1, <1>4, <1>5
<1>7. ASSUME NEW k \in 1..N, k - 1 \in T PROVE k \in T
  <2>1. f[k - 1] = g[k - 1] /\ t[k] = s[k] /\ k \in 1..(N + 1) /\ k \in 0..N
    BY <1>1, <1>7
  <2>2. f[k] = g[k]
    BY <1>4, <1>5, <2>1
  <2> QED BY <2>1, <2>2
<1> HIDE DEF T
<1>8. 0..N \subseteq T
  BY <1>1, <1>6, <1>7, BoundedInduction
<1>9. f[N] = g[N]
  BY <1>1, <1>8 DEF T
<1>10. g[N + 1] = IF e \in elements THEN Append(g[N], e) ELSE g[N]
  <2>1. N + 1 \in 1..(N + 1) /\ (N + 1) - 1 = N
    BY <1>1
  <2> QED BY <1>1, <1>5, <2>1
<1>11. f[N] \in Seq(S)
  BY <1>4, SeqMonotonic
<1> QED BY <1>2, <1>3, <1>9, <1>10, <1>11 DEF t

(* Appending to the second of two sequences appends to both joined.  The   *)
(* definition is a pattern for the provers.                                *)
JoinsOne(s, t, e) == Append(s \o t, e) = s \o Append(t, e)

LEMMA AppendJoined ==
  ASSUME NEW S, NEW s \in Seq(S), NEW t \in Seq(S), NEW e \in S
  PROVE  JoinsOne(s, t, e)
<1> DEFINE u == s \o t
           one == <<e>>
<1>1. u \in Seq(S) /\ one \in Seq(S)
  OBVIOUS
<1>2. u \o one = s \o (t \o one)
  <2> HIDE DEF one
  <2> QED BY <1>1, ConcatAssociative
<1>3. Append(t, e) = t \o one
  BY AppendIsConcat, Zenon
<1> HIDE DEF u
<1>4. Append(u, e) = u \o one
  BY <1>1, AppendIsConcat, Zenon
<1> HIDE DEF one
<1> QED BY ONLY <1>2, <1>3, <1>4 DEF u, JoinsOne

LEMMA OnlyOfConcat ==
  ASSUME NEW S, NEW s \in Seq(S), NEW t \in Seq(S), NEW elements
  PROVE  Only(elements, s \o t) = Only(elements, s) \o Only(elements, t)
<1> DEFINE T == {q \in Seq(S) : Only(elements, s \o q) = Only(elements, s) \o Only(elements, q)}
           a == Only(elements, s)
<1>1. a \in Seq(S)
  <2>1. s = <<>> \/ \E e : e \in S
    OBVIOUS
  <2> QED BY <2>1, OnlyOfNone, OnlyOfAppend
<1>2. <<>> \in T
  <2>1. s \o <<>> = s /\ a \o <<>> = a /\ <<>> \in Seq(S)
    BY <1>1
  <2> QED BY <2>1, OnlyOfNone
<1> HIDE DEF T, a
<1>3. ASSUME NEW q \in Seq(S), NEW e \in S, q \in T PROVE Append(q, e) \in T
  <2> DEFINE b == Only(elements, q)
             u == s \o q
  <2>1. Only(elements, u) = a \o b
    BY <1>3 DEF T, a
  <2>2. u \in Seq(S) /\ s \o Append(q, e) = Append(u, e) /\ Append(q, e) \in Seq(S)
    BY AppendJoined DEF JoinsOne
  <2>3. b \in Seq(S) /\ Only(elements, Append(q, e)) = IF e \in elements THEN Append(b, e) ELSE b
    <3>1. b \in Seq(S)
      BY OnlyOfAppend
    <3>2. Only(elements, Append(q, e)) = IF e \in elements THEN Append(b, e) ELSE b
      BY OnlyOfAppend, SMTT(30)
    <3> QED BY <3>1, <3>2
  <2> HIDE DEF b, u
  <2>4. Only(elements, Append(u, e)) = IF e \in elements THEN Append(a \o b, e) ELSE a \o b
    BY <2>1, <2>2, OnlyOfAppend, ZenonT(30)
  <2>5. Append(a \o b, e) = a \o Append(b, e)
    <3>1. b \in Seq(S)
      BY <2>3
    <3>2. JoinsOne(a, b, e)
      BY ONLY <1>1, <3>1, AppendJoined
    <3> QED BY ONLY <3>2 DEF JoinsOne
  <2>6. Only(elements, s \o Append(q, e)) = a \o Only(elements, Append(q, e))
    BY ONLY <2>2, <2>3, <2>4, <2>5
  <2> QED BY <2>2, <2>6 DEF T, a
<1>4. Seq(S) \subseteq T
  BY <1>2, <1>3, SeqInduction
<1> QED BY <1>4 DEF T, a

(* What Only keeps is what is there and wanted.                            *)
LEMMA OnlyRange ==
  ASSUME NEW S, NEW s \in Seq(S), NEW elements
  PROVE  /\ Only(elements, s) \in Seq(S)
         /\ Range(Only(elements, s)) = Range(s) \cap elements
<1> DEFINE T == {q \in Seq(S) : /\ Only(elements, q) \in Seq(S)
                                /\ Range(Only(elements, q)) = Range(q) \cap elements}
<1>1. <<>> \in T
  <2>1. Range(<<>>) = {} /\ <<>> \in Seq(S)
    BY DEF Range
  <2> QED BY <2>1, OnlyOfNone
<1>2. ASSUME NEW q \in Seq(S), NEW e \in S, q \in T PROVE Append(q, e) \in T
  <2> DEFINE b == Only(elements, q)
  <2>1. /\ b \in Seq(S) /\ Range(b) = Range(q) \cap elements
        /\ Only(elements, Append(q, e)) = IF e \in elements THEN Append(b, e) ELSE b
    BY <1>2, OnlyOfAppend, SMTT(30)
  <2> HIDE DEF b
  <2>2. Range(Append(q, e)) = Range(q) \cup {e} /\ Range(Append(b, e)) = Range(b) \cup {e}
    BY <2>1, RangeOfAppend
  <2>3. Append(q, e) \in Seq(S) /\ Append(b, e) \in Seq(S)
    BY <2>1
  <2>4. CASE e \in elements
    BY <2>1, <2>2, <2>3, <2>4
  <2>5. CASE e \notin elements
    BY <2>1, <2>2, <2>3, <2>5
  <2> QED BY <2>4, <2>5
<1> HIDE DEF T
<1>3. Seq(S) \subseteq T
  BY <1>1, <1>2, SeqInduction
<1> QED BY <1>3 DEF T

LEMMA OnlyNothing ==
  ASSUME NEW S, NEW s \in Seq(S), NEW elements
  PROVE  Only(elements, s) = <<>> <=> \A e \in Range(s) : e \notin elements
<1> DEFINE t == Only(elements, s)
<1>1. t \in Seq(S) /\ Range(t) = Range(s) \cap elements
  BY OnlyRange
<1> HIDE DEF t
<1>2. t = <<>> <=> Range(t) = {}
  <2>1. t = <<>> => Range(t) = {}
    BY DEF Range
  <2>2. t # <<>> => t[1] \in Range(t)
    <3>1. t # <<>> => 1 \in DOMAIN t
      BY <1>1
    <3> QED BY <3>1 DEF Range
  <2> QED BY <2>1, <2>2
<1> QED BY <1>1, <1>2 DEF t

LEMMA OnlyAgree ==
  ASSUME NEW S, NEW s \in Seq(S), NEW E, NEW F, \A e \in Range(s) : e \in E <=> e \in F
  PROVE  Only(E, s) = Only(F, s)
<1> DEFINE Agree(q) == \A e \in Range(q) : e \in E <=> e \in F
           T == {q \in Seq(S) : Agree(q) => Only(E, q) = Only(F, q)}
<1>1. <<>> \in T
  BY OnlyOfNone
<1>2. ASSUME NEW q \in Seq(S), NEW e \in S, q \in T PROVE Append(q, e) \in T
  <2>1. Range(Append(q, e)) = Range(q) \cup {e} /\ Append(q, e) \in Seq(S)
    BY RangeOfAppend
  <2>2. Agree(Append(q, e)) => Agree(q) /\ (e \in E <=> e \in F)
    BY <2>1
  <2>3. /\ Only(E, Append(q, e)) = IF e \in E THEN Append(Only(E, q), e) ELSE Only(E, q)
        /\ Only(F, Append(q, e)) = IF e \in F THEN Append(Only(F, q), e) ELSE Only(F, q)
    <3>1. ASSUME NEW G
          PROVE  Only(G, Append(q, e)) = IF e \in G THEN Append(Only(G, q), e) ELSE Only(G, q)
      BY OnlyOfAppend
    <3> QED BY <3>1
  <2> HIDE DEF Agree
  <2>4. Agree(Append(q, e)) => Only(E, Append(q, e)) = Only(F, Append(q, e))
    BY <1>2, <2>2, <2>3
  <2> QED BY <2>1, <2>4
<1>3. Agree(s)
  OBVIOUS
<1> HIDE DEF T, Agree
<1>4. Seq(S) \subseteq T
  BY <1>1, <1>2, SeqInduction
<1> QED BY <1>3, <1>4 DEF T

(* FlattenSeq, a recursive function too, joins from the left.              *)
IsFlat(flat, ss, S) ==
  \A k \in 1..Len(ss) : /\ flat[k] \in Seq(S)
                        /\ flat[k] = IF k = 1 THEN ss[k] ELSE flat[k - 1] \o ss[k]
LEMMA FlatIs ==
  ASSUME NEW S, NEW ss \in Seq(Seq(S)), ss # <<>>
  PROVE  \E flat : IsFlat(flat, ss, S) /\ FlattenSeq(ss) = flat[Len(ss)]
<1> DEFINE N == Len(ss)
           V == Seq(S)
           step == [p \in V \X (1..N) |-> p[1] \o ss[p[2]]]
           Rule(g) == [i \in 1..N |-> IF i = 1 THEN ss[i] ELSE g[i - 1] \o ss[i]]
           flat == CHOOSE g : g = Rule(g)
<1>1. N \in Nat /\ N >= 1 /\ DOMAIN ss = 1..N /\ \A k \in 1..N : ss[k] \in Seq(S)
  OBVIOUS
<1>3. FlattenSeq(ss) = flat[N]
  BY <1>1 DEF FlattenSeq
<1> HIDE DEF N
<1>4. IsStep(step, V, N)
  <2> SUFFICES ASSUME NEW p \in V \X (1..N) PROVE p[1] \o ss[p[2]] \in V
    BY DEF IsStep
  <2>1. p[1] \in Seq(S) /\ ss[p[2]] \in Seq(S)
    BY <1>1
  <2> QED BY <2>1
<1>5. PICK g : Follows(g, V, N, <<>>, step)
  <2>1. <<>> \in V
    OBVIOUS
  <2> HIDE DEF V, step
  <2> QED BY <1>1, <1>4, <2>1, PrefixRecursion
<1>6. \A k \in 1..N : g[k - 1] \in V /\ g[k] = g[k - 1] \o ss[k]
  <2> SUFFICES ASSUME NEW k \in 1..N PROVE g[k - 1] \in V /\ g[k] = g[k - 1] \o ss[k]
    OBVIOUS
  <2>1. k - 1 \in 0..N
    BY <1>1
  <2> HIDE DEF V
  <2>2. g[k - 1] \in V /\ g[k] = step[<<g[k - 1], k>>]
    <3> HIDE DEF step
    <3> QED BY <1>5, <2>1 DEF Follows
  <2>3. <<g[k - 1], k>> \in V \X (1..N)
    BY <2>2
  <2> QED BY <2>2, <2>3
<1> DEFINE h == [i \in 1..N |-> g[i]]
<1>7. h = Rule(h)
  <2>1. \A i \in 1..N : h[i] = IF i = 1 THEN ss[i] ELSE h[i - 1] \o ss[i]
    <3> SUFFICES ASSUME NEW i \in 1..N
                 PROVE  h[i] = IF i = 1 THEN ss[i] ELSE h[i - 1] \o ss[i]
      OBVIOUS
    <3>1. CASE i = 1
      <4>1. g[0] = <<>>
        BY <1>5 DEF Follows
      <4>2. g[i] = <<>> \o ss[i]
        <5>1. g[i] = g[i - 1] \o ss[i]
          BY <1>6
        <5>2. i - 1 = 0
          BY <3>1
        <5> QED BY ONLY <4>1, <5>1, <5>2
      <4>3. ss[i] \in Seq(S)
        BY <1>1
      <4> QED BY <3>1, <4>2, <4>3
    <3>2. CASE i # 1
      <4>1. i - 1 \in 1..N
        BY <1>1, <3>2
      <4> QED BY <1>6, <3>2, <4>1
    <3> QED BY <3>1, <3>2
  <2>2. h = [i \in 1..N |-> h[i]]
    OBVIOUS
  <2> HIDE DEF h
  <2> QED BY <2>1, <2>2
<1>8. flat = Rule(flat)
  <2> HIDE DEF Rule
  <2> QED BY <1>7
<1> HIDE DEF flat, h
<1>9. \A k \in 1..N : flat[k] = IF k = 1 THEN ss[k] ELSE flat[k - 1] \o ss[k]
  BY <1>8
<1> DEFINE T == {k \in 0..N : k = 0 \/ flat[k] \in Seq(S)}
<1>10. 0 \in T
  BY <1>1
<1>11. ASSUME NEW k \in 1..N, k - 1 \in T PROVE k \in T
  <2>1. ss[k] \in Seq(S) /\ k \in 0..N
    BY <1>1
  <2>2. CASE k = 1
    BY <1>9, <2>1, <2>2
  <2>3. CASE k # 1
    <3>1. flat[k - 1] \in Seq(S)
      BY <1>1, <1>11, <2>3
    <3>2. flat[k] = flat[k - 1] \o ss[k]
      BY <1>9, <2>3
    <3>3. flat[k] \in Seq(S)
      BY <2>1, <3>1, <3>2
    <3> QED BY <2>1, <3>3
  <2> QED BY <2>2, <2>3
<1> HIDE DEF T
<1>12. 0..N \subseteq T
  BY <1>1, <1>10, <1>11, BoundedInduction
<1>13. \A k \in 1..N : flat[k] \in Seq(S)
  BY <1>1, <1>12 DEF T
<1>14. IsFlat(flat, ss, S)
  BY <1>9, <1>13 DEF IsFlat, N
<1> QED BY <1>3, <1>14 DEF N

LEMMA FlatOfNone == FlattenSeq(<<>>) = <<>>
BY DEF FlattenSeq

LEMMA FlatOfAppend ==
  ASSUME NEW S, NEW ss \in Seq(Seq(S)), NEW s \in Seq(S)
  PROVE  /\ FlattenSeq(ss) \in Seq(S)
         /\ FlattenSeq(Append(ss, s)) = FlattenSeq(ss) \o s
<1> DEFINE N == Len(ss)
           tt == Append(ss, s)
<1>1. /\ N \in Nat /\ tt \in Seq(Seq(S)) /\ tt # <<>> /\ Len(tt) = N + 1 /\ tt[N + 1] = s
      /\ \A k \in 1..N : tt[k] = ss[k]
  <2> DEFINE V == Seq(S)
  <2>1. ss \in Seq(V) /\ s \in V
    OBVIOUS
  <2> HIDE DEF V
  <2>2. /\ N \in Nat /\ tt \in Seq(V) /\ tt # <<>> /\ Len(tt) = N + 1 /\ tt[N + 1] = s
        /\ \A k \in 1..N : tt[k] = ss[k]
    BY ONLY <2>1
  <2> QED BY <2>2 DEF V
<1> HIDE DEF tt
<1>2. PICK g : IsFlat(g, tt, S) /\ FlattenSeq(tt) = g[N + 1]
  BY <1>1, FlatIs
<1>3. CASE ss = <<>>
  <2>1. N = 0 /\ <<>> \in Seq(S) /\ <<>> \o s = s
    BY <1>3
  <2>2. g[N + 1] = s
    BY <1>1, <1>2, <2>1 DEF IsFlat
  <2> QED BY <1>2, <1>3, <2>1, <2>2, FlatOfNone DEF tt
<1>4. CASE ss # <<>>
  <2>1. N >= 1
    BY <1>4
  <2>2. PICK f : IsFlat(f, ss, S) /\ FlattenSeq(ss) = f[N]
    BY <1>4, FlatIs
  <2> DEFINE T == {k \in 0..N : k = 0 \/ f[k] = g[k]}
  <2>3. \A k \in 1..N : f[k] = IF k = 1 THEN ss[k] ELSE f[k - 1] \o ss[k]
    BY <2>2 DEF IsFlat
  <2>4. f[N] \in Seq(S)
    BY <1>1, <2>1, <2>2 DEF IsFlat
  <2>5. \A k \in 1..(N + 1) : g[k] = IF k = 1 THEN tt[k] ELSE g[k - 1] \o tt[k]
    BY <1>1, <1>2 DEF IsFlat
  <2> HIDE DEF N
  <2>6. 0 \in T
    BY <1>1
  <2>7. ASSUME NEW k \in 1..N, k - 1 \in T PROVE k \in T
    <3>1. k \in 1..(N + 1) /\ tt[k] = ss[k] /\ (k # 1 => f[k - 1] = g[k - 1]) /\ k \in 0..N
      BY <1>1, <2>7
    <3>2. f[k] = g[k]
      BY <2>3, <2>5, <3>1
    <3> QED BY <3>1, <3>2
  <2> HIDE DEF T
  <2>8. 0..N \subseteq T
    BY <1>1, <2>6, <2>7, BoundedInduction
  <2>9. f[N] = g[N]
    BY <1>1, <2>1, <2>8 DEF T
  <2>10. g[N + 1] = g[N] \o s
    <3>1. N + 1 \in 1..(N + 1) /\ N + 1 # 1 /\ (N + 1) - 1 = N
      BY <1>1, <2>1
    <3> QED BY <1>1, <2>5, <3>1
  <2> QED BY <1>2, <2>2, <2>4, <2>9, <2>10 DEF tt
<1> QED BY <1>3, <1>4
=============================================================================
