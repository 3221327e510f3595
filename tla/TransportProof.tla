---------------------------- MODULE TransportProof ----------------------------
(***************************************************************************)
(* Proofs about Transport: whatever the capacities and the bounds, the     *)
(* queue's books agree with its contents, what the validator accepted is   *)
(* sent in order or accounted for as dropped, and the close drains before  *)
(* it closes the socket.                                                   *)
(*                                                                         *)
(* The invariants are about the flow of frames (items, occupancy, sealed,  *)
(* sending, wire, dropped, farewell and the number of accepted messages)   *)
(* and about the shutdown.  Each way a step can change the flow has its    *)
(* lemma; the actions are then cases of these.                             *)
(***************************************************************************)
EXTENDS Transport, SequenceLemmas

IsWeightSum(sum, s, lane) ==
  /\ sum \in [0..Len(s) -> Nat]
  /\ sum[0] = 0
  /\ \A k \in 1..Len(s) : sum[k] = sum[k - 1] + WeightIn(lane, s[k])

(* What a batch weighs in a lane.                                          *)
LEMMA WeightInNat == \A b \in Batches, lane \in Lane : WeightIn(lane, b) \in Nat
BY DEF WeightIn, Batches

(* Weight, a recursive function over the queue, counts batch by batch.     *)
LEMMA WeightIsSum ==
  ASSUME NEW s \in Seq(Batches), NEW lane \in Lane
  PROVE  \E sum : IsWeightSum(sum, s, lane) /\ Weight(s, lane) = sum[Len(s)]
<1> DEFINE N == Len(s)
           step == [p \in Nat \X (1..N) |-> p[1] + WeightIn(lane, s[p[2]])]
           Rule(g) == [k \in 0..N |-> IF k = 0 THEN 0 ELSE g[k - 1] + WeightIn(lane, s[k])]
           sum == CHOOSE g : g = Rule(g)
<1>1. N \in Nat /\ \A k \in 1..N : s[k] \in Batches
  OBVIOUS
<1>2. IsStep(step, Nat, N)
  BY <1>1, WeightInNat DEF IsStep
<1>3. PICK g : Follows(g, Nat, N, 0, step)
  <2>1. 0 \in Nat /\ N \in Nat
    OBVIOUS
  <2> HIDE DEF N, step
  <2> QED BY <1>2, <2>1, PrefixRecursion
<1>4. \A k \in 1..N : step[<<g[k - 1], k>>] = g[k - 1] + WeightIn(lane, s[k])
  <2> SUFFICES ASSUME NEW k \in 1..N
               PROVE  step[<<g[k - 1], k>>] = g[k - 1] + WeightIn(lane, s[k])
    OBVIOUS
  <2>1. k - 1 \in 0..N /\ g[k - 1] \in Nat
    BY <1>1, <1>3 DEF Follows
  <2>2. <<g[k - 1], k>> \in Nat \X (1..N)
    BY <2>1
  <2> QED BY <2>2
<1>5. g = Rule(g)
  <2>1. \A k \in 1..N : g[k] = g[k - 1] + WeightIn(lane, s[k])
    BY <1>3, <1>4 DEF Follows
  <2>2. g = [k \in 0..N |-> g[k]]
    BY <1>3 DEF Follows
  <2>3. \A k \in 0..N : g[k] = IF k = 0 THEN 0 ELSE g[k - 1] + WeightIn(lane, s[k])
    BY <1>1, <1>3, <2>1 DEF Follows
  <2> HIDE DEF N
  <2> QED BY <2>2, <2>3
<1>6. sum = Rule(sum)
  <2> HIDE DEF Rule
  <2> QED BY <1>5
<1>7. Weight(s, lane) = sum[N]
  BY DEF Weight
<1>8. IsWeightSum(sum, s, lane)
  <2> HIDE DEF sum
  <2>1. /\ sum[0] = 0 /\ DOMAIN sum = 0..N
        /\ \A k \in 1..N : sum[k] = sum[k - 1] + WeightIn(lane, s[k])
    BY <1>1, <1>6
  <2>2. \A k \in 0..N : sum[k] \in Nat
    <3> DEFINE T == {k \in 0..N : sum[k] \in Nat}
    <3>1. 0 \in T
      BY <1>1, <2>1
    <3>2. ASSUME NEW k \in 1..N, k - 1 \in T PROVE k \in T
      <4>1. WeightIn(lane, s[k]) \in Nat
        BY <1>1, WeightInNat
      <4> QED BY <2>1, <3>2, <4>1
    <3> HIDE DEF T, N
    <3>3. 0..N \subseteq T
      BY <1>1, <3>1, <3>2, BoundedInduction
    <3> QED BY <3>3 DEF T
  <2>3. sum = [k \in 0..N |-> sum[k]]
    BY <1>6
  <2> QED BY <2>1, <2>2, <2>3 DEF IsWeightSum
<1> QED BY <1>7, <1>8

(* and is the only function that does.                                     *)
LEMMA SumIsWeight ==
  ASSUME NEW s \in Seq(Batches), NEW lane \in Lane, NEW sum, IsWeightSum(sum, s, lane)
  PROVE  Weight(s, lane) = sum[Len(s)]
<1>1. PICK g : IsWeightSum(g, s, lane) /\ Weight(s, lane) = g[Len(s)]
  BY WeightIsSum
<1> DEFINE T == {k \in 0..Len(s) : g[k] = sum[k]}
<1>2. 0 \in T
  BY <1>1 DEF IsWeightSum
<1>3. \A k \in 1..Len(s) : k - 1 \in T => k \in T
  BY <1>1 DEF IsWeightSum
<1>4. Len(s) \in Nat
  OBVIOUS
<1> HIDE DEF T
<1>5. 0..Len(s) \subseteq T
  BY <1>2, <1>3, <1>4, BoundedInduction
<1> QED BY <1>1, <1>4, <1>5 DEF T

(* An empty queue weighs nothing.                                          *)
LEMMA WeightOfNone ==
  ASSUME NEW lane \in Lane
  PROVE  Weight(<<>>, lane) = 0
<1>1. <<>> \in Seq(Batches) /\ Len(<<>>) = 0
  OBVIOUS
<1> QED BY <1>1, WeightIsSum DEF IsWeightSum

(* A weight is a number.                                                   *)
LEMMA WeightNat ==
  ASSUME NEW s \in Seq(Batches), NEW lane \in Lane
  PROVE  Weight(s, lane) \in Nat
<1>1. Len(s) \in Nat
  OBVIOUS
<1> QED BY <1>1, WeightIsSum DEF IsWeightSum

(* A batch put at the end adds its weight (_BoundedBatchQueue.put).        *)
LEMMA WeightOfAppend ==
  ASSUME NEW s \in Seq(Batches), NEW b \in Batches, NEW lane \in Lane
  PROVE  Weight(Append(s, b), lane) = Weight(s, lane) + WeightIn(lane, b)
<1> DEFINE t == Append(s, b)
           N == Len(s)
<1>1. PICK g : IsWeightSum(g, s, lane) /\ Weight(s, lane) = g[N]
  BY WeightIsSum
<1> DEFINE h == [k \in 0..(N + 1) |-> IF k <= N THEN g[k] ELSE g[N] + WeightIn(lane, b)]
<1>2. /\ N \in Nat /\ t \in Seq(Batches) /\ Len(t) = N + 1
      /\ t[N + 1] = b /\ \A k \in 1..N : t[k] = s[k]
  OBVIOUS
<1>3. WeightIn(lane, b) \in Nat
  BY WeightInNat
<1>4. IsWeightSum(h, t, lane)
  <2>1. h \in [0..(N + 1) -> Nat]
    BY <1>1, <1>2, <1>3 DEF IsWeightSum
  <2>2. h[0] = 0
    BY <1>1, <1>2 DEF IsWeightSum
  <2>3. ASSUME NEW k \in 1..(N + 1)
        PROVE  h[k] = h[k - 1] + WeightIn(lane, t[k])
    <3>1. CASE k = N + 1
      BY <1>2, <3>1
    <3>2. CASE k <= N
      BY <1>1, <1>2, <3>2 DEF IsWeightSum
    <3> QED BY <1>2, <3>1, <3>2
  <2> HIDE DEF h, t
  <2> QED BY <1>2, <2>1, <2>2, <2>3 DEF IsWeightSum
<1>5. h[N + 1] = g[N] + WeightIn(lane, b)
  BY <1>2
<1> HIDE DEF h, t
<1> QED BY <1>1, <1>2, <1>4, <1>5, SumIsWeight DEF t

(* A batch taken from the front takes its weight (get).                    *)
LEMMA WeightOfTail ==
  ASSUME NEW s \in Seq(Batches), s # <<>>, NEW lane \in Lane
  PROVE  Weight(s, lane) = WeightIn(lane, Head(s)) + Weight(Tail(s), lane)
<1> DEFINE t == Tail(s)
           N == Len(t)
           w == WeightIn(lane, s[1])
<1>1. /\ N \in Nat /\ t \in Seq(Batches) /\ Len(s) = N + 1
      /\ Head(s) = s[1] /\ s[1] \in Batches /\ \A k \in 1..N : t[k] = s[k + 1]
  OBVIOUS
<1>2. PICK g : IsWeightSum(g, t, lane) /\ Weight(t, lane) = g[N]
  BY <1>1, WeightIsSum
<1>3. w \in Nat
  BY <1>1, WeightInNat
<1> DEFINE h == [k \in 0..(N + 1) |-> IF k = 0 THEN 0 ELSE g[k - 1] + w]
<1>4. /\ g \in [0..N -> Nat] /\ g[0] = 0
      /\ \A k \in 1..N : g[k] = g[k - 1] + WeightIn(lane, t[k])
  BY <1>2 DEF IsWeightSum
<1> HIDE DEF t, N, w
<1>5. IsWeightSum(h, s, lane)
  <2>1. h \in [0..(N + 1) -> Nat]
    <3> SUFFICES ASSUME NEW k \in 0..(N + 1), k # 0 PROVE g[k - 1] + w \in Nat
      BY <1>3
    <3>1. k - 1 \in 0..N
      BY <1>1
    <3> QED BY <1>3, <1>4, <3>1
  <2>2. h[0] = 0
    BY <1>1
  <2>3. ASSUME NEW k \in 1..(N + 1)
        PROVE  h[k] = h[k - 1] + WeightIn(lane, s[k])
    <3>1. CASE k = 1
      <4>1. h[1] = g[0] + w /\ h[0] = 0
        BY <1>1
      <4> QED BY <1>3, <1>4, <3>1, <4>1 DEF w
    <3>2. CASE k > 1
      <4>1. k - 1 \in 1..N /\ (k - 1) + 1 = k /\ (k - 1) - 1 \in 0..N
        BY <1>1, <3>2
      <4>2. t[k - 1] = s[k]
        BY <1>1, <4>1
      <4>3. h[k] = g[k - 1] + w /\ h[k - 1] = g[(k - 1) - 1] + w
        BY <1>1, <3>2
      <4>4. g[k - 1] = g[(k - 1) - 1] + WeightIn(lane, s[k])
        BY <1>4, <4>1, <4>2
      <4>5. g[(k - 1) - 1] \in Nat /\ WeightIn(lane, s[k]) \in Nat
        <5>1. s[k] \in Batches
          BY <1>1
        <5> QED BY <1>4, <4>1, <5>1, WeightInNat
      <4> HIDE DEF h
      <4> QED BY <1>3, <4>3, <4>4, <4>5
    <3> QED BY <1>1, <3>1, <3>2
  <2> HIDE DEF h
  <2> QED BY <1>1, <2>1, <2>2, <2>3 DEF IsWeightSum
<1>6. h[N + 1] = g[N] + w /\ g[N] \in Nat
  BY <1>1, <1>4
<1> HIDE DEF h
<1>7. Weight(s, lane) = g[N] + w
  BY <1>1, <1>5, <1>6, SumIsWeight
<1> QED BY <1>1, <1>2, <1>3, <1>6, <1>7 DEF t, w

IsRest(kept, s, gone) ==
  /\ kept \in [0..Len(s) -> Seq(Batches)]
  /\ kept[0] = <<>>
  /\ \A k \in 1..Len(s) :
       kept[k] = IF s[k] \in gone THEN kept[k - 1] ELSE Append(kept[k - 1], s[k])

(* Without, a fold over the queue, drops batch by batch what is gone.      *)
LEMMA WithoutIsFilter ==
  ASSUME NEW s \in Seq(Batches), NEW gone
  PROVE  \E kept : IsRest(kept, s, gone) /\ Without(s, gone) = kept[Len(s)]
<1> DEFINE N == Len(s)
           V == Seq(Batches)
           step == [p \in V \X (1..N) |->
                      IF s[p[2]] \in gone THEN p[1] ELSE Append(p[1], s[p[2]])]
           Rule(g) == [k \in 0..N |-> IF k = 0 THEN <<>>
                         ELSE IF s[k] \in gone THEN g[k - 1] ELSE Append(g[k - 1], s[k])]
           kept == CHOOSE g : g = Rule(g)
<1>1. N \in Nat /\ <<>> \in V /\ \A k \in 1..N : s[k] \in Batches
  OBVIOUS
<1>2. IsStep(step, V, N)
  <2> SUFFICES ASSUME NEW p \in V \X (1..N)
               PROVE  (IF s[p[2]] \in gone THEN p[1] ELSE Append(p[1], s[p[2]])) \in V
    BY DEF IsStep
  <2>1. p[1] \in V /\ s[p[2]] \in Batches
    BY <1>1
  <2> QED BY <2>1
<1>3. PICK g : Follows(g, V, N, <<>>, step)
  <2> HIDE DEF N, V, step
  <2> QED BY <1>1, <1>2, PrefixRecursion
<1>4. \A k \in 1..N : step[<<g[k - 1], k>>]
                        = IF s[k] \in gone THEN g[k - 1] ELSE Append(g[k - 1], s[k])
  <2> SUFFICES ASSUME NEW k \in 1..N
               PROVE  step[<<g[k - 1], k>>]
                        = IF s[k] \in gone THEN g[k - 1] ELSE Append(g[k - 1], s[k])
    OBVIOUS
  <2>1. k - 1 \in 0..N /\ g[k - 1] \in V
    <3>1. k - 1 \in 0..N
      BY <1>1
    <3> HIDE DEF V, N
    <3> QED BY <1>3, <3>1 DEF Follows
  <2>2. <<g[k - 1], k>> \in V \X (1..N)
    BY <2>1
  <2> HIDE DEF V, N
  <2> QED BY <2>2
<1>5. g = Rule(g)
  <2>1. \A k \in 1..N : g[k] = IF s[k] \in gone THEN g[k - 1] ELSE Append(g[k - 1], s[k])
    BY <1>3, <1>4 DEF Follows
  <2>2. g = [k \in 0..N |-> g[k]] /\ g[0] = <<>>
    BY <1>3 DEF Follows
  <2> HIDE DEF N, V, step
  <2>3. \A k \in 0..N : g[k] = IF k = 0 THEN <<>>
                         ELSE IF s[k] \in gone THEN g[k - 1] ELSE Append(g[k - 1], s[k])
    <3> SUFFICES ASSUME NEW k \in 0..N, k # 0 PROVE k \in 1..N
      BY <2>1, <2>2
    <3> QED BY <1>1
  <2> QED BY <2>2, <2>3
<1>6. kept = Rule(kept)
  <2> HIDE DEF Rule
  <2> QED BY <1>5
<1>7. Without(s, gone) = kept[N]
  BY DEF Without
<1>8. IsRest(kept, s, gone)
  <2> HIDE DEF kept, V
  <2>0. \A k \in 0..N : kept[k] = IF k = 0 THEN <<>>
                          ELSE IF s[k] \in gone THEN kept[k - 1] ELSE Append(kept[k - 1], s[k])
    <3> HIDE DEF N
    <3> QED BY <1>6
  <2>1. /\ kept[0] = <<>>
        /\ \A k \in 1..N : kept[k] = IF s[k] \in gone THEN kept[k - 1]
                                     ELSE Append(kept[k - 1], s[k])
    <3>1. 0 \in 0..N /\ \A k \in 1..N : k \in 0..N /\ k # 0
      BY <1>1
    <3> HIDE DEF N
    <3> QED BY <2>0, <3>1
  <2>2. \A k \in 0..N : kept[k] \in V
    <3> DEFINE T == {k \in 0..N : kept[k] \in V}
    <3>1. 0 \in T
      BY <1>1, <2>1
    <3>2. ASSUME NEW k \in 1..N, k - 1 \in T PROVE k \in T
      <4>1. kept[k - 1] \in V /\ s[k] \in Batches /\ k \in 0..N
        BY <1>1, <3>2
      <4>2. Append(kept[k - 1], s[k]) \in V
        BY <4>1 DEF V
      <4> QED BY <2>1, <4>1, <4>2
    <3> HIDE DEF T, N
    <3>3. 0..N \subseteq T
      BY <1>1, <3>1, <3>2, BoundedInduction
    <3> QED BY <3>3 DEF T
  <2>3. kept = [k \in 0..N |-> kept[k]]
    BY <1>6
  <2> QED BY <2>1, <2>2, <2>3 DEF IsRest, V
<1> QED BY <1>7, <1>8

(* What is left are the elements that were not taken out, in their order.  *)
LEMMA WithoutKeeps ==
  ASSUME NEW s \in Seq(Batches), NEW gone
  PROVE  LET t == Without(s, gone) IN
         /\ t \in Seq(Batches)
         /\ Range(t) = Range(s) \ gone
         /\ \A i, j \in DOMAIN t : i < j =>
              \E a, b \in DOMAIN s : a < b /\ s[a] = t[i] /\ s[b] = t[j]
<1>1. PICK kept : IsRest(kept, s, gone) /\ Without(s, gone) = kept[Len(s)]
  BY WithoutIsFilter
<1> DEFINE N == Len(s)
           Elements(k) == Range(kept[k]) = {s[i] : i \in 1..k} \ gone
           InPlace(k) == \A i, j \in DOMAIN kept[k] : i < j =>
                           \E a, b \in 1..k : a < b /\ s[a] = kept[k][i] /\ s[b] = kept[k][j]
           T == {k \in 0..N : Elements(k) /\ InPlace(k)}
<1>2. /\ N \in Nat /\ kept[0] = <<>>
      /\ \A k \in 0..N : kept[k] \in Seq(Batches)
      /\ \A k \in 1..N : /\ s[k] \in Batches
                         /\ kept[k] = IF s[k] \in gone THEN kept[k - 1]
                                      ELSE Append(kept[k - 1], s[k])
  BY <1>1 DEF IsRest
<1>3. 0 \in T
  BY <1>2 DEF Range
<1>4. ASSUME NEW k \in 1..N, k - 1 \in T PROVE k \in T
  <2> DEFINE t == kept[k - 1]
  <2>1. /\ k - 1 \in 0..N /\ Elements(k - 1) /\ InPlace(k - 1)
        /\ k \in 0..N /\ t \in Seq(Batches) /\ s[k] \in Batches
    BY <1>2, <1>4
  <2>2. {s[i] : i \in 1..k} = {s[i] : i \in 1..(k - 1)} \cup {s[k]}
    OBVIOUS
  <2>3. CASE s[k] \in gone
    <3>1. kept[k] = t
      BY <1>2, <2>3
    <3>2. Elements(k)
      BY <2>1, <2>2, <2>3, <3>1
    <3>3. InPlace(k)
      BY <2>1, <3>1
    <3> QED BY <2>1, <3>2, <3>3
  <2>4. CASE s[k] \notin gone
    <3>1. kept[k] = Append(t, s[k])
      BY <1>2, <2>4
    <3>2. /\ Len(t) \in Nat /\ DOMAIN t = 1..Len(t)
          /\ DOMAIN kept[k] = 1..(Len(t) + 1) /\ kept[k][Len(t) + 1] = s[k]
          /\ \A i \in 1..Len(t) : kept[k][i] = t[i]
      BY <2>1, <3>1
    <3>3. Range(kept[k]) = Range(t) \cup {s[k]}
      BY <2>1, <3>1, RangeOfAppend
    <3>4. Elements(k)
      BY <2>1, <2>2, <2>4, <3>3
    <3>5. InPlace(k)
      <4> SUFFICES ASSUME NEW i \in DOMAIN kept[k], NEW j \in DOMAIN kept[k], i < j
                   PROVE  \E a, b \in 1..k : a < b /\ s[a] = kept[k][i] /\ s[b] = kept[k][j]
        OBVIOUS
      <4>1. i \in DOMAIN t /\ kept[k][i] = t[i]
        BY <3>2
      <4>2. CASE j \in DOMAIN t
        <5>1. \E a, b \in 1..(k - 1) : a < b /\ s[a] = t[i] /\ s[b] = t[j]
          BY <2>1, <4>1, <4>2
        <5>2. PICK a, b \in 1..(k - 1) : a < b /\ s[a] = t[i] /\ s[b] = t[j]
          BY <5>1
        <5>3. a \in 1..k /\ b \in 1..k /\ a < b
          BY <5>2
        <5>4. s[a] = kept[k][i] /\ s[b] = kept[k][j]
          BY <3>2, <4>1, <4>2, <5>2
        <5> HIDE DEF t
        <5> QED BY <5>3, <5>4
      <4>3. CASE j = Len(t) + 1
        <5>1. t[i] \in {s[a] : a \in 1..(k - 1)}
          BY <2>1, <4>1 DEF Range
        <5>2. PICK a \in 1..(k - 1) : s[a] = t[i]
          BY <5>1
        <5>3. a \in 1..k /\ k \in 1..k /\ a < k
          OBVIOUS
        <5>4. s[a] = kept[k][i] /\ s[k] = kept[k][j]
          BY <3>2, <4>1, <4>3, <5>2
        <5> HIDE DEF t
        <5> QED BY <5>3, <5>4
      <4> QED BY <3>2, <4>2, <4>3
    <3> QED BY <2>1, <3>4, <3>5
  <2> QED BY <2>3, <2>4
<1>5. N \in T
  <2> HIDE DEF T, N
  <2>1. 0..N \subseteq T
    BY <1>2, <1>3, <1>4, BoundedInduction
  <2> QED BY <1>2, <2>1
<1>6. Elements(N) /\ InPlace(N) /\ DOMAIN s = 1..N /\ kept[N] \in Seq(Batches)
  BY <1>2, <1>5
<1>7. {s[i] : i \in 1..N} = Range(s)
  BY <1>6 DEF Range
<1> HIDE DEF N, T
<1>8. Range(kept[N]) = Range(s) \ gone
  BY <1>6, <1>7
<1>9. \A i, j \in DOMAIN kept[N] : i < j =>
        \E a, b \in DOMAIN s : a < b /\ s[a] = kept[N][i] /\ s[b] = kept[N][j]
  BY <1>6
<1> QED BY <1>1, <1>6, <1>8, <1>9 DEF N

(* The weight taken out and the weight left add up.                        *)
LEMMA WeightOfParts ==
  ASSUME NEW s \in Seq(Batches), NEW gone, NEW lane \in Lane
  PROVE  Weight(Without(s, gone), lane) + Weight(Without(s, Range(s) \ gone), lane)
           = Weight(s, lane)
<1> DEFINE N == Len(s)
<1>1. PICK k1 : IsRest(k1, s, gone) /\ Without(s, gone) = k1[N]
  BY WithoutIsFilter
<1>2. PICK k2 : IsRest(k2, s, Range(s) \ gone) /\ Without(s, Range(s) \ gone) = k2[N]
  BY WithoutIsFilter
<1>3. PICK sum : IsWeightSum(sum, s, lane) /\ Weight(s, lane) = sum[N]
  BY WeightIsSum
<1>a. /\ N \in Nat
      /\ \A k \in 1..N : s[k] \in Batches /\ s[k] \in Range(s)
  BY DEF Range
<1>b. /\ \A k \in 0..N : k1[k] \in Seq(Batches)
      /\ k1[0] = <<>>
      /\ \A k \in 1..N : k1[k] = IF s[k] \in gone THEN k1[k - 1] ELSE Append(k1[k - 1], s[k])
  BY <1>1 DEF IsRest
<1>c. /\ \A k \in 0..N : k2[k] \in Seq(Batches)
      /\ k2[0] = <<>>
      /\ \A k \in 1..N : k2[k] = IF s[k] \in Range(s) \ gone THEN k2[k - 1]
                                 ELSE Append(k2[k - 1], s[k])
  BY <1>2 DEF IsRest
<1>d. /\ sum[0] = 0
      /\ \A k \in 1..N : sum[k] = sum[k - 1] + WeightIn(lane, s[k])
  BY <1>3 DEF IsWeightSum
<1>4. /\ N \in Nat
      /\ \A k \in 1..N : s[k] \in Batches /\ s[k] \in Range(s)
      /\ \A k \in 0..N : k1[k] \in Seq(Batches) /\ k2[k] \in Seq(Batches)
      /\ k1[0] = <<>> /\ k2[0] = <<>> /\ sum[0] = 0
      /\ \A k \in 1..N : /\ k1[k] = IF s[k] \in gone THEN k1[k - 1] ELSE Append(k1[k - 1], s[k])
                         /\ k2[k] = IF s[k] \in Range(s) \ gone THEN k2[k - 1]
                                    ELSE Append(k2[k - 1], s[k])
                         /\ sum[k] = sum[k - 1] + WeightIn(lane, s[k])
  BY <1>a, <1>b, <1>c, <1>d
<1> DEFINE T == {k \in 0..N : Weight(k1[k], lane) + Weight(k2[k], lane) = sum[k]}
<1>5. 0 \in T
  BY <1>4, WeightOfNone
<1>6. ASSUME NEW k \in 1..N, k - 1 \in T PROVE k \in T
  <2>1. /\ k - 1 \in 0..N /\ k \in 0..N /\ s[k] \in Batches
        /\ Weight(k1[k - 1], lane) + Weight(k2[k - 1], lane) = sum[k - 1]
    BY <1>4, <1>6
  <2>2. /\ Weight(k1[k - 1], lane) \in Nat /\ Weight(k2[k - 1], lane) \in Nat
        /\ WeightIn(lane, s[k]) \in Nat
    BY <1>4, <2>1, WeightNat, WeightInNat
  <2>3. /\ Weight(Append(k1[k - 1], s[k]), lane) = Weight(k1[k - 1], lane) + WeightIn(lane, s[k])
        /\ Weight(Append(k2[k - 1], s[k]), lane) = Weight(k2[k - 1], lane) + WeightIn(lane, s[k])
    BY <1>4, <2>1, WeightOfAppend
  <2>4. sum[k] = sum[k - 1] + WeightIn(lane, s[k])
    BY <1>4
  <2>5. CASE s[k] \in gone
    <3>1. k1[k] = k1[k - 1] /\ k2[k] = Append(k2[k - 1], s[k])
      BY <1>4, <2>5
    <3>2. Weight(k1[k], lane) + Weight(k2[k], lane) = sum[k]
      BY <2>1, <2>2, <2>3, <2>4, <3>1
    <3> QED BY <2>1, <3>2
  <2>6. CASE s[k] \notin gone
    <3>1. k1[k] = Append(k1[k - 1], s[k]) /\ k2[k] = k2[k - 1]
      BY <1>4, <2>6
    <3>2. Weight(k1[k], lane) + Weight(k2[k], lane) = sum[k]
      BY <2>1, <2>2, <2>3, <2>4, <3>1
    <3> QED BY <2>1, <3>2
  <2> QED BY <2>5, <2>6
<1>7. N \in T
  <2> HIDE DEF T, N
  <2>1. 0..N \subseteq T
    BY <1>4, <1>5, <1>6, BoundedInduction
  <2> QED BY <1>4, <2>1
<1> QED BY <1>1, <1>2, <1>3, <1>7

-----------------------------------------------------------------------------
(* The inductive invariant.                                                *)

FlowType ==
  /\ validator.accepted \in 0..MaxFrames
  /\ items \in Seq(Batches) /\ occupancy \in [Lane -> Nat] /\ sealed \in BOOLEAN
  /\ sending \in [frames : Seq(Frames), terminal : BOOLEAN]
  /\ wire \in Seq(Frames) /\ dropped \subseteq Frames /\ farewell \in Seq(Frames)

(* The connection error is on its way only in a sealed queue and only in a *)
(* terminal batch; a terminal batch is alone in a sealed queue.            *)
Reserved ==
  /\ ConnectionError \in OnItsWay => sealed
  /\ ConnectionError \in Range(sending.frames) => sending.terminal
  /\ \A k \in DOMAIN items :
       /\ ConnectionError \in Range(items[k].frames) => items[k].terminal
       /\ items[k].terminal => sealed /\ Len(items) = 1 /\ items[k].lane = "control"

(* What a seal retained is still queued, or is the end of what is gone.    *)
Retained ==
  \/ Len(items) = 1 /\ items[1].frames = farewell /\ items[1].terminal
  \/ /\ items = <<>>
     /\ sending.frames # <<>> => sending.terminal
     /\ \E u \in Seq(Frames) : Gone = u \o farewell
FarewellKept == farewell # <<>> /\ ~ lost => sealed /\ Retained

FlowInv == FlowType /\ OccupancyOK /\ Accounted /\ InOrder /\ Reserved /\ FarewellKept

Emptied == sealed /\ items = <<>> /\ sending.frames = <<>>
ShutdownInv ==
  /\ closer.step = "draining" =>
       writer = "running" \/ (writer = "done" /\ (lost \/ Emptied))
  /\ stopped = "drained" => lost \/ Emptied
  /\ closer.step \in {"closing", "closed"} => Joined

ValidatorType == [role : Roles, state : {"disconnected", "ready", "closing"},
                  accepted : 0..MaxFrames, committed : 0..MaxCommits]
OutcomeType == [code : CloseCodes, eligible : BOOLEAN, known : BOOLEAN]
CloserType == [step : {"none", "requested", "draining", "joining", "closing", "closed"},
               code : CloseCodes, drain : BOOLEAN, lost : BOOLEAN]
CoreType ==
  /\ validator \in ValidatorType
  /\ reader \in TaskState /\ writer \in TaskState /\ keepalive \in TaskState
  /\ fatal \in BOOLEAN /\ lost \in BOOLEAN
  /\ outcome \in OutcomeType /\ closer \in CloserType
  /\ link \in CloseCodes \cup {Opened}
  /\ received \in 0..MaxInbound /\ stopped \in {"none", "drained", "timeout"}

IInv == CoreType /\ FlowInv /\ ShutdownInv

-----------------------------------------------------------------------------
(* Consequences of the invariant about where a frame can be.               *)

LEMMA OrderedConcat ==
  ASSUME NEW s \in Seq(Frames), NEW t \in Seq(Frames),
         Ordered(s), Ordered(t), Precedes(s, t)
  PROVE  Ordered(s \o t)
<1> DEFINE m == Len(s)
           n == Len(t)
<1>1. /\ m \in Nat /\ n \in Nat /\ DOMAIN s = 1..m /\ DOMAIN t = 1..n
      /\ DOMAIN (s \o t) = 1..(m + n)
      /\ \A j \in 1..(m + n) : (s \o t)[j] = IF j <= m THEN s[j] ELSE t[j - m]
  OBVIOUS
<1> SUFFICES ASSUME NEW j \in 1..(m + n), NEW k \in 1..(m + n), j < k
             PROVE  Before((s \o t)[j], (s \o t)[k])
  BY <1>1 DEF Ordered
<1>2. CASE k <= m
  BY <1>1, <1>2 DEF Ordered
<1>3. CASE j > m
  <2>1. j - m \in 1..n /\ k - m \in 1..n /\ j - m < k - m
    BY <1>1, <1>3
  <2> QED BY <1>1, <1>3, <2>1 DEF Ordered
<1>4. CASE j <= m /\ k > m
  <2>1. j \in 1..m /\ k - m \in 1..n
    BY <1>1, <1>4
  <2>2. s[j] \in Range(s) /\ t[k - m] \in Range(t)
    BY <1>1, <2>1 DEF Range
  <2> QED BY <1>1, <1>4, <2>2 DEF Precedes
<1> QED BY <1>1, <1>2, <1>3, <1>4

(* The parts of an ordered sequence are ordered, and the first precedes    *)
(* the second.                                                             *)
LEMMA OrderedParts ==
  ASSUME NEW s \in Seq(Frames), NEW t \in Seq(Frames), Ordered(s \o t)
  PROVE  Ordered(s) /\ Ordered(t) /\ Precedes(s, t)
<1> DEFINE m == Len(s)
           n == Len(t)
           u == s \o t
<1>1. /\ m \in Nat /\ n \in Nat /\ DOMAIN s = 1..m /\ DOMAIN t = 1..n
      /\ DOMAIN u = 1..(m + n)
      /\ \A j \in 1..m : j \in 1..(m + n) /\ u[j] = s[j]
      /\ \A j \in 1..n : m + j \in 1..(m + n) /\ u[m + j] = t[j]
  OBVIOUS
<1> HIDE DEF m, n, u
<1>2. Ordered(s)
  BY <1>1 DEF Ordered, u
<1>3. Ordered(t)
  <2> SUFFICES ASSUME NEW j \in 1..n, NEW k \in 1..n, j < k PROVE Before(t[j], t[k])
    BY <1>1 DEF Ordered
  <2>1. m + j < m + k
    BY <1>1
  <2> QED BY <1>1, <2>1 DEF Ordered, u
<1>4. ASSUME NEW j \in 1..m, NEW k \in 1..n PROVE Before(s[j], t[k])
  <2>1. j < m + k
    BY <1>1
  <2> QED BY <1>1, <2>1 DEF Ordered, u
<1>5. Precedes(s, t)
  BY <1>1, <1>4 DEF Precedes, Range
<1> QED BY <1>2, <1>3, <1>5

(* A frame is not before itself: where one sequence precedes another they  *)
(* have none in common.                                                    *)
LEMMA PrecedesDisjoint ==
  ASSUME NEW s \in Seq(Frames), NEW t \in Seq(Frames), Precedes(s, t)
  PROVE  Range(s) \cap Range(t) = {}
<1> SUFFICES ASSUME NEW a, a \in Range(s), a \in Range(t) PROVE FALSE
  OBVIOUS
<1>1. a \in Frames
  BY RangeOfSeq
<1>2. a \in Int
  BY <1>1, TransportAssumption DEF Frames, ConnectionError
<1> QED BY <1>2 DEF Precedes, Before

(* The frames of the next n messages: their numbers, in order.             *)
LEMMA NextMessagesAre ==
  ASSUME NEW n \in Nat, validator.accepted \in Nat, Room(n)
  PROVE  /\ NextMessages(n) \in Seq(Frames) /\ Len(NextMessages(n)) = n
         /\ Range(NextMessages(n)) = (validator.accepted + 1)..(validator.accepted + n)
         /\ Ordered(NextMessages(n))
<1> DEFINE a == validator.accepted
<1> HIDE DEF a
<1>1. \A k \in 1..n : a + k \in 1..MaxFrames
  BY TransportAssumption DEF Room, a
<1>2. NextMessages(n) = [k \in 1..n |-> a + k]
  BY DEF NextMessages, a
<1>3. NextMessages(n) \in Seq(Frames) /\ Len(NextMessages(n)) = n
  BY <1>1, <1>2 DEF Frames
<1>4. ASSUME NEW x \in (a + 1)..(a + n) PROVE x \in Range(NextMessages(n))
  <2>1. x - a \in 1..n /\ a + (x - a) = x
    BY DEF a
  <2> QED BY <1>2, <2>1 DEF Range
<1>5. Range(NextMessages(n)) \subseteq (a + 1)..(a + n)
  BY <1>2 DEF Range, a
<1>6. Ordered(NextMessages(n))
  BY <1>2 DEF Ordered, Before, ConnectionError, a
<1> QED BY <1>3, <1>4, <1>5, <1>6 DEF a

(* The flow's sequences of frames, and where their frames are.             *)
LEMMA FlowFacts ==
  ASSUME FlowInv
  PROVE  /\ Gone \in Seq(Frames) /\ Range(Gone) = Range(wire) \cup Range(sending.frames)
         /\ OnItsWay = Range(Gone) \cup FramesOf(items)
         /\ \A k \in DOMAIN items :
              /\ items[k] \in Batches /\ items[k].frames \in Seq(Frames)
              /\ items[k] \in Range(items)
              /\ Range(items[k].frames) \subseteq OnItsWay
         /\ ConnectionError \notin dropped
         /\ OnItsWay \subseteq Frames
         /\ OnItsWay \ {ConnectionError} \subseteq 1..validator.accepted
         /\ dropped \subseteq 1..validator.accepted
<1>1. Gone \in Seq(Frames) /\ Range(Gone) = Range(wire) \cup Range(sending.frames)
  BY RangeConcatenation DEF FlowInv, FlowType, Gone
<1>2. OnItsWay = Range(Gone) \cup FramesOf(items)
  BY <1>1 DEF OnItsWay
<1>3. \A k \in DOMAIN items :
        /\ items[k] \in Batches /\ items[k].frames \in Seq(Frames)
        /\ items[k] \in Range(items)
  <2>1. items \in Seq(Batches)
    BY DEF FlowInv, FlowType
  <2> SUFFICES ASSUME NEW k \in DOMAIN items
               PROVE  items[k] \in Batches /\ items[k].frames \in Seq(Frames)
    BY DEF Range
  <2>2. items[k] \in Batches
    BY <2>1
  <2> QED BY <2>2 DEF Batches
<1>4. \A k \in DOMAIN items : Range(items[k].frames) \subseteq OnItsWay
  BY <1>3, Zenon DEF OnItsWay, FramesOf
<1>5. FramesOf(items) \subseteq Frames
  <2> SUFFICES ASSUME NEW b \in Range(items) PROVE Range(b.frames) \subseteq Frames
    BY DEF FramesOf
  <2>1. b.frames \in Seq(Frames)
    BY <1>3 DEF Range
  <2> QED BY <2>1, RangeOfSeq
<1>6. OnItsWay \subseteq Frames
  BY <1>1, <1>2, <1>5, RangeOfSeq
<1>7. /\ OnItsWay \ {ConnectionError} \subseteq 1..validator.accepted
      /\ dropped \subseteq 1..validator.accepted
  BY DEF FlowInv, Accounted
<1>8. ConnectionError \notin dropped
  BY <1>7 DEF ConnectionError
<1> QED BY <1>1, <1>2, <1>3, <1>4, <1>6, <1>7, <1>8

(* A step that leaves queue, validator, wire and writer alone keeps the    *)
(* flow.                                                                   *)
LEMMA FlowUnchanged ==
  ASSUME FlowInv, validator'.accepted = validator.accepted, lost => lost',
         UNCHANGED <<items, occupancy, sealed, sending, wire, dropped, farewell>>
  PROVE  FlowInv'
<1>1. OnItsWay' = OnItsWay /\ Gone' = Gone
  BY DEF OnItsWay, Gone, FramesOf
<1>2. FlowType'
  BY DEF FlowInv, FlowType
<1>3. OccupancyOK'
  BY DEF FlowInv, OccupancyOK
<1>4. Accounted'
  BY <1>1 DEF FlowInv, Accounted
<1>5. InOrder'
  BY <1>1 DEF FlowInv, InOrder
<1>6. Reserved'
  BY <1>1 DEF FlowInv, Reserved
<1>7. FarewellKept'
  BY <1>1 DEF FlowInv, FarewellKept, Retained
<1> QED BY <1>2, <1>3, <1>4, <1>5, <1>6, <1>7 DEF FlowInv

(* A put appends the next messages, if there is room in the lane and the   *)
(* queue is open.                                                          *)
LEMMA FlowOfPut ==
  ASSUME FlowInv, NEW n \in 1..MaxBatch, NEW lane \in Lane, NEW weight \in Nat,
         Room(n), ~ sealed, ~ Overflow(lane, weight), Put(NextMessages(n), lane, weight),
         validator'.accepted = validator.accepted + n, lost => lost',
         UNCHANGED <<sending, wire>>
  PROVE  FlowInv'
<1> DEFINE new == NextMessages(n)
           b == Batch(new, lane, weight, FALSE)
           a == validator.accepted
<1>1. /\ a \in Nat /\ n \in Nat /\ new \in Seq(Frames) /\ Range(new) = (a + 1)..(a + n)
      /\ Ordered(new)
  BY NextMessagesAre, TransportAssumption DEF FlowInv, FlowType
<1> HIDE DEF new
<1>2. b \in Batches /\ b.lane = lane /\ b.weight = weight /\ b.frames = new /\ ~ b.terminal
  BY <1>1 DEF Batch, Batches
<1> HIDE DEF b
<1>3. /\ items \in Seq(Batches) /\ items' = Append(items, b)
      /\ UNCHANGED <<sealed, dropped, farewell, sending, wire>>
      /\ occupancy' = [occupancy EXCEPT ![lane] = @ + weight]
  BY DEF Put, FlowInv, FlowType, b, new
<1>4. /\ Len(items) \in Nat /\ DOMAIN items = 1..Len(items)
      /\ DOMAIN items' = 1..(Len(items) + 1) /\ items'[Len(items) + 1] = b
      /\ \A k \in 1..Len(items) : items'[k] = items[k]
      /\ items' \in Seq(Batches) /\ Range(items') = Range(items) \cup {b}
  BY <1>2, <1>3, RangeOfAppend
<1>5. FlowType'
  <2>1. occupancy' \in [Lane -> Nat]
    BY <1>3 DEF FlowInv, FlowType
  <2>2. validator'.accepted \in 0..MaxFrames
    BY <1>1, TransportAssumption DEF Room
  <2> QED BY <1>3, <1>4, <2>1, <2>2 DEF FlowInv, FlowType
<1>6. FramesOf(items') = FramesOf(items) \cup Range(new)
  BY <1>2, <1>4, Zenon DEF FramesOf
<1>7. OnItsWay' = OnItsWay \cup ((a + 1)..(a + n)) /\ Gone' = Gone
  BY <1>1, <1>3, <1>6 DEF OnItsWay, Gone
<1>8. OccupancyOK'
  <2>1. \A l \in Lane : occupancy'[l] = Weight(items', l)
    <3> SUFFICES ASSUME NEW l \in Lane PROVE occupancy'[l] = Weight(items', l)
      OBVIOUS
    <3>1. Weight(items', l) = Weight(items, l) + WeightIn(l, b) /\ occupancy[l] = Weight(items, l)
      BY <1>2, <1>3, WeightOfAppend DEF FlowInv, OccupancyOK
    <3> QED BY <1>2, <1>3, <3>1 DEF WeightIn, FlowInv, FlowType
  <2>2. ASSUME NEW l \in Lane, \A c \in Range(items') : ~ c.terminal
        PROVE  occupancy'[l] <= Capacity(l)
    <3>1. occupancy[l] <= Capacity(l) /\ occupancy[l] \in Nat
      BY <1>4, <2>2 DEF FlowInv, OccupancyOK, FlowType
    <3> QED BY <1>3, <3>1, TransportAssumption, SMTT(30) DEF Overflow, Capacity, FlowInv, FlowType
  <2> QED BY <2>1, <2>2 DEF OccupancyOK
<1>9. ConnectionError \notin OnItsWay /\ OnItsWay \subseteq 1..a /\ dropped \subseteq 1..a
  BY FlowFacts DEF FlowInv, Reserved
<1>10. Accounted'
  <2>1. 1..a = OnItsWay \cup dropped /\ OnItsWay \cap dropped = {}
    BY <1>9 DEF FlowInv, Accounted
  <2>2. 1..(a + n) = (1..a) \cup ((a + 1)..(a + n))
    BY <1>1
  <2>3. 1..a \cap ((a + 1)..(a + n)) = {} /\ ConnectionError \notin (a + 1)..(a + n)
    BY <1>1 DEF ConnectionError
  <2> HIDE DEF a
  <2>4. dropped' = dropped /\ validator'.accepted = a + n
    BY <1>3 DEF a
  <2> QED BY <1>7, <1>9, <2>1, <2>2, <2>3, <2>4 DEF Accounted
<1>11. \A x \in 1..a, y \in Range(new) : Before(x, y)
  BY <1>1 DEF Before, ConnectionError
<1>12. InOrder'
  <2>1. Precedes(Gone, new)
    BY <1>9, <1>11, FlowFacts DEF Precedes
  <2>2. \A k \in DOMAIN items : Precedes(items[k].frames, new)
    BY <1>9, <1>11, FlowFacts DEF Precedes
  <2>3. \A k \in DOMAIN items' : Ordered(items'[k].frames) /\ Precedes(Gone, items'[k].frames)
    BY <1>1, <1>2, <1>4, <2>1 DEF FlowInv, InOrder
  <2>4. \A j, k \in DOMAIN items' : j < k => Precedes(items'[j].frames, items'[k].frames)
    <3> SUFFICES ASSUME NEW j \in DOMAIN items', NEW k \in DOMAIN items', j < k
                 PROVE  Precedes(items'[j].frames, items'[k].frames)
      OBVIOUS
    <3>1. j \in DOMAIN items /\ items'[j] = items[j]
      BY <1>4
    <3>2. CASE k = Len(items) + 1
      BY <1>2, <1>4, <2>2, <3>1, <3>2
    <3>3. CASE k \in DOMAIN items
      BY <1>4, <3>1, <3>3 DEF FlowInv, InOrder
    <3> QED BY <1>4, <3>2, <3>3
  <2> QED BY <1>7, <2>3, <2>4 DEF FlowInv, InOrder
<1>13. Reserved'
  <2>1. ConnectionError \notin Range(new)
    BY <1>1 DEF ConnectionError
  <2>2. \A k \in DOMAIN items : ~ items[k].terminal /\ ConnectionError \notin Range(items[k].frames)
    BY DEF FlowInv, Reserved
  <2>3. \A k \in DOMAIN items' : /\ ~ items'[k].terminal
                                 /\ ConnectionError \notin Range(items'[k].frames)
    BY <1>2, <1>4, <2>1, <2>2
  <2>4. ConnectionError \notin OnItsWay'
    BY <1>1, <1>7, <1>9, <2>1
  <2> QED BY <1>3, <2>3, <2>4 DEF FlowInv, Reserved
<1>14. FarewellKept'
  BY <1>3 DEF FlowInv, FarewellKept
<1> QED BY <1>5, <1>8, <1>10, <1>12, <1>13, <1>14 DEF FlowInv

(* A seal of an open queue drops what is queued and keeps the terminal     *)
(* batch: the next messages, the connection error or nothing.              *)
LEMMA FlowOfSeal ==
  ASSUME FlowInv, ~ sealed, NEW frames, NEW n \in Nat, Room(n),
         \/ frames = NextMessages(n)
         \/ n = 0 /\ frames \in {<<>>, <<ConnectionError>>},
         Seal(frames), validator'.accepted = validator.accepted + n, lost => lost',
         UNCHANGED <<sending, wire>>
  PROVE  FlowInv'
<1> DEFINE b == Batch(frames, "control", Len(frames), TRUE)
           a == validator.accepted
<1>1. /\ a \in Nat /\ items \in Seq(Batches) /\ items' \in {<<>>, <<b>>}
      /\ frames = <<>> => items' = <<>>
      /\ frames # <<>> => items' = <<b>>
      /\ sealed' = TRUE /\ farewell' = frames
      /\ occupancy' = [lane \in Lane |-> IF lane = "control" THEN Len(frames) ELSE 0]
      /\ dropped' = dropped \cup FramesOf(items)
  <2>1. a \in Nat /\ items \in Seq(Batches)
    BY DEF FlowInv, FlowType
  <2>2. /\ sealed' = TRUE /\ farewell' = frames
        /\ items' = IF frames = <<>> THEN <<>> ELSE <<b>>
        /\ occupancy' = [lane \in Lane |-> IF lane = "control" THEN Len(frames) ELSE 0]
        /\ dropped' = dropped \cup FramesOf(items)
    BY Zenon DEF Seal
  <2> HIDE DEF b
  <2> QED BY <2>1, <2>2
<1>2. /\ frames \in Seq(Frames) /\ Ordered(frames)
      /\ Range(frames) \ {ConnectionError} = (a + 1)..(a + n)
      /\ Range(frames) \subseteq ((a + 1)..(a + n)) \cup {ConnectionError}
  <2>1. CASE frames = NextMessages(n)
    <3>1. ConnectionError \notin (a + 1)..(a + n)
      BY <1>1 DEF ConnectionError
    <3> QED BY <1>1, <2>1, <3>1, NextMessagesAre
  <2>2. CASE n = 0 /\ frames = <<>>
    <3>1. Range(<<>>) = {} /\ (a + 1)..(a + 0) = {} /\ Ordered(<<>>) /\ <<>> \in Seq(Frames)
      BY <1>1 DEF Range, Ordered
    <3> QED BY <2>2, <3>1
  <2>3. CASE n = 0 /\ frames = <<ConnectionError>>
    <3>1. /\ Range(<<ConnectionError>>) = {ConnectionError} /\ (a + 1)..(a + 0) = {}
      BY <1>1 DEF Range
    <3>2. Ordered(<<ConnectionError>>)
      BY DEF Ordered
    <3>3. ConnectionError \in Frames
      BY DEF Frames
    <3> QED BY <2>3, <3>1, <3>2, <3>3
  <2> QED BY <2>1, <2>2, <2>3
<1>3. Len(frames) \in Nat /\ (frames = <<>> <=> Len(frames) = 0)
  BY <1>2
<1>4. /\ b \in Batches /\ b.lane = "control" /\ b.weight = Len(frames) /\ b.frames = frames
      /\ b.terminal
  BY <1>2, <1>3 DEF Batch, Batches, Lane
<1> HIDE DEF b
<1>5. items' \in Seq(Batches) /\ Len(items') \in {0, 1} /\ DOMAIN items' = 1..Len(items')
      /\ \A k \in DOMAIN items' : k = 1 /\ Len(items') = 1 /\ items'[k] = b
  <2>1. CASE items' = <<>>
    BY <2>1
  <2>2. CASE items' = <<b>>
    BY <1>4, <2>2
  <2> QED BY <1>1, <2>1, <2>2
<1>6. FramesOf(items') = Range(frames)
  <2>1. CASE frames = <<>>
    <3>1. Range(items') = {} /\ Range(frames) = {}
      BY <1>1, <2>1 DEF Range
    <3> QED BY <3>1 DEF FramesOf
  <2>2. CASE frames # <<>>
    <3>1. Range(items') = {b}
      BY <1>1, <2>2 DEF Range
    <3> QED BY <1>4, <3>1 DEF FramesOf
  <2> QED BY <2>1, <2>2
<1>7. /\ OnItsWay' = Range(Gone) \cup Range(frames) /\ Gone' = Gone
      /\ Gone \in Seq(Frames) /\ Range(Gone) = Range(wire) \cup Range(sending.frames)
      /\ FramesOf(items) \subseteq OnItsWay /\ Range(Gone) \subseteq OnItsWay
      /\ OnItsWay = Range(Gone) \cup FramesOf(items)
  BY <1>6, FlowFacts DEF OnItsWay, Gone
<1>8. /\ ConnectionError \notin OnItsWay /\ OnItsWay \subseteq 1..a /\ dropped \subseteq 1..a
      /\ OnItsWay \subseteq Frames
  BY FlowFacts DEF FlowInv, Reserved
<1>9. FlowType'
  <2>1. occupancy' \in [Lane -> Nat]
    BY <1>1, <1>3
  <2>2. validator'.accepted \in 0..MaxFrames
    BY <1>1, TransportAssumption DEF Room
  <2>3. dropped' \subseteq Frames
    BY <1>1, <1>7, <1>8 DEF FlowInv, FlowType
  <2> QED BY <1>1, <1>2, <1>5, <2>1, <2>2, <2>3 DEF FlowInv, FlowType
<1>10. OccupancyOK'
  <2>1. CASE frames = <<>>
    <3>1. Len(frames) = 0
      BY <1>3, <2>1
    <3> QED BY <1>1, <2>1, <3>1, WeightOfNone, TransportAssumption DEF OccupancyOK, Capacity
  <2>2. CASE frames # <<>>
    <3>1. items' = Append(<<>>, b) /\ <<>> \in Seq(Batches)
      BY <1>1, <2>2
    <3>2. \A l \in Lane : Weight(items', l) = 0 + WeightIn(l, b)
      BY <1>4, <3>1, WeightOfAppend, WeightOfNone
    <3>3. \A l \in Lane : occupancy'[l] = Weight(items', l)
      BY <1>1, <1>3, <1>4, <3>2 DEF WeightIn
    <3>4. b \in Range(items')
      BY <1>1, <2>2 DEF Range
    <3> QED BY <1>4, <3>3, <3>4 DEF OccupancyOK
  <2> QED BY <2>1, <2>2
<1>11. Accounted'
  <2>1. 1..a = OnItsWay \cup dropped /\ OnItsWay \cap dropped = {}
    BY <1>8 DEF FlowInv, Accounted
  <2>2. 1..(a + n) = (1..a) \cup ((a + 1)..(a + n))
    BY <1>1
  <2>3. 1..a \cap ((a + 1)..(a + n)) = {} /\ ConnectionError \notin 1..a
    BY <1>1 DEF ConnectionError
  <2>4. FramesOf(items) \cap Range(Gone) = {}
    <3> SUFFICES ASSUME NEW k \in DOMAIN items
                 PROVE  Range(items[k].frames) \cap Range(Gone) = {}
      BY DEF FramesOf, Range
    <3>1. Precedes(Gone, items[k].frames)
      BY DEF FlowInv, InOrder
    <3> QED BY <3>1, FlowFacts, PrecedesDisjoint
  <2> HIDE DEF a
  <2>5. validator'.accepted = a + n
    BY DEF a
  <2> QED BY <1>1, <1>2, <1>7, <1>8, <2>1, <2>2, <2>3, <2>4, <2>5 DEF Accounted
<1>12. InOrder'
  <2>1. Precedes(Gone, frames)
    <3> SUFFICES ASSUME NEW x \in Range(Gone), NEW y \in Range(frames) PROVE Before(x, y)
      BY DEF Precedes
    <3>1. x \in 1..a /\ (y = ConnectionError \/ y \in (a + 1)..(a + n))
      BY <1>2, <1>7, <1>8
    <3> QED BY <1>1, <3>1 DEF Before, ConnectionError
  <2> QED BY <1>2, <1>4, <1>5, <1>7, <2>1 DEF FlowInv, InOrder
<1>13. Reserved'
  <2>1. ConnectionError \notin Range(sending.frames)
    BY <1>7, <1>8
  <2> QED BY <1>1, <1>4, <1>5, <2>1 DEF Reserved
<1>14. FarewellKept'
  <2>1. CASE frames # <<>>
    <3>1. Len(items') = 1 /\ items'[1] = b
      BY <1>1, <2>1
    <3> QED BY <1>1, <1>4, <3>1 DEF FarewellKept, Retained
  <2>2. CASE frames = <<>>
    BY <1>1, <2>2 DEF FarewellKept
  <2> QED BY <2>1, <2>2
<1> QED BY <1>9, <1>10, <1>11, <1>12, <1>13, <1>14 DEF FlowInv

(* No frame of a queued batch is gone, or in another batch.                *)
LEMMA BatchesApart ==
  ASSUME FlowInv, NEW k \in DOMAIN items
  PROVE  /\ Range(items[k].frames) \cap Range(Gone) = {}
         /\ \A j \in DOMAIN items : j # k =>
              Range(items[k].frames) \cap Range(items[j].frames) = {}
<1>1. Range(items[k].frames) \cap Range(Gone) = {}
  <2>1. Precedes(Gone, items[k].frames)
    BY DEF FlowInv, InOrder
  <2> QED BY <2>1, FlowFacts, PrecedesDisjoint
<1>2. ASSUME NEW j \in DOMAIN items, j # k
      PROVE  Range(items[k].frames) \cap Range(items[j].frames) = {}
  <2>1. j \in Nat /\ k \in Nat
    BY DEF FlowInv, FlowType
  <2>2. Precedes(items[j].frames, items[k].frames) \/ Precedes(items[k].frames, items[j].frames)
    BY <1>2, <2>1 DEF FlowInv, InOrder
  <2> QED BY <2>2, FlowFacts, PrecedesDisjoint
<1> QED BY <1>1, <1>2

(* CloseQueue(TRUE) empties the queue and drops what is in it.             *)
LEMMA FlowOfClose ==
  ASSUME FlowInv, NEW discard \in BOOLEAN, CloseQueue(discard),
         validator'.accepted = validator.accepted, lost => lost', UNCHANGED <<sending, wire>>
  PROVE  FlowInv'
<1>1. CASE discard /\ ~ sealed
  <2>1. /\ sealed' = TRUE /\ farewell' = farewell /\ items' = <<>>
        /\ occupancy' = [lane \in Lane |-> 0]
        /\ dropped' = dropped \cup FramesOf(items)
    BY <1>1 DEF CloseQueue
  <2>2. FramesOf(items') = {} /\ items' \in Seq(Batches) /\ DOMAIN items' = {}
    BY <2>1 DEF FramesOf, Range
  <2>3. OnItsWay' = Range(Gone) /\ Gone' = Gone /\ OnItsWay = Range(Gone) \cup FramesOf(items)
    BY <2>2, FlowFacts DEF OnItsWay, Gone
  <2>4. ConnectionError \notin OnItsWay /\ OnItsWay \subseteq Frames
    BY <1>1, FlowFacts DEF FlowInv, Reserved
  <2>5. FlowType'
    <3>1. occupancy' \in [Lane -> Nat] /\ dropped' \subseteq Frames
      BY <2>1, <2>3, <2>4 DEF FlowInv, FlowType
    <3> QED BY <2>1, <2>2, <3>1 DEF FlowInv, FlowType
  <2>6. OccupancyOK'
    BY <2>1, WeightOfNone, TransportAssumption DEF OccupancyOK, Capacity
  <2>7. Accounted'
    <3>1. FramesOf(items) \cap Range(Gone) = {}
      BY BatchesApart DEF FramesOf, Range
    <3> QED BY <2>1, <2>3, <2>4, <3>1 DEF FlowInv, Accounted
  <2>8. InOrder'
    BY <2>2, <2>3 DEF FlowInv, InOrder
  <2>9. Reserved'
    BY <2>1, <2>2, <2>3, <2>4 DEF FlowInv, Reserved
  <2>10. FarewellKept'
    BY <1>1, <2>1 DEF FlowInv, FarewellKept
  <2> QED BY <2>5, <2>6, <2>7, <2>8, <2>9, <2>10 DEF FlowInv
<1>2. CASE ~ (discard /\ ~ sealed)
  <2>1. sealed' = TRUE /\ UNCHANGED <<farewell, items, occupancy, dropped>>
    BY <1>2 DEF CloseQueue
  <2>2. OnItsWay' = OnItsWay /\ Gone' = Gone
    BY <2>1 DEF OnItsWay, Gone, FramesOf
  <2>3. FlowType'
    BY <2>1 DEF FlowInv, FlowType
  <2>4. OccupancyOK'
    BY <2>1 DEF FlowInv, OccupancyOK
  <2>5. Accounted'
    BY <2>1, <2>2 DEF FlowInv, Accounted
  <2>6. InOrder'
    BY <2>1, <2>2 DEF FlowInv, InOrder
  <2>7. Reserved'
    BY <2>1, <2>2 DEF FlowInv, Reserved
  <2>8. FarewellKept'
    BY <2>1, <2>2 DEF FlowInv, FarewellKept, Retained
  <2> QED BY <2>3, <2>4, <2>5, <2>6, <2>7, <2>8 DEF FlowInv
<1> QED BY <1>1, <1>2

(* A discard takes some of the data batches out of the queue, which then   *)
(* holds no terminal batch.                                                *)
LEMMA FlowOfDiscard ==
  ASSUME FlowInv, DiscardQueued
  PROVE  FlowInv'
<1>1. PICK gone \in SUBSET {b \in Range(items) : b.lane = "data"} :
        /\ gone # {}
        /\ items' = Without(items, gone)
        /\ occupancy' = [lane \in Lane |->
                           occupancy[lane] - Weight(Without(items, Range(items) \ gone), lane)]
        /\ dropped' = dropped \cup UNION {Range(b.frames) : b \in gone}
        /\ UNCHANGED <<validator, sealed, sending, lost, wire, farewell>>
  BY DEF DiscardQueued, tasks
<1> DEFINE discarded == UNION {Range(b.frames) : b \in gone}
<1>2. items \in Seq(Batches)
  BY DEF FlowInv, FlowType
<1>3. /\ items' \in Seq(Batches) /\ Range(items') = Range(items) \ gone
      /\ \A i, j \in DOMAIN items' : i < j =>
           \E a, b \in DOMAIN items : a < b /\ items[a] = items'[i] /\ items[b] = items'[j]
  BY <1>1, <1>2, WithoutKeeps
<1>4. \A b \in Range(items) : /\ b \in Batches
                              /\ \E k \in DOMAIN items : items[k] = b
  BY FlowFacts DEF Range
<1>5. \A j \in DOMAIN items' : items'[j] \in Range(items) /\ items'[j] \notin gone
  <2>1. \A j \in DOMAIN items' : items'[j] \in Range(items')
    BY DEF Range
  <2> QED BY <1>3, <2>1
<1>6. \A k \in DOMAIN items : ~ items[k].terminal
  <2> SUFFICES ASSUME NEW k \in DOMAIN items, items[k].terminal PROVE FALSE
    OBVIOUS
  <2>1. PICK b \in gone : b \in Range(items) /\ b.lane = "data"
    BY <1>1
  <2>2. PICK j \in DOMAIN items : items[j] = b
    BY <1>4, <2>1
  <2>3. Len(items) = 1 /\ items[k].lane = "control"
    BY DEF FlowInv, Reserved
  <2>4. j = k
    BY <1>2, <2>3
  <2> QED BY <2>1, <2>2, <2>3, <2>4
<1>7. OnItsWay' = Range(Gone) \cup FramesOf(items') /\ Gone' = Gone
  BY <1>1, FlowFacts DEF OnItsWay, Gone
<1>8. FramesOf(items) = FramesOf(items') \cup discarded
  <2>1. Range(items) = Range(items') \cup gone
    BY <1>1, <1>3
  <2> QED BY <2>1, Zenon DEF FramesOf
<1>9. discarded \cap (Range(Gone) \cup FramesOf(items')) = {}
  <2> SUFFICES ASSUME NEW b \in gone
               PROVE  /\ Range(b.frames) \cap Range(Gone) = {}
                      /\ \A c \in Range(items') : Range(b.frames) \cap Range(c.frames) = {}
    BY DEF FramesOf
  <2>1. PICK k \in DOMAIN items : items[k] = b
    BY <1>1, <1>4
  <2>2. ASSUME NEW c \in Range(items') PROVE Range(b.frames) \cap Range(c.frames) = {}
    <3>1. c \in Range(items) /\ c # b
      BY <1>3, <2>2
    <3>2. PICK j \in DOMAIN items : items[j] = c
      BY <1>4, <3>1
    <3> QED BY <2>1, <3>1, <3>2, BatchesApart
  <2> QED BY <2>1, <2>2, BatchesApart
<1>10. ConnectionError \notin discarded
  <2> SUFFICES ASSUME NEW b \in gone PROVE ConnectionError \notin Range(b.frames)
    OBVIOUS
  <2>1. PICK k \in DOMAIN items : items[k] = b
    BY <1>1, <1>4
  <2> QED BY <1>6, <2>1 DEF FlowInv, Reserved
<1> HIDE DEF discarded
<1>11. OnItsWay = OnItsWay' \cup discarded /\ OnItsWay \subseteq Frames
  BY <1>7, <1>8, FlowFacts
<1>12. OccupancyOK' /\ occupancy' \in [Lane -> Nat]
  <2>1. ASSUME NEW lane \in Lane
        PROVE  /\ occupancy'[lane] = Weight(items', lane)
               /\ occupancy'[lane] \in Nat /\ occupancy'[lane] <= occupancy[lane]
               /\ occupancy[lane] \in Nat
    <3> DEFINE out == Weight(Without(items, Range(items) \ gone), lane)
    <3>1. Weight(items', lane) + out = Weight(items, lane)
      BY <1>1, <1>2, WeightOfParts
    <3>2. out \in Nat /\ Weight(items', lane) \in Nat
      BY <1>2, <1>3, WithoutKeeps, WeightNat
    <3>3. occupancy'[lane] = occupancy[lane] - out /\ occupancy[lane] = Weight(items, lane)
      BY <1>1 DEF FlowInv, OccupancyOK
    <3>4. occupancy[lane] \in Nat
      BY DEF FlowInv, FlowType
    <3> HIDE DEF out
    <3> QED BY <3>1, <3>2, <3>3, <3>4
  <2>2. \A lane \in Lane : occupancy[lane] <= Capacity(lane) /\ Capacity(lane) \in Nat
    <3>1. \A b \in Range(items) : ~ b.terminal
      BY <1>4, <1>6
    <3>2. \A lane \in Lane : Capacity(lane) \in Nat
      BY TransportAssumption DEF Capacity
    <3> QED BY <3>1, <3>2 DEF FlowInv, OccupancyOK
  <2>3. \A lane \in Lane : occupancy'[lane] <= Capacity(lane)
    BY <2>1, <2>2
  <2>4. occupancy' \in [Lane -> Nat]
    BY <1>1, <2>1
  <2> QED BY <2>1, <2>3, <2>4 DEF OccupancyOK
<1>13. FlowType'
  <2>1. discarded \subseteq Frames
    BY <1>11
  <2>2. dropped' \subseteq Frames
    BY <1>1, <2>1 DEF FlowInv, FlowType, discarded
  <2> QED BY <1>1, <1>3, <1>12, <2>2 DEF FlowInv, FlowType
<1>14. Accounted'
  <2>1. dropped' = dropped \cup discarded /\ validator' = validator
    BY <1>1 DEF discarded
  <2>2. discarded \cap OnItsWay' = {}
    BY <1>7, <1>9
  <2> QED BY <1>10, <1>11, <2>1, <2>2 DEF FlowInv, Accounted
<1>15. InOrder'
  <2>1. \A k \in DOMAIN items' : Ordered(items'[k].frames) /\ Precedes(Gone, items'[k].frames)
    BY <1>4, <1>5 DEF FlowInv, InOrder
  <2>2. \A i, j \in DOMAIN items' : i < j => Precedes(items'[i].frames, items'[j].frames)
    <3> SUFFICES ASSUME NEW i \in DOMAIN items', NEW j \in DOMAIN items', i < j
                 PROVE  Precedes(items'[i].frames, items'[j].frames)
      OBVIOUS
    <3>1. PICK a, b \in DOMAIN items : a < b /\ items[a] = items'[i] /\ items[b] = items'[j]
      BY <1>3
    <3>2. Precedes(items[a].frames, items[b].frames)
      BY <3>1 DEF FlowInv, InOrder
    <3> QED BY <3>1, <3>2
  <2> QED BY <1>7, <2>1, <2>2 DEF FlowInv, InOrder
<1>16. Reserved'
  <2>1. \A k \in DOMAIN items : ConnectionError \notin Range(items[k].frames)
    BY <1>6 DEF FlowInv, Reserved
  <2>2. \A k \in DOMAIN items' : /\ ~ items'[k].terminal
                                 /\ ConnectionError \notin Range(items'[k].frames)
    BY <1>4, <1>5, <1>6, <2>1
  <2> QED BY <1>1, <1>11, <2>2 DEF FlowInv, Reserved
<1>17. FarewellKept'
  <2>1. items # <<>>
    BY <1>1 DEF Range
  <2>2. ~ Retained
    BY <1>2, <1>6, <2>1 DEF Retained
  <2> QED BY <1>1, <2>2 DEF FlowInv, FarewellKept
<1> QED BY <1>12, <1>13, <1>14, <1>15, <1>16, <1>17 DEF FlowInv

(* The writer takes the first batch; after a fatal error it drops it,      *)
(* unless it is the terminal one.                                          *)
LEMMA FlowOfGet ==
  ASSUME FlowInv, WriterGets
  PROVE  FlowInv'
<1> DEFINE batch == Head(items)
           cut == fatal /\ ~ batch.terminal
<1>1. /\ sending.frames = <<>> /\ items # <<>>
      /\ items' = Tail(items)
      /\ occupancy' = [occupancy EXCEPT ![batch.lane] = @ - batch.weight]
      /\ UNCHANGED <<validator, sealed, lost, wire, farewell>>
  BY DEF WriterGets
<1>2. /\ cut => dropped' = dropped \cup Range(batch.frames) /\ sending' = NothingToSend
      /\ ~ cut => /\ sending' = [frames |-> batch.frames, terminal |-> batch.terminal]
                  /\ dropped' = dropped
  BY DEF WriterGets
<1>3. items \in Seq(Batches) /\ occupancy \in [Lane -> Nat] /\ wire \in Seq(Frames)
  BY DEF FlowInv, FlowType
<1>4. /\ items' \in Seq(Batches) /\ Len(items) = Len(items') + 1 /\ Len(items') \in Nat
      /\ DOMAIN items = 1..Len(items) /\ DOMAIN items' = 1..Len(items')
      /\ batch = items[1] /\ 1 \in DOMAIN items
      /\ \A k \in DOMAIN items' : items'[k] = items[k + 1] /\ k + 1 \in DOMAIN items
      /\ Range(items) = {batch} \cup Range(items')
      /\ Len(items) = 1 => items' = <<>>
  BY <1>1, <1>3, RangeOfTail
<1> HIDE DEF batch, cut
<1>5. /\ batch \in Batches /\ batch.frames \in Seq(Frames) /\ batch.lane \in Lane
      /\ batch.weight \in Nat /\ batch.terminal \in BOOLEAN
  <2>1. batch \in Batches
    BY <1>3, <1>4
  <2> QED BY <2>1 DEF Batches
<1>6. FramesOf(items) = Range(batch.frames) \cup FramesOf(items')
  BY <1>4, Zenon DEF FramesOf
<1>7. Gone = wire /\ Range(wire) \cup Range(sending.frames) = Range(wire)
  BY <1>1, <1>3 DEF Gone, Range
<1>8. OnItsWay = Range(wire) \cup Range(batch.frames) \cup FramesOf(items')
  BY <1>6, <1>7 DEF OnItsWay
<1>9. /\ Range(batch.frames) \cap Range(wire) = {}
      /\ Range(batch.frames) \cap FramesOf(items') = {}
  <2>1. Range(batch.frames) \cap Range(wire) = {}
    BY <1>4, <1>7, BatchesApart
  <2>2. ASSUME NEW k \in DOMAIN items'
        PROVE  Range(batch.frames) \cap Range(items'[k].frames) = {}
    <3>1. k + 1 # 1
      BY <1>4
    <3> QED BY <1>4, <3>1, BatchesApart
  <2> QED BY <2>1, <2>2 DEF FramesOf, Range
<1>10. IF cut THEN Gone' = wire ELSE Gone' = wire \o batch.frames
  <2>1. CASE cut
    <3>1. sending'.frames = <<>>
      BY <1>2, <2>1 DEF NothingToSend
    <3>2. wire \o <<>> = wire
      BY <1>3
    <3> QED BY <1>1, <2>1, <3>1, <3>2 DEF Gone
  <2>2. CASE ~ cut
    <3>1. sending'.frames = batch.frames
      BY <1>2, <2>2
    <3> QED BY <1>1, <2>2, <3>1 DEF Gone
  <2> QED BY <2>1, <2>2
<1>11. IF cut THEN OnItsWay' = Range(wire) \cup FramesOf(items')
              ELSE OnItsWay' = OnItsWay
  <2>1. Range(<<>>) = {}
    BY DEF Range
  <2> QED BY <1>1, <1>2, <1>8, <2>1 DEF OnItsWay, NothingToSend
<1>12. FlowType'
  <2>1. occupancy' \in [Lane -> Nat]
    <3>1. occupancy[batch.lane] - batch.weight \in Nat
      <4>1. Weight(items, batch.lane) = batch.weight + Weight(items', batch.lane)
        BY <1>1, <1>3, <1>5, WeightOfTail DEF WeightIn, batch
      <4>2. Weight(items', batch.lane) \in Nat
        BY <1>4, <1>5, WeightNat
      <4> QED BY <1>5, <4>1, <4>2 DEF FlowInv, OccupancyOK
    <3> QED BY <1>1, <1>3, <1>5, <3>1
  <2>2. sending' \in [frames : Seq(Frames), terminal : BOOLEAN]
    <3>1. NothingToSend \in [frames : Seq(Frames), terminal : BOOLEAN]
      BY DEF NothingToSend
    <3>2. [frames |-> batch.frames, terminal |-> batch.terminal]
            \in [frames : Seq(Frames), terminal : BOOLEAN]
      BY <1>5
    <3> QED BY <1>2, <3>1, <3>2
  <2>3. dropped' \subseteq Frames
    BY <1>2, <1>5, RangeOfSeq DEF FlowInv, FlowType
  <2> QED BY <1>1, <1>4, <2>1, <2>2, <2>3 DEF FlowInv, FlowType
<1>13. OccupancyOK'
  <2>1. ASSUME NEW lane \in Lane
        PROVE  /\ occupancy'[lane] = Weight(items', lane)
               /\ occupancy'[lane] <= occupancy[lane] /\ occupancy'[lane] \in Nat
               /\ occupancy[lane] \in Nat
    <3>1. Weight(items, lane) = WeightIn(lane, batch) + Weight(items', lane)
      BY <1>1, <1>3, WeightOfTail DEF batch
    <3>2. Weight(items', lane) \in Nat /\ WeightIn(lane, batch) \in Nat
      BY <1>4, <1>5, WeightNat, WeightInNat
    <3>3. occupancy[lane] = Weight(items, lane)
      BY DEF FlowInv, OccupancyOK
    <3>4. occupancy'[lane] = occupancy[lane] - WeightIn(lane, batch)
      BY <1>1, <1>3, <1>5 DEF WeightIn
    <3> QED BY <1>3, <3>1, <3>2, <3>3, <3>4
  <2>2. ASSUME NEW lane \in Lane, \A c \in Range(items') : ~ c.terminal
        PROVE  occupancy'[lane] <= Capacity(lane)
    <3>1. Capacity(lane) \in Nat
      BY TransportAssumption DEF Capacity
    <3>2. CASE batch.terminal
      <4>1. Len(items) = 1
        BY <1>4, <3>2 DEF FlowInv, Reserved
      <4>2. items' = <<>>
        BY <1>4, <4>1
      <4> QED BY <2>1, <3>1, <4>2, WeightOfNone
    <3>3. CASE ~ batch.terminal
      <4>1. occupancy[lane] <= Capacity(lane)
        BY <1>4, <2>2, <3>3 DEF FlowInv, OccupancyOK
      <4> QED BY <2>1, <3>1, <4>1
    <3> QED BY <3>2, <3>3
  <2> QED BY <2>1, <2>2 DEF OccupancyOK
<1>14. Accounted'
  <2>1. CASE ~ cut
    BY <1>1, <1>2, <1>11, <2>1 DEF FlowInv, Accounted
  <2>2. CASE cut
    <3>1. ConnectionError \notin Range(batch.frames)
      BY <1>4, <2>2 DEF FlowInv, Reserved, cut
    <3> QED BY <1>1, <1>2, <1>8, <1>9, <1>11, <2>2, <3>1 DEF FlowInv, Accounted
  <2> QED BY <2>1, <2>2
<1>15. InOrder'
  <2>1. Ordered(wire) /\ Ordered(batch.frames) /\ Precedes(wire, batch.frames)
    BY <1>4, <1>7 DEF FlowInv, InOrder
  <2>2. Ordered(Gone')
    BY <1>3, <1>5, <1>10, <2>1, OrderedConcat
  <2>3. Range(Gone') \subseteq Range(wire) \cup Range(batch.frames)
    <3>1. Range(wire \o batch.frames) = Range(wire) \cup Range(batch.frames)
      BY <1>3, <1>5, RangeConcatenation
    <3> QED BY <1>10, <3>1
  <2>4. ASSUME NEW k \in DOMAIN items'
        PROVE  Ordered(items'[k].frames) /\ Precedes(Gone', items'[k].frames)
    <3>1. 1 < k + 1 /\ k + 1 \in DOMAIN items /\ items'[k] = items[k + 1]
      BY <1>4
    <3>2. /\ Ordered(items[k + 1].frames) /\ Precedes(wire, items[k + 1].frames)
          /\ Precedes(batch.frames, items[k + 1].frames)
      BY <1>4, <1>7, <3>1 DEF FlowInv, InOrder
    <3> QED BY <2>3, <3>1, <3>2 DEF Precedes
  <2>5. ASSUME NEW j \in DOMAIN items', NEW k \in DOMAIN items', j < k
        PROVE  Precedes(items'[j].frames, items'[k].frames)
    <3>1. j + 1 < k + 1
      BY <1>4, <2>5
    <3> QED BY <1>4, <3>1 DEF FlowInv, InOrder
  <2> QED BY <2>2, <2>4, <2>5 DEF InOrder
<1>16. Reserved'
  <2>1. OnItsWay' \subseteq OnItsWay
    BY <1>8, <1>11
  <2>2. ConnectionError \in Range(sending'.frames) => sending'.terminal
    <3>1. CASE cut
      BY <1>2, <3>1 DEF NothingToSend, Range
    <3>2. CASE ~ cut
      BY <1>2, <1>4, <3>2 DEF FlowInv, Reserved
    <3> QED BY <3>1, <3>2
  <2>3. ASSUME NEW k \in DOMAIN items'
        PROVE  /\ ConnectionError \in Range(items'[k].frames) => items'[k].terminal
               /\ ~ items'[k].terminal
    <3>1. Len(items) # 1
      BY <1>4
    <3> QED BY <1>4, <3>1 DEF FlowInv, Reserved
  <2> QED BY <1>1, <2>1, <2>2, <2>3 DEF FlowInv, Reserved
<1>17. FarewellKept'
  <2> SUFFICES ASSUME farewell # <<>>, ~ lost PROVE sealed /\ Retained'
    BY <1>1 DEF FarewellKept
  <2>1. sealed /\ Len(items) = 1 /\ items[1].frames = farewell /\ items[1].terminal
    BY <1>1 DEF FlowInv, FarewellKept, Retained
  <2>2. items' = <<>>
    BY <1>4, <2>1
  <2>3. ~ cut /\ sending'.terminal /\ Gone' = wire \o farewell
    BY <1>2, <1>4, <1>10, <2>1 DEF cut
  <2> QED BY <1>1, <1>3, <2>1, <2>2, <2>3 DEF Retained
<1> QED BY <1>12, <1>13, <1>14, <1>15, <1>16, <1>17 DEF FlowInv

(* A frame goes out; the rest of the batch is still to be sent, or dropped *)
(* if the batch is cut.                                                    *)
LEMMA FlowOfSend ==
  ASSUME FlowInv, NEW cut \in BOOLEAN, sending.frames # <<>>, cut => ~ sending.terminal,
         wire' = Append(wire, Head(sending.frames)),
         sending' \in [frames : Seq(Frames), terminal : BOOLEAN],
         sending'.frames = (IF cut THEN <<>> ELSE Tail(sending.frames)),
         sending'.frames # <<>> => sending'.terminal = sending.terminal,
         dropped' = (IF cut THEN dropped \cup Range(Tail(sending.frames)) ELSE dropped),
         validator'.accepted = validator.accepted, lost => lost',
         UNCHANGED <<items, occupancy, sealed, farewell>>
  PROVE  FlowInv'
<1> DEFINE f == sending.frames
           rest == Tail(f)
<1>1. wire \in Seq(Frames) /\ f \in Seq(Frames) /\ f # <<>>
  BY DEF FlowInv, FlowType
<1>2. /\ rest \in Seq(Frames) /\ wire' \in Seq(Frames) /\ wire' \o rest = wire \o f
      /\ Head(f) \in Frames
  <2>1. rest \in Seq(Frames) /\ wire' \in Seq(Frames) /\ Head(f) \in Frames
    BY <1>1
  <2> QED BY <1>1, <2>1, MoveHead
<1>3. Range(f) = {Head(f)} \cup Range(rest) /\ Range(wire') = Range(wire) \cup {Head(f)}
  BY <1>1, RangeOfTail, RangeOfAppend
<1>4. IF cut THEN Gone' = wire' ELSE Gone' = Gone
  <2>1. wire' \o <<>> = wire'
    BY <1>2
  <2> HIDE DEF rest
  <2> QED BY <1>2, <2>1 DEF Gone, rest
<1>5. Ordered(wire' \o rest)
  BY <1>2 DEF FlowInv, InOrder, Gone
<1>6. Ordered(wire') /\ Range(wire') \cap Range(rest) = {}
  BY <1>2, <1>5, OrderedParts, PrecedesDisjoint
<1> HIDE DEF rest
<1>7. IF cut THEN OnItsWay = OnItsWay' \cup Range(rest) ELSE OnItsWay' = OnItsWay
  <2>1. Range(<<>>) = {} /\ FramesOf(items') = FramesOf(items)
    BY DEF Range, FramesOf
  <2> QED BY <1>3, <2>1 DEF OnItsWay, rest
<1>8. cut => Range(rest) \cap OnItsWay' = {} /\ ConnectionError \notin Range(rest)
  <2> SUFFICES ASSUME cut PROVE Range(rest) \cap OnItsWay' = {} /\ ConnectionError \notin Range(rest)
    OBVIOUS
  <2>1. FramesOf(items) \cap Range(rest) = {}
    <3>1. Range(rest) \subseteq Range(Gone)
      BY <1>3, FlowFacts
    <3>2. \A k \in DOMAIN items : Range(items[k].frames) \cap Range(rest) = {}
      BY <3>1, BatchesApart
    <3>3. \A b \in Range(items) : \E k \in DOMAIN items : b = items[k]
      BY DEF Range
    <3>4. \A b \in Range(items) : Range(b.frames) \cap Range(rest) = {}
      BY <3>2, <3>3
    <3> QED BY <3>4, Zenon DEF FramesOf
  <2>2. OnItsWay' = Range(wire') \cup FramesOf(items)
    BY DEF OnItsWay, Range, FramesOf
  <2>3. ConnectionError \notin Range(f)
    BY DEF FlowInv, Reserved
  <2> QED BY <1>3, <1>6, <2>1, <2>2, <2>3
<1>9. FlowType'
  <2>1. Range(rest) \subseteq Frames
    BY <1>2, RangeOfSeq DEF rest
  <2>2. dropped' \subseteq Frames
    BY <2>1 DEF FlowInv, FlowType, rest
  <2> QED BY <1>2, <2>2 DEF FlowInv, FlowType
<1>10. OccupancyOK'
  BY DEF FlowInv, OccupancyOK
<1>11. Accounted'
  BY <1>7, <1>8 DEF FlowInv, Accounted, rest
<1>12. InOrder'
  <2>1. Range(Gone') \subseteq Range(Gone)
    BY <1>3, <1>4, FlowFacts
  <2>2. Ordered(Gone')
    BY <1>4, <1>6 DEF FlowInv, InOrder
  <2> QED BY <2>1, <2>2 DEF FlowInv, InOrder, Precedes
<1>13. Reserved'
  <2>1. OnItsWay' \subseteq OnItsWay
    BY <1>7
  <2>2. ConnectionError \in Range(sending'.frames) => sending'.terminal
    <3>1. CASE sending'.frames = <<>>
      BY <3>1 DEF Range
    <3>2. CASE sending'.frames # <<>>
      BY <1>3, <3>2 DEF FlowInv, Reserved, rest
    <3> QED BY <3>1, <3>2
  <2> QED BY <2>1, <2>2 DEF FlowInv, Reserved
<1>14. FarewellKept'
  <2> SUFFICES ASSUME farewell # <<>>, ~ lost PROVE sealed /\ Retained'
    BY DEF FarewellKept
  <2>1. sealed /\ Retained
    BY DEF FlowInv, FarewellKept
  <2>2. CASE Len(items) = 1 /\ items[1].frames = farewell /\ items[1].terminal
    BY <2>1, <2>2 DEF Retained
  <2>3. CASE /\ items = <<>> /\ sending.terminal
             /\ \E u \in Seq(Frames) : Gone = u \o farewell
    <3>1. ~ cut /\ Gone' = Gone /\ (sending'.frames # <<>> => sending'.terminal)
      BY <1>4, <2>3
    <3> QED BY <2>1, <2>3, <3>1 DEF Retained
  <2> QED BY <1>1, <2>1, <2>2, <2>3 DEF Retained
<1> QED BY <1>9, <1>10, <1>11, <1>12, <1>13, <1>14 DEF FlowInv

-----------------------------------------------------------------------------
(* What the parts of a step keep.                                          *)

LEMMA TypeParts == CoreType /\ FlowType <=> TypeOK
BY DEF CoreType, FlowType, TypeOK, ValidatorType, OutcomeType, CloserType

(* The named close codes are close codes.                                  *)
LEMMA CloseCodesAre == {Normal, GoingAway, ProtocolError, Abnormal, InternalError} \subseteq CloseCodes
BY DEF CloseCodes

(* What _TransportOutcome is given.                                        *)
LEMMA OutcomeIs ==
  ASSUME NEW code \in CloseCodes
  PROVE  /\ \A eligible \in BOOLEAN : Outcome(code, eligible) \in OutcomeType
         /\ Outcome(code, code = GoingAway) \in OutcomeType
         /\ Outcome(code, LossEligible(code)) \in OutcomeType
<1>1. \A eligible \in BOOLEAN : Outcome(code, eligible) \in OutcomeType
  BY DEF Outcome, OutcomeType
<1>2. (code = GoingAway) \in BOOLEAN /\ LossEligible(code) \in BOOLEAN
  BY DEF LossEligible
<1> QED BY <1>1, <1>2, Zenon

(* What the close task is given.                                           *)
LEMMA CloserIs ==
  ASSUME NEW code \in CloseCodes, NEW drain \in BOOLEAN, NEW isLost \in BOOLEAN
  PROVE  /\ Closer("requested", code, drain, isLost) \in CloserType
         /\ Closer("requested", code, drain, isLost).step = "requested"
BY DEF Closer, CloserType

(* A validator that accepts n more messages.                               *)
LEMMA AcceptingIs ==
  ASSUME validator \in ValidatorType, NEW n \in Nat, Room(n)
  PROVE  Accepting(n) \in ValidatorType /\ Accepting(n).accepted = validator.accepted + n
<1>1. validator.accepted + n \in 0..MaxFrames
  BY TransportAssumption DEF Room, ValidatorType
<1> QED BY <1>1 DEF Accepting, ValidatorType

(* A validator that begins to close.                                       *)
LEMMA BeginCloseIs ==
  ASSUME NEW v \in ValidatorType
  PROVE  BeginClose(v) \in ValidatorType /\ BeginClose(v).accepted = v.accepted
BY DEF BeginClose, ValidatorType

(* What a request to close does to the shutdown: it stays where it is, or  *)
(* is requested for the first time.                                        *)
CloserGoes ==
  /\ outcome' \in OutcomeType /\ closer' \in CloserType
  /\ closer' = closer \/ (~ Closing /\ closer'.step = "requested")
ValidatorGoes ==
  validator' \in ValidatorType /\ validator'.accepted = validator.accepted

(* _schedule_close requests a shutdown unless one goes on.                 *)
LEMMA ScheduleCloseIs ==
  ASSUME CoreType
  PROVE  \A code \in CloseCodes, drain \in BOOLEAN : ScheduleClose(code, drain) => CloserGoes
<1> SUFFICES ASSUME NEW code \in CloseCodes, NEW drain \in BOOLEAN, ScheduleClose(code, drain)
             PROVE  CloserGoes
  OBVIOUS
<1>1. CASE Closing
  BY <1>1 DEF ScheduleClose, CoreType, CloserGoes
<1>2. CASE ~ Closing
  <2>1. outcome' = Outcome(code, code = GoingAway) /\ closer' = Closer("requested", code, drain, FALSE)
    BY <1>2 DEF ScheduleClose
  <2>2. outcome' \in OutcomeType
    BY <2>1, OutcomeIs, Zenon
  <2>3. closer' \in CloserType /\ closer'.step = "requested"
    BY <2>1, CloserIs
  <2>4. closer' = closer \/ (~ Closing /\ closer'.step = "requested")
    BY <1>2, <2>3
  <2> HIDE DEF Closing
  <2> QED BY <2>2, <2>3, <2>4 DEF CloserGoes
<1> QED BY <1>1, <1>2

(* _request_close.                                                         *)
LEMMA RequestCloseIs ==
  ASSUME CoreType
  PROVE  \A code \in CloseCodes, drain \in BOOLEAN :
           RequestClose(code, drain) => CloserGoes /\ ValidatorGoes
<1> SUFFICES ASSUME NEW code \in CloseCodes, NEW drain \in BOOLEAN, RequestClose(code, drain)
             PROVE  CloserGoes /\ ValidatorGoes
  OBVIOUS
<1>1. ScheduleClose(code, drain) /\ validator \in ValidatorType
  BY DEF RequestClose, CoreType
<1>2. validator' = validator \/ validator' = BeginClose(validator)
  BY Zenon DEF RequestClose
<1>3. validator' \in ValidatorType /\ validator'.accepted = validator.accepted
  BY <1>1, <1>2, BeginCloseIs
<1>4. CloserGoes
  BY <1>1, ScheduleCloseIs
<1> QED BY <1>3, <1>4 DEF ValidatorGoes

(* _request_fatal: the queue is cut and sealed.                            *)
LEMMA RequestFatalIs ==
  ASSUME IInv, RequestFatal, UNCHANGED <<sending, wire, lost>>
  PROVE  /\ outcome' \in OutcomeType /\ closer' \in CloserType /\ fatal' \in BOOLEAN
         /\ closer' = closer \/ (~ Closing /\ closer'.step = "requested")
         /\ validator' \in ValidatorType
         /\ FlowInv' /\ (Emptied => Emptied')
<1>1. CASE Closing
  <2>1. UNCHANGED <<items, occupancy, sealed, dropped, farewell, fatal, outcome, closer, validator>>
    BY <1>1 DEF RequestFatal, queue
  <2>2. FlowInv'
    BY <2>1, FlowUnchanged DEF IInv
  <2> QED BY <2>1, <2>2 DEF IInv, CoreType, Emptied
<1>2. CASE ~ Closing
  <2> DEFINE frames == IF Role = "server" THEN <<ConnectionError>> ELSE <<>>
  <2>1. fatal' = TRUE /\ Seal(frames) /\ RequestClose(ProtocolError, TRUE)
    BY <1>2 DEF RequestFatal
  <2>2. frames \in {<<>>, <<ConnectionError>>}
    OBVIOUS
  <2> HIDE DEF frames
  <2>3. /\ outcome' \in OutcomeType /\ closer' \in CloserType
        /\ closer' = closer \/ (~ Closing /\ closer'.step = "requested")
        /\ validator' \in ValidatorType /\ validator'.accepted = validator.accepted
    <3>1. ProtocolError \in CloseCodes /\ TRUE \in BOOLEAN /\ CoreType
      BY CloseCodesAre DEF IInv
    <3>2. RequestClose(ProtocolError, TRUE)
      BY <2>1
    <3>3. CloserGoes /\ ValidatorGoes
      BY <3>1, <3>2, RequestCloseIs, Zenon
    <3> QED BY <3>3 DEF CloserGoes, ValidatorGoes
  <2>4. CASE sealed
    <3>1. UNCHANGED <<items, occupancy, sealed, dropped, farewell>>
      BY <2>1, <2>4 DEF Seal, queue
    <3>2. FlowInv'
      BY <2>3, <3>1, FlowUnchanged DEF IInv
    <3> QED BY <2>1, <2>3, <3>1, <3>2 DEF Emptied
  <2>5. CASE ~ sealed
    <3>1. validator.accepted \in 0..MaxFrames
      BY DEF IInv, FlowInv, FlowType
    <3>2. Room(0) /\ validator'.accepted = validator.accepted + 0 /\ 0 \in Nat
      BY <2>3, <3>1, TransportAssumption DEF Room
    <3>3. FlowInv'
      BY <2>1, <2>2, <2>5, <3>2, FlowOfSeal DEF IInv
    <3> QED BY <2>1, <2>3, <2>5, <3>3 DEF Emptied
  <2> QED BY <2>4, <2>5
<1> QED BY <1>1, <1>2

(* _request_transport_loss: the queue is closed for good.                  *)
LEMMA RequestLossIs ==
  ASSUME IInv, link # Opened, RequestLoss(link), UNCHANGED <<validator, sending, wire>>
  PROVE  /\ outcome' \in OutcomeType /\ closer' \in CloserType /\ lost'
         /\ closer' = closer \/ (~ Closing /\ closer'.step = "requested")
         /\ FlowInv' /\ (Emptied => Emptied')
<1>1. link \in CloseCodes
  BY DEF IInv, CoreType
<1>2. /\ lost' = TRUE /\ outcome' = Outcome(link, LossEligible(link)) /\ CloseQueue(TRUE)
      /\ closer' = IF Closing THEN closer ELSE Closer("requested", link, FALSE, TRUE)
  BY DEF RequestLoss
<1>3. FlowInv'
  BY <1>2, FlowOfClose DEF IInv
<1>4. Emptied => Emptied'
  BY <1>2 DEF CloseQueue, Emptied
<1>5. outcome' \in OutcomeType
  <2>1. outcome' = Outcome(link, LossEligible(link))
    BY <1>2
  <2> QED BY <1>1, <2>1, OutcomeIs
<1>6. closer' \in CloserType /\ (closer' = closer \/ (~ Closing /\ closer'.step = "requested"))
  <2>1. CASE Closing
    BY <1>2, <2>1 DEF IInv, CoreType
  <2>2. CASE ~ Closing
    <3>1. closer' = Closer("requested", link, FALSE, TRUE) /\ FALSE \in BOOLEAN /\ TRUE \in BOOLEAN
      BY <1>2, <2>2
    <3> QED BY <1>1, <2>2, <3>1, CloserIs
  <2> QED BY <2>1, <2>2
<1> QED BY <1>2, <1>3, <1>4, <1>5, <1>6

(* The server's own answers are enqueued like any batch.                   *)
LEMMA AnsweredIs ==
  ASSUME IInv, NEW n \in Answers, Room(n), Answered(n),
         validator'.accepted = validator.accepted + n, UNCHANGED <<sending, wire, lost>>
  PROVE  FlowInv' /\ (Emptied => Emptied')
<1>1. n \in 0..MaxBatch
  BY TransportAssumption DEF Answers
<1>2. CASE n = 0 /\ UNCHANGED <<queue, dropped, farewell>>
  <2>1. validator'.accepted = validator.accepted
    BY <1>2 DEF IInv, CoreType, ValidatorType
  <2> QED BY <1>2, <2>1, FlowUnchanged DEF IInv, queue, Emptied
<1>3. CASE n > 0 /\ ~ sealed /\ ~ Overflow("control", n) /\ Put(NextMessages(n), "control", n)
  <2>1. n \in 1..MaxBatch /\ n \in Nat /\ "control" \in Lane
    BY <1>1, <1>3 DEF Lane
  <2>2. FlowInv'
    BY <1>3, <2>1, FlowOfPut DEF IInv
  <2> QED BY <1>3, <2>2 DEF Emptied
<1> QED BY <1>2, <1>3 DEF Answered

(* A step that leaves the shutdown where it is, or only requests it.       *)
LEMMA ShutdownKept ==
  ASSUME ShutdownInv, lost => lost', UNCHANGED stopped, Emptied => Emptied',
         closer' = closer \/ (~ Closing /\ closer'.step = "requested"),
         closer.step = "draining" =>
           writer' = writer \/ (writer' = "done" /\ (lost' \/ Emptied')),
         Closing /\ Joined => Joined'
  PROVE  ShutdownInv'
BY DEF ShutdownInv, Closing

-----------------------------------------------------------------------------
(* The application's calls.                                                *)

LEMMA StateOnly ==
  ASSUME validator \in ValidatorType, NEW state \in {"disconnected", "ready", "closing"}
  PROVE  /\ [validator EXCEPT !.state = state] \in ValidatorType
         /\ [validator EXCEPT !.state = state].accepted = validator.accepted
BY DEF ValidatorType

(* One lemma for each action, in the order of Next.                        *)
LEMMA StartKeeps == ASSUME IInv, Start PROVE IInv'
<1>1. /\ UNCHANGED <<queue, sending, fatal, lost, outcome, closer, link, wire, history>>
      /\ validator' = [validator EXCEPT !.state = "ready"] /\ ~ Closing
      /\ reader' = "running" /\ writer' = "running" /\ keepalive' = "running"
  BY DEF Start
<1>2. validator' \in ValidatorType /\ validator'.accepted = validator.accepted
  BY <1>1, StateOnly DEF IInv, CoreType
<1>3. FlowInv'
  BY <1>1, <1>2, FlowUnchanged DEF IInv, queue, history
<1>4. CoreType'
  BY <1>1, <1>2 DEF IInv, CoreType, history, TaskState
<1>5. ShutdownInv'
  BY <1>1 DEF IInv, ShutdownInv, Closing, Emptied, queue, history
<1> QED BY <1>3, <1>4, <1>5 DEF IInv

LEMMA EnqueueBatchKeeps == ASSUME IInv, EnqueueBatch PROVE IInv'
<1>1. PICK n \in 1..MaxBatch, lane \in Lane : \E weight \in {1, n} :
        /\ Started /\ Room(n) /\ ~ sealed /\ ~ Overflow(lane, weight)
        /\ Put(NextMessages(n), lane, weight)
        /\ validator' = Accepting(n)
        /\ UNCHANGED <<tasks, sending, fatal, lost, outcome, closer, link, wire, received, stopped>>
  BY DEF EnqueueBatch
<1>2. PICK weight \in {1, n} :
        /\ Started /\ Room(n) /\ ~ sealed /\ ~ Overflow(lane, weight)
        /\ Put(NextMessages(n), lane, weight)
        /\ validator' = Accepting(n)
        /\ UNCHANGED <<tasks, sending, fatal, lost, outcome, closer, link, wire, received, stopped>>
  BY <1>1
<1>3. n \in Nat /\ weight \in Nat
  BY TransportAssumption
<1>4. validator' \in ValidatorType /\ validator'.accepted = validator.accepted + n
  BY <1>2, <1>3, AcceptingIs DEF IInv, CoreType
<1>5. FlowInv'
  BY <1>2, <1>3, <1>4, FlowOfPut DEF IInv
<1>6. CoreType'
  BY <1>2, <1>4 DEF IInv, CoreType, tasks
<1>7. ShutdownInv'
  BY <1>2, ShutdownKept DEF IInv, Emptied, tasks, Joined
<1> QED BY <1>5, <1>6, <1>7 DEF IInv

LEMMA CommitInputAudioKeeps == ASSUME IInv, CommitInputAudio PROVE IInv'
<1>1. PICK n \in 0..MaxBatch :
        /\ Role = "server" /\ Started /\ Room(n) /\ validator.committed < MaxCommits
        /\ validator' = [Accepting(n) EXCEPT !.committed = @ + 1]
        /\ Answered(n)
        /\ UNCHANGED <<tasks, sending, fatal, lost, outcome, closer, link, wire, received, stopped>>
  BY DEF CommitInputAudio
<1>2. n \in Nat /\ n \in Answers
  BY <1>1, TransportAssumption DEF Answers
<1>3. Accepting(n) \in ValidatorType /\ Accepting(n).accepted = validator.accepted + n
  BY <1>1, <1>2, AcceptingIs DEF IInv, CoreType
<1>4. Accepting(n).committed = validator.committed
  BY DEF IInv, CoreType, ValidatorType, Accepting
<1>5. validator' \in ValidatorType /\ validator'.accepted = validator.accepted + n
  <2>1. validator.committed + 1 \in 0..MaxCommits
    BY <1>1, TransportAssumption DEF IInv, CoreType, ValidatorType
  <2>2. validator' = [Accepting(n) EXCEPT !.committed = validator.committed + 1]
    BY <1>1, <1>4
  <2> QED BY <1>3, <2>1, <2>2 DEF ValidatorType
<1>6. FlowInv' /\ (Emptied => Emptied')
  BY <1>1, <1>2, <1>5, AnsweredIs
<1>7. CoreType'
  BY <1>1, <1>5 DEF IInv, CoreType, tasks
<1>8. ShutdownInv'
  BY <1>1, <1>6, ShutdownKept DEF IInv, tasks, Joined
<1> QED BY <1>6, <1>7, <1>8 DEF IInv

LEMMA DiscardQueuedKeeps == ASSUME IInv, DiscardQueued PROVE IInv'
<1>1. UNCHANGED <<validator, sealed, tasks, sending, fatal, lost, outcome, closer,
                  link, wire, received, farewell, stopped>>
  BY DEF DiscardQueued
<1>2. FlowInv'
  BY FlowOfDiscard DEF IInv
<1>3. CoreType'
  BY <1>1 DEF IInv, CoreType, tasks
<1>4. ~ Emptied
  BY DEF DiscardQueued, Emptied, Range
<1>5. ShutdownInv'
  BY <1>1, <1>4, ShutdownKept DEF IInv, tasks, Joined
<1> QED BY <1>2, <1>3, <1>5 DEF IInv

LEMMA SealOrderlyKeeps == ASSUME IInv, SealOrderly PROVE IInv'
<1>1. PICK n \in 1..MaxBatch :
        /\ Room(n) /\ ~ sealed /\ Seal(NextMessages(n))
        /\ validator' = Accepting(n)
        /\ UNCHANGED <<tasks, sending, fatal, lost, outcome, closer, link, wire, received, stopped>>
  BY DEF SealOrderly
<1>2. n \in Nat
  BY TransportAssumption
<1>3. validator' \in ValidatorType /\ validator'.accepted = validator.accepted + n
  BY <1>1, <1>2, AcceptingIs DEF IInv, CoreType
<1>4. FlowInv'
  BY <1>1, <1>2, <1>3, FlowOfSeal DEF IInv
<1>5. CoreType'
  BY <1>1, <1>3 DEF IInv, CoreType, tasks
<1>6. ShutdownInv'
  BY <1>1, ShutdownKept DEF IInv, Emptied, tasks, Joined
<1> QED BY <1>4, <1>5, <1>6 DEF IInv

LEMMA CloseKeeps == ASSUME IInv, Close PROVE IInv'
<1>1. PICK code \in {Normal, GoingAway, InternalError} :
        /\ ~ Closing /\ RequestClose(code, sealed)
        /\ UNCHANGED <<queue, tasks, sending, fatal, lost, link, wire, history>>
  BY DEF Close
<1>2. code \in CloseCodes /\ sealed \in BOOLEAN
  BY CloseCodesAre DEF IInv, FlowInv, FlowType
<1>3. /\ outcome' \in OutcomeType /\ closer' \in CloserType
      /\ closer' = closer \/ (~ Closing /\ closer'.step = "requested")
      /\ validator' \in ValidatorType /\ validator'.accepted = validator.accepted
  <2>1. RequestClose(code, sealed) /\ CoreType
    BY <1>1 DEF IInv
  <2>2. CloserGoes /\ ValidatorGoes
    BY <1>2, <2>1, RequestCloseIs, Zenon
  <2> QED BY <2>2 DEF CloserGoes, ValidatorGoes
<1>4. FlowInv'
  BY <1>1, <1>3, FlowUnchanged DEF IInv, queue, history
<1>5. CoreType'
  BY <1>1, <1>3 DEF IInv, CoreType, tasks, history
<1>6. ShutdownInv'
  BY <1>1, <1>3, ShutdownKept DEF IInv, Emptied, queue, tasks, history, Joined
<1> QED BY <1>4, <1>5, <1>6 DEF IInv

LEMMA FailConnectionKeeps == ASSUME IInv, FailConnection PROVE IInv'
<1>1. /\ Started /\ Room(1) /\ ~ sealed /\ ~ Overflow("control", 1)
      /\ Put(NextMessages(1), "control", 1)
      /\ outcome' = Outcome(ProtocolError, FALSE)
      /\ closer' = Closer("requested", ProtocolError, TRUE, FALSE)
      /\ validator' = [Accepting(1) EXCEPT !.state = "closing"]
      /\ UNCHANGED <<tasks, sending, fatal, lost, link, wire, received, stopped>>
  BY DEF FailConnection
<1>2. 1 \in 1..MaxBatch /\ 1 \in Nat /\ "control" \in Lane
  BY TransportAssumption DEF Lane
<1>3. Accepting(1) \in ValidatorType /\ Accepting(1).accepted = validator.accepted + 1
  BY <1>1, <1>2, AcceptingIs DEF IInv, CoreType
<1>4. validator' \in ValidatorType /\ validator'.accepted = validator.accepted + 1
  BY <1>1, <1>3 DEF ValidatorType
<1>5. FlowInv'
  BY <1>1, <1>2, <1>4, FlowOfPut DEF IInv
<1>6. ProtocolError \in CloseCodes /\ TRUE \in BOOLEAN /\ FALSE \in BOOLEAN
  BY CloseCodesAre
<1>7. outcome' \in OutcomeType
  <2>1. outcome' = Outcome(ProtocolError, FALSE)
    BY <1>1
  <2> QED BY <1>6, <2>1 DEF Outcome, OutcomeType
<1>8. closer' \in CloserType /\ closer'.step = "requested" /\ ~ Closing
  BY <1>1, <1>6 DEF Started, Closer, CloserType
<1>9. CoreType'
  BY <1>1, <1>4, <1>7, <1>8 DEF IInv, CoreType, tasks
<1>10. ShutdownInv'
  BY <1>1, <1>8, ShutdownKept DEF IInv, Emptied, tasks, Joined
<1> QED BY <1>5, <1>9, <1>10 DEF IInv

-----------------------------------------------------------------------------
(* The reader.                                                             *)

LEMMA ReceivesIs ==
  ASSUME IInv, Receives
  PROVE  /\ reader = "running" /\ received' \in 0..MaxInbound
         /\ UNCHANGED <<writer, keepalive, sending, lost, link, wire, stopped>>
         /\ ~ Joined
<1>1. received + 1 \in 0..MaxInbound
  BY TransportAssumption DEF Receives, IInv, CoreType
<1> QED BY <1>1 DEF Receives, Joined

(* A message the rules reject.                                             *)
LEMMA ReceiveIllegalKeeps == ASSUME IInv, ReceiveIllegal PROVE IInv'
<1>1. Receives /\ reader' = "done" /\ RequestFatal
  BY DEF ReceiveIllegal
<1>2. /\ received' \in 0..MaxInbound
      /\ UNCHANGED <<writer, keepalive, sending, lost, link, wire, stopped>> /\ ~ Joined
  BY <1>1, ReceivesIs
<1>3. /\ outcome' \in OutcomeType /\ closer' \in CloserType /\ fatal' \in BOOLEAN
      /\ closer' = closer \/ (~ Closing /\ closer'.step = "requested")
      /\ validator' \in ValidatorType /\ FlowInv' /\ (Emptied => Emptied')
  BY <1>1, <1>2, RequestFatalIs
<1>4. CoreType'
  BY <1>1, <1>2, <1>3 DEF IInv, CoreType, TaskState
<1>5. ShutdownInv'
  BY <1>2, <1>3, ShutdownKept DEF IInv
<1> QED BY <1>3, <1>4, <1>5 DEF IInv

(* A message they accept, answered or not.                                 *)
LEMMA ReceiveLegalKeeps == ASSUME IInv, ReceiveLegal PROVE IInv'
<1>1. PICK n \in Answers :
        /\ Receives /\ Room(n) /\ Answered(n)
        /\ validator' = Accepting(n)
        /\ UNCHANGED <<reader, fatal, outcome, closer>>
  BY DEF ReceiveLegal
<1>2. n \in Nat
  BY TransportAssumption DEF Answers
<1>3. /\ received' \in 0..MaxInbound
      /\ UNCHANGED <<writer, keepalive, sending, lost, link, wire, stopped>> /\ ~ Joined
  BY <1>1, ReceivesIs
<1>4. validator' \in ValidatorType /\ validator'.accepted = validator.accepted + n
  BY <1>1, <1>2, AcceptingIs DEF IInv, CoreType
<1>5. FlowInv' /\ (Emptied => Emptied')
  BY <1>1, <1>3, <1>4, AnsweredIs
<1>6. CoreType'
  BY <1>1, <1>3, <1>4 DEF IInv, CoreType
<1>7. ShutdownInv'
  BY <1>1, <1>3, <1>5, ShutdownKept DEF IInv
<1> QED BY <1>5, <1>6, <1>7 DEF IInv

LEMMA AnswerRefusedKeeps == ASSUME IInv, AnswerRefused PROVE IInv'
<1>1. /\ Receives /\ reader' = "done" /\ RequestClose(InternalError, FALSE)
      /\ UNCHANGED <<queue, dropped, farewell, fatal>>
  BY DEF AnswerRefused
<1>2. /\ received' \in 0..MaxInbound
      /\ UNCHANGED <<writer, keepalive, sending, lost, link, wire, stopped>> /\ ~ Joined
  BY <1>1, ReceivesIs
<1>3. InternalError \in CloseCodes /\ FALSE \in BOOLEAN /\ CoreType
  BY CloseCodesAre DEF IInv
<1>4. CloserGoes /\ ValidatorGoes
  <2>1. RequestClose(InternalError, FALSE)
    BY <1>1
  <2> QED BY <1>3, <2>1, RequestCloseIs, Zenon
<1>5. /\ outcome' \in OutcomeType /\ closer' \in CloserType
      /\ closer' = closer \/ (~ Closing /\ closer'.step = "requested")
      /\ validator' \in ValidatorType /\ validator'.accepted = validator.accepted
  BY <1>4 DEF CloserGoes, ValidatorGoes
<1>6. FlowInv'
  BY <1>1, <1>2, <1>5, FlowUnchanged DEF IInv, queue
<1>7. CoreType'
  BY <1>1, <1>2, <1>5 DEF IInv, CoreType, TaskState
<1>8. ShutdownInv'
  BY <1>1, <1>2, <1>5, ShutdownKept DEF IInv, Emptied, queue
<1> QED BY <1>6, <1>7, <1>8 DEF IInv

LEMMA ReceiveHookFailsKeeps == ASSUME IInv, ReceiveHookFails PROVE IInv'
<1>1. PICK n \in Answers :
        /\ Receives /\ Room(n) /\ Answered(n)
        /\ reader' = "done" /\ fatal' = fatal
        /\ ScheduleClose(InternalError, FALSE)
        /\ validator' = IF Closing THEN Accepting(n) ELSE BeginClose(Accepting(n))
  BY DEF ReceiveHookFails
<1>2. n \in Nat
  BY TransportAssumption DEF Answers
<1>3. /\ received' \in 0..MaxInbound
      /\ UNCHANGED <<writer, keepalive, sending, lost, link, wire, stopped>> /\ ~ Joined
  BY <1>1, ReceivesIs
<1>4. Accepting(n) \in ValidatorType /\ Accepting(n).accepted = validator.accepted + n
  BY <1>1, <1>2, AcceptingIs DEF IInv, CoreType
<1>5. validator' \in ValidatorType /\ validator'.accepted = validator.accepted + n
  <2>1. validator' \in {Accepting(n), BeginClose(Accepting(n))}
    BY <1>1
  <2> QED BY <1>4, <2>1, BeginCloseIs
<1>6. FlowInv' /\ (Emptied => Emptied')
  BY <1>1, <1>3, <1>5, AnsweredIs
<1>7. InternalError \in CloseCodes /\ FALSE \in BOOLEAN /\ CoreType
  BY CloseCodesAre DEF IInv
<1>8. CloserGoes
  <2>1. ScheduleClose(InternalError, FALSE)
    BY <1>1
  <2> QED BY <1>7, <2>1, ScheduleCloseIs, Zenon
<1>9. /\ outcome' \in OutcomeType /\ closer' \in CloserType
      /\ closer' = closer \/ (~ Closing /\ closer'.step = "requested")
  BY <1>8 DEF CloserGoes
<1>10. CoreType'
  BY <1>1, <1>3, <1>5, <1>9 DEF IInv, CoreType, TaskState
<1>11. ShutdownInv'
  BY <1>3, <1>6, <1>9, ShutdownKept DEF IInv
<1> QED BY <1>6, <1>10, <1>11 DEF IInv

LEMMA ReceiveConnectionErrorKeeps == ASSUME IInv, ReceiveConnectionError PROVE IInv'
<1>1. /\ Receives /\ reader' = "done" /\ fatal' = TRUE /\ Seal(<<>>)
      /\ ScheduleClose(ProtocolError, TRUE) /\ validator' = BeginClose(validator)
  BY DEF ReceiveConnectionError
<1>2. /\ received' \in 0..MaxInbound
      /\ UNCHANGED <<writer, keepalive, sending, lost, link, wire, stopped>> /\ ~ Joined
  BY <1>1, ReceivesIs
<1>3. validator' \in ValidatorType /\ validator'.accepted = validator.accepted
  BY <1>1, BeginCloseIs DEF IInv, CoreType
<1>4. FlowInv' /\ (Emptied => Emptied')
  <2>1. CASE sealed
    <3>1. UNCHANGED <<items, occupancy, sealed, dropped, farewell>>
      BY <1>1, <2>1 DEF Seal, queue
    <3>2. FlowInv'
      BY <1>2, <1>3, <3>1, FlowUnchanged DEF IInv
    <3> QED BY <1>2, <3>1, <3>2 DEF Emptied
  <2>2. CASE ~ sealed
    <3>1. validator.accepted \in 0..MaxFrames
      BY DEF IInv, FlowInv, FlowType
    <3>2. Room(0) /\ validator'.accepted = validator.accepted + 0 /\ 0 \in Nat
      BY <1>3, <3>1, TransportAssumption DEF Room
    <3>3. FlowInv'
      BY <1>1, <1>2, <2>2, <3>2, FlowOfSeal DEF IInv
    <3> QED BY <2>2, <3>3 DEF Emptied
  <2> QED BY <2>1, <2>2
<1>5. ProtocolError \in CloseCodes /\ TRUE \in BOOLEAN /\ CoreType
  BY CloseCodesAre DEF IInv
<1>6. CloserGoes
  <2>1. ScheduleClose(ProtocolError, TRUE)
    BY <1>1
  <2> QED BY <1>5, <2>1, ScheduleCloseIs, Zenon
<1>7. /\ outcome' \in OutcomeType /\ closer' \in CloserType
      /\ closer' = closer \/ (~ Closing /\ closer'.step = "requested")
  BY <1>6 DEF CloserGoes
<1>8. CoreType'
  BY <1>1, <1>2, <1>3, <1>7 DEF IInv, CoreType, TaskState
<1>9. ShutdownInv'
  BY <1>2, <1>4, <1>7, ShutdownKept DEF IInv
<1> QED BY <1>4, <1>8, <1>9 DEF IInv

(* A task finds the WebSocket closed.                                      *)
LEMMA LossKeeps ==
  ASSUME IInv, link # Opened, RequestLoss(link),
         UNCHANGED <<validator, sending, fatal, link, wire, received, stopped>>,
         \/ reader = "running" /\ reader' = "done" /\ UNCHANGED <<writer, keepalive>>
         \/ writer = "running" /\ writer' = "done" /\ UNCHANGED <<reader, keepalive>>
         \/ keepalive = "running" /\ keepalive' = "done" /\ UNCHANGED <<reader, writer>>
  PROVE  IInv'
<1>1. /\ outcome' \in OutcomeType /\ closer' \in CloserType /\ lost'
      /\ closer' = closer \/ (~ Closing /\ closer'.step = "requested")
      /\ FlowInv' /\ (Emptied => Emptied')
  BY RequestLossIs
<1>2. lost' \in BOOLEAN
  BY DEF RequestLoss
<1>3. CoreType'
  BY <1>1, <1>2 DEF IInv, CoreType, TaskState
<1>4. ~ Joined
  BY DEF Joined
<1>5. ShutdownInv'
  BY <1>1, <1>4, ShutdownKept DEF IInv
<1> QED BY <1>1, <1>3, <1>5 DEF IInv

LEMMA LosesKeeps == ASSUME IInv, ReaderLoses \/ WriterLoses \/ KeepaliveLoses PROVE IInv'
BY LossKeeps DEF ReaderLoses, WriterLoses, KeepaliveLoses

-----------------------------------------------------------------------------
(* The writer, the keepalive task and cancellation.                        *)

LEMMA WriterGetsKeeps == ASSUME IInv, WriterGets PROVE IInv'
<1>1. /\ items # <<>>
      /\ UNCHANGED <<validator, sealed, tasks, fatal, lost, outcome, closer, link, wire,
                     received, farewell, stopped>>
  BY DEF WriterGets
<1>2. FlowInv'
  BY FlowOfGet DEF IInv
<1>3. CoreType'
  BY <1>1 DEF IInv, CoreType, tasks
<1>4. ShutdownInv'
  BY <1>1, ShutdownKept DEF IInv, Emptied, tasks, Joined
<1> QED BY <1>2, <1>3, <1>4 DEF IInv

LEMMA WriterEndsKeeps == ASSUME IInv, WriterEnds PROVE IInv'
<1>1. /\ writer = "running" /\ Emptied /\ writer' = "done"
      /\ UNCHANGED <<validator, queue, reader, keepalive, sending, fatal, lost, outcome,
                     closer, link, wire, history>>
  BY DEF WriterEnds, Emptied
<1>2. FlowInv'
  BY <1>1, FlowUnchanged DEF IInv, queue, history
<1>3. CoreType'
  BY <1>1 DEF IInv, CoreType, TaskState, history
<1>4. Emptied' /\ ~ Joined
  BY <1>1 DEF Emptied, queue, Joined
<1>5. ShutdownInv'
  BY <1>1, <1>4, ShutdownKept DEF IInv, history
<1> QED BY <1>2, <1>3, <1>5 DEF IInv

LEMMA WriterSendsKeeps == ASSUME IInv, WriterSends PROVE IInv'
<1> DEFINE rest == Tail(sending.frames)
           cut == fatal /\ ~ sending.terminal
<1>1. /\ sending.frames # <<>>
      /\ wire' = Append(wire, Head(sending.frames))
      /\ sending' = IF cut \/ rest = <<>> THEN NothingToSend ELSE [sending EXCEPT !.frames = rest]
      /\ dropped' = IF cut THEN dropped \cup Range(rest) ELSE dropped
      /\ UNCHANGED <<validator, queue, tasks, fatal, lost, outcome, closer, link, received,
                     farewell, stopped>>
  BY DEF WriterSends
<1>2. sending \in [frames : Seq(Frames), terminal : BOOLEAN] /\ rest \in Seq(Frames)
  BY <1>1 DEF IInv, FlowInv, FlowType
<1> HIDE DEF rest
<1>3. /\ sending' \in [frames : Seq(Frames), terminal : BOOLEAN]
      /\ sending'.frames = IF cut THEN <<>> ELSE rest
      /\ sending'.frames # <<>> => sending'.terminal = sending.terminal
  <2>1. /\ NothingToSend \in [frames : Seq(Frames), terminal : BOOLEAN]
        /\ NothingToSend.frames = <<>>
    BY DEF NothingToSend
  <2>2. CASE cut \/ rest = <<>>
    BY <1>1, <2>1, <2>2
  <2>3. CASE ~ (cut \/ rest = <<>>)
    <3>1. sending' = [sending EXCEPT !.frames = rest]
      BY <1>1, <2>3
    <3> QED BY <1>2, <2>3, <3>1
  <2> QED BY <2>2, <2>3
<1>4. UNCHANGED <<items, occupancy, sealed, farewell>> /\ validator'.accepted = validator.accepted
  BY <1>1 DEF queue
<1>5. cut \in BOOLEAN /\ (cut => ~ sending.terminal)
  OBVIOUS
<1> HIDE DEF cut
<1>6. FlowInv'
  BY <1>1, <1>3, <1>4, <1>5, FlowOfSend DEF IInv, rest
<1>7. CoreType'
  BY <1>1 DEF IInv, CoreType, tasks
<1>8. ShutdownInv'
  BY <1>1, ShutdownKept DEF IInv, Emptied, tasks, Joined
<1> QED BY <1>6, <1>7, <1>8 DEF IInv

LEMMA WriterCancelledKeeps == ASSUME IInv, WriterCancelled PROVE IInv'
<1>1. /\ writer = "cancelling" /\ writer' = "done"
      /\ UNCHANGED <<validator, queue, reader, keepalive, fatal, lost, outcome, closer,
                     link, history>>
  BY DEF WriterCancelled
<1>2. FlowInv' /\ (Emptied => Emptied')
  <2>1. CASE UNCHANGED <<sending, wire>>
    BY <1>1, <2>1, FlowUnchanged DEF IInv, queue, history, Emptied
  <2>2. CASE /\ sending.frames # <<>>
             /\ wire' = Append(wire, Head(sending.frames))
             /\ sending' = [sending EXCEPT !.frames = Tail(@)]
    <3>1. sending \in [frames : Seq(Frames), terminal : BOOLEAN]
      BY DEF IInv, FlowInv, FlowType
    <3>2. /\ sending' \in [frames : Seq(Frames), terminal : BOOLEAN]
          /\ sending'.frames = Tail(sending.frames) /\ sending'.terminal = sending.terminal
      <4>1. sending' = [sending EXCEPT !.frames = Tail(sending.frames)]
        BY <2>2
      <4>2. Tail(sending.frames) \in Seq(Frames)
        BY <2>2, <3>1
      <4> QED BY <3>1, <4>1, <4>2
    <3>3. UNCHANGED <<items, occupancy, sealed, farewell, dropped, lost>>
          /\ validator'.accepted = validator.accepted
      BY <1>1 DEF queue, history
    <3>4. ASSUME NEW cut \in BOOLEAN, cut = FALSE
          PROVE  FlowInv'
      BY <2>2, <3>2, <3>3, <3>4, FlowOfSend DEF IInv
    <3> QED BY <2>2, <3>4 DEF Emptied
  <2> QED BY <2>1, <2>2 DEF WriterCancelled
<1>3. CoreType'
  BY <1>1 DEF IInv, CoreType, TaskState, history
<1>4. closer.step # "draining" /\ ~ Joined
  BY <1>1 DEF IInv, ShutdownInv, Joined
<1>5. ShutdownInv'
  BY <1>1, <1>2, <1>4, ShutdownKept DEF IInv, history
<1> QED BY <1>2, <1>3, <1>5 DEF IInv

LEMMA PingTimesOutKeeps == ASSUME IInv, PingTimesOut PROVE IInv'
<1>1. /\ keepalive = "running" /\ keepalive' = "done" /\ RequestFatal
      /\ UNCHANGED <<reader, writer, sending, lost, link, wire, received, stopped>>
  BY DEF PingTimesOut
<1>2. /\ outcome' \in OutcomeType /\ closer' \in CloserType /\ fatal' \in BOOLEAN
      /\ closer' = closer \/ (~ Closing /\ closer'.step = "requested")
      /\ validator' \in ValidatorType /\ FlowInv' /\ (Emptied => Emptied')
  BY <1>1, RequestFatalIs
<1>3. CoreType'
  BY <1>1, <1>2 DEF IInv, CoreType, TaskState
<1>4. ~ Joined
  BY <1>1 DEF Joined
<1>5. ShutdownInv'
  BY <1>1, <1>2, <1>4, ShutdownKept DEF IInv
<1> QED BY <1>2, <1>3, <1>5 DEF IInv

LEMMA CancelledKeeps == ASSUME IInv, ReaderCancelled \/ KeepaliveCancelled PROVE IInv'
<1>1. /\ UNCHANGED <<validator, queue, writer, sending, fatal, lost, outcome, closer, link,
                     wire, history>>
      /\ reader' \in {reader, "done"} /\ keepalive' \in {keepalive, "done"} /\ ~ Joined
  BY DEF ReaderCancelled, KeepaliveCancelled, Joined
<1>2. FlowInv'
  BY <1>1, FlowUnchanged DEF IInv, queue, history
<1>3. CoreType'
  BY <1>1 DEF IInv, CoreType, TaskState, history
<1>4. ShutdownInv'
  BY <1>1, ShutdownKept DEF IInv, Emptied, queue, history
<1> QED BY <1>2, <1>3, <1>4 DEF IInv

-----------------------------------------------------------------------------
(* The close task and the network.                                         *)

LEMMA GoToIs ==
  ASSUME CoreType, NEW step \in {"none", "requested", "draining", "joining", "closing", "closed"},
         GoTo(step)
  PROVE  closer' \in CloserType /\ closer'.step = step
BY DEF CoreType, GoTo, CloserType

(* What cancelling makes of a task.                                        *)
LEMMA CancelledIs ==
  ASSUME NEW task \in TaskState
  PROVE  Cancelled(task) \in TaskState
BY DEF Cancelled, TaskState

LEMMA ShutdownStartsKeeps == ASSUME IInv, ShutdownStarts PROVE IInv'
<1> DEFINE waits == closer.drain /\ writer = "running"
           step == IF waits THEN "draining" ELSE "joining"
           discard == ~ closer.drain
<1>1. /\ reader' = Cancelled(reader) /\ keepalive' = Cancelled(keepalive)
      /\ writer' = IF waits THEN writer ELSE Cancelled(writer)
      /\ CloseQueue(discard) /\ GoTo(step)
      /\ UNCHANGED <<validator, sending, fatal, lost, outcome, link, wire, received, stopped>>
  BY DEF ShutdownStarts
<1>2. discard \in BOOLEAN
  OBVIOUS
<1> HIDE DEF discard
<1>3. FlowInv' /\ (Emptied => Emptied')
  <2>1. FlowInv'
    BY <1>1, <1>2, FlowOfClose DEF IInv
  <2>2. Emptied => Emptied'
    BY <1>1 DEF CloseQueue, Emptied
  <2> QED BY <2>1, <2>2
<1>4. closer' \in CloserType /\ closer'.step = step
  BY <1>1, GoToIs DEF IInv
<1>5. reader' \in TaskState /\ writer' \in TaskState /\ keepalive' \in TaskState
  BY <1>1, CancelledIs DEF IInv, CoreType
<1>6. CoreType'
  BY <1>1, <1>4, <1>5 DEF IInv, CoreType
<1>7. ShutdownInv'
  <2>1. closer'.step = "draining" => writer' = "running"
    BY <1>1, <1>4
  <2>2. closer'.step \notin {"closing", "closed"}
    BY <1>4
  <2> QED BY <1>1, <1>3, <2>1, <2>2 DEF IInv, ShutdownInv
<1> QED BY <1>3, <1>6, <1>7 DEF IInv

LEMMA DrainEndsKeeps == ASSUME IInv, DrainEnds PROVE IInv'
<1>1. /\ closer.step = "draining" /\ writer = "done" /\ stopped' = "drained" /\ GoTo("joining")
      /\ UNCHANGED <<validator, queue, tasks, sending, fatal, lost, outcome, link, wire,
                     dropped, received, farewell>>
  BY DEF DrainEnds
<1>2. FlowInv'
  BY <1>1, FlowUnchanged DEF IInv, queue
<1>3. closer' \in CloserType /\ closer'.step = "joining"
  BY <1>1, GoToIs DEF IInv
<1>4. CoreType'
  BY <1>1, <1>3 DEF IInv, CoreType, tasks
<1>5. ShutdownInv'
  BY <1>1, <1>3 DEF IInv, ShutdownInv, Emptied, queue
<1> QED BY <1>2, <1>4, <1>5 DEF IInv

LEMMA DrainTimesOutKeeps == ASSUME IInv, DrainTimesOut PROVE IInv'
<1>1. /\ writer' = Cancelled(writer) /\ stopped' = "timeout" /\ GoTo("joining")
      /\ UNCHANGED <<validator, queue, reader, keepalive, sending, fatal, lost, outcome,
                     link, wire, dropped, received, farewell>>
  BY DEF DrainTimesOut
<1>2. FlowInv'
  BY <1>1, FlowUnchanged DEF IInv, queue
<1>3. closer' \in CloserType /\ closer'.step = "joining"
  BY <1>1, GoToIs DEF IInv
<1>4. CoreType'
  BY <1>1, <1>3, CancelledIs DEF IInv, CoreType
<1>5. ShutdownInv'
  BY <1>1, <1>3 DEF ShutdownInv
<1> QED BY <1>2, <1>4, <1>5 DEF IInv

(* The close is done with the tasks, or with the socket as well.           *)
LEMMA PastJoin ==
  ASSUME IInv, Joined, closer.step \in {"joining", "closing"},
         UNCHANGED <<queue, tasks, sending, fatal, lost, outcome, wire, history>>,
         link' \in CloseCodes \cup {Opened},
         \/ GoTo("closing") /\ validator' = validator
         \/ Finish
  PROVE  IInv'
<1>1. /\ closer' \in CloserType /\ closer'.step \in {"closing", "closed"}
      /\ validator' \in ValidatorType /\ validator'.accepted = validator.accepted
  BY GoToIs, StateOnly DEF IInv, CoreType, Finish
<1>2. FlowInv'
  BY <1>1, FlowUnchanged DEF IInv, queue, history
<1>3. CoreType'
  BY <1>1 DEF IInv, CoreType, tasks, history
<1>4. Joined' /\ (Emptied => Emptied')
  BY DEF Joined, tasks, Emptied, queue
<1>5. ShutdownInv'
  BY <1>1, <1>4 DEF IInv, ShutdownInv, history
<1> QED BY <1>2, <1>3, <1>5 DEF IInv

LEMMA JoinEndsKeeps == ASSUME IInv, JoinEnds PROVE IInv'
<1>1. link \in CloseCodes \cup {Opened}
  BY DEF IInv, CoreType
<1> QED BY <1>1, PastJoin DEF JoinEnds

(* The WebSocket is closed, or was lost.                                   *)
LEMMA SocketClosesKeeps == ASSUME IInv, SocketCloses PROVE IInv'
<1>1. link \in CloseCodes \cup {Opened} /\ closer.code \in CloseCodes /\ Joined
  BY DEF IInv, CoreType, CloserType, ShutdownInv, SocketCloses
<1>2. link' \in CloseCodes \cup {Opened}
  BY <1>1 DEF SocketCloses
<1> QED BY <1>1, <1>2, PastJoin DEF SocketCloses

LEMMA LinkClosesKeeps == ASSUME IInv, LinkCloses PROVE IInv'
<1>1. /\ link' \in CloseCodes
      /\ UNCHANGED <<validator, queue, tasks, sending, fatal, lost, outcome, closer, wire, history>>
  BY DEF LinkCloses
<1>2. FlowInv'
  BY <1>1, FlowUnchanged DEF IInv, queue, history
<1>3. CoreType'
  BY <1>1 DEF IInv, CoreType, tasks, history
<1>4. ShutdownInv'
  BY <1>1, ShutdownKept DEF IInv, Emptied, queue, tasks, history, Joined
<1> QED BY <1>2, <1>3, <1>4 DEF IInv

LEMMA StutterKeeps == ASSUME IInv, UNCHANGED vars PROVE IInv'
<1>1. FlowInv'
  BY FlowUnchanged DEF IInv, vars, queue, history
<1>2. CoreType'
  BY DEF IInv, CoreType, vars, tasks, history
<1>3. ShutdownInv'
  BY ShutdownKept DEF IInv, Emptied, vars, queue, tasks, history, Joined
<1> QED BY <1>1, <1>2, <1>3 DEF IInv

-----------------------------------------------------------------------------
(* The invariant holds, and with it the properties the run checks.         *)

LEMMA InitIInv == Init => IInv
<1> SUFFICES ASSUME Init PROVE IInv
  OBVIOUS
<1>1. PICK role \in Roles :
        validator = [role |-> role, state |-> "disconnected", accepted |-> 0, committed |-> 0]
  BY DEF Init
<1>2. /\ items = <<>> /\ occupancy = [lane \in Lane |-> 0] /\ sealed = FALSE
      /\ sending = NothingToSend /\ wire = <<>> /\ dropped = {} /\ farewell = <<>>
      /\ fatal = FALSE /\ lost = FALSE /\ outcome = NoOutcome /\ closer = NoCloser
      /\ link = Opened /\ received = 0 /\ stopped = "none"
      /\ reader = "idle" /\ writer = "idle" /\ keepalive = "idle"
  BY DEF Init
<1>3. CoreType
  <2>1. validator \in ValidatorType
    BY <1>1, TransportAssumption DEF ValidatorType
  <2>2. outcome \in OutcomeType /\ closer \in CloserType
    BY <1>2 DEF NoOutcome, NoCloser, OutcomeType, CloserType, NoCode, CloseCodes
  <2>3. received \in 0..MaxInbound /\ link \in CloseCodes \cup {Opened}
    BY <1>2, TransportAssumption
  <2>4. fatal \in BOOLEAN /\ lost \in BOOLEAN
    BY <1>2
  <2>5. {reader, writer, keepalive} \subseteq TaskState /\ stopped \in {"none", "drained", "timeout"}
    BY <1>2 DEF TaskState
  <2> QED BY <2>1, <2>2, <2>3, <2>4, <2>5 DEF CoreType
<1>4. FlowType
  <2>1. validator.accepted \in 0..MaxFrames
    BY <1>1, TransportAssumption
  <2>2. /\ sending \in [frames : Seq(Frames), terminal : BOOLEAN]
        /\ occupancy \in [Lane -> Nat] /\ dropped \subseteq Frames
    BY <1>2 DEF NothingToSend
  <2>3. wire \in Seq(Frames) /\ farewell \in Seq(Frames) /\ items \in Seq(Batches)
    BY <1>2
  <2>4. sealed \in BOOLEAN
    BY <1>2
  <2> QED BY <2>1, <2>2, <2>3, <2>4 DEF FlowType
<1>5. /\ Gone = <<>> /\ OnItsWay = {} /\ sending.frames = <<>> /\ DOMAIN items = {}
      /\ Range(sending.frames) = {}
  BY <1>2 DEF Gone, OnItsWay, NothingToSend, FramesOf, Range
<1>6. OccupancyOK
  BY <1>2, WeightOfNone, TransportAssumption DEF OccupancyOK, Capacity
<1>7. Accounted
  BY <1>1, <1>2, <1>5 DEF Accounted
<1>8. InOrder
  BY <1>5 DEF InOrder, Ordered
<1>9. Reserved /\ FarewellKept
  BY <1>2, <1>5 DEF Reserved, FarewellKept
<1>10. ShutdownInv
  BY <1>2 DEF ShutdownInv, NoCloser
<1> QED BY <1>3, <1>4, <1>6, <1>7, <1>8, <1>9, <1>10 DEF FlowInv, IInv

(* Every step keeps the invariant.                                         *)
LEMMA NextIInv == IInv /\ [Next]_vars => IInv'
<1> SUFFICES ASSUME IInv, [Next]_vars PROVE IInv'
  OBVIOUS
<1>1. CASE Application
  BY <1>1, StartKeeps, EnqueueBatchKeeps, CommitInputAudioKeeps, DiscardQueuedKeeps,
     SealOrderlyKeeps, CloseKeeps, FailConnectionKeeps DEF Application
<1>2. CASE Reader
  BY <1>2, ReceiveIllegalKeeps, ReceiveLegalKeeps, AnswerRefusedKeeps, ReceiveHookFailsKeeps,
     ReceiveConnectionErrorKeeps, LosesKeeps, CancelledKeeps DEF Reader
<1>3. CASE Writer
  BY <1>3, WriterGetsKeeps, WriterEndsKeeps, WriterSendsKeeps, LosesKeeps,
     WriterCancelledKeeps DEF Writer
<1>4. CASE Keepalive
  BY <1>4, PingTimesOutKeeps, LosesKeeps, CancelledKeeps DEF Keepalive
<1>5. CASE Shutdown
  BY <1>5, ShutdownStartsKeeps, DrainEndsKeeps, DrainTimesOutKeeps, JoinEndsKeeps,
     SocketClosesKeeps DEF Shutdown
<1>6. CASE LinkCloses
  BY <1>6, LinkClosesKeeps
<1>7. CASE Rest \/ UNCHANGED vars
  BY <1>7, StutterKeeps DEF Rest
<1> QED BY <1>1, <1>2, <1>3, <1>4, <1>5, <1>6, <1>7 DEF Next

(* The inductive invariant: types, the flow of the frames from the queue   *)
(* to the wire, and the shutdown.                                          *)
THEOREM Invariance == Spec => []IInv
BY InitIInv, NextIInv, PTL DEF Spec

(* The state of _TransportCore and _BoundedBatchQueue stays well formed    *)
(* (the transport's fields).                                               *)
THEOREM TypeCorrect == Spec => []TypeOK
<1>1. IInv => TypeOK
  BY TypeParts DEF IInv, FlowInv
<1> QED BY Invariance, <1>1, PTL

(* The counters of _BoundedBatchQueue agree with its batches whatever puts,*)
(* gets, discards, seals and closes came before, for every capacity, and   *)
(* only the reserved terminal batch may exceed a lane's capacity.          *)
THEOREM OccupancyCorrect == Spec => []OccupancyOK
<1>1. IInv => OccupancyOK
  BY DEF IInv, FlowInv
<1> QED BY Invariance, <1>1, PTL

(* Every message the validator accepted is on its way or was dropped by a  *)
(* discard, a seal, a close or a fatal error, and never both.              *)
THEOREM AccountsBalance == Spec => []Accounted
<1>1. IInv => Accounted
  BY DEF IInv, FlowInv
<1> QED BY Invariance, <1>1, PTL

(* Messages are sent in the order in which the validator accepted them and *)
(* at most once, and the connection error comes last.                      *)
THEOREM OrderKept == Spec => []InOrder
<1>1. IInv => InOrder
  BY DEF IInv, FlowInv
<1> QED BY Invariance, <1>1, PTL

(* A close that drained the queue has sent what the seal retained, as the  *)
(* last thing on the wire.                                                 *)
THEOREM LastWordsSent == Spec => []LastWords
<1>1. IInv => LastWords
  <2> SUFFICES ASSUME IInv, stopped = "drained", ~ lost
               PROVE  IsSuffix(farewell, wire)
    BY DEF LastWords
  <2>1. wire \in Seq(Frames) /\ farewell \in Seq(Frames)
    BY DEF IInv, FlowInv, FlowType
  <2>2. items = <<>> /\ sending.frames = <<>>
    BY DEF IInv, ShutdownInv, Emptied
  <2>3. Gone = wire
    BY <2>1, <2>2 DEF Gone
  <2>4. CASE farewell = <<>>
    <3>1. wire = wire \o farewell
      BY <2>1, <2>4
    <3> QED BY <2>1, <3>1, SuffixOfConcat
  <2>5. CASE farewell # <<>>
    <3>1. \E u \in Seq(Frames) : Gone = u \o farewell
      BY <2>2, <2>5 DEF IInv, FlowInv, FarewellKept, Retained
    <3> QED BY <2>1, <2>3, <3>1, SuffixOfConcat
  <2> QED BY <2>4, <2>5
<1> QED BY Invariance, <1>1, PTL

(* Once the shutdown closes the socket every task is gone: nothing more is *)
(* sent or accepted.                                                       *)
THEOREM QuietOnceClosing == Spec => QuietAfterClose
<1>1. IInv /\ [Next]_vars =>
        [closer.step \in {"closing", "closed"} =>
           wire' = wire /\ validator'.accepted = validator.accepted]_vars
  <2> SUFFICES ASSUME IInv, [Next]_vars, closer.step \in {"closing", "closed"}
               PROVE  wire' = wire /\ validator'.accepted = validator.accepted
    OBVIOUS
  <2>1. /\ Closing /\ reader # "running" /\ writer \notin {"running", "cancelling"}
        /\ keepalive # "running" /\ validator \in ValidatorType
    BY DEF IInv, ShutdownInv, Joined, Closing, CoreType
  <2>2. CASE Application
    <3>1. ~ Start /\ ~ EnqueueBatch /\ ~ SealOrderly /\ ~ FailConnection
      BY <2>1 DEF Start, EnqueueBatch, SealOrderly, FailConnection, Started
    <3>2. ~ CommitInputAudio /\ ~ Close
      BY <2>1 DEF CommitInputAudio, Close, Started
    <3>3. DiscardQueued => wire' = wire /\ validator' = validator
      BY DEF DiscardQueued
    <3> QED BY <2>2, <3>1, <3>2, <3>3 DEF Application
  <2>3. CASE Reader
    BY <2>1, <2>3 DEF Reader, ReceiveIllegal, ReceiveLegal, AnswerRefused, ReceiveHookFails,
       ReceiveConnectionError, Receives, ReaderLoses, ReaderCancelled
  <2>4. CASE Writer
    BY <2>1, <2>4 DEF Writer, WriterGets, WriterEnds, WriterSends, WriterLoses, WriterCancelled
  <2>5. CASE Keepalive
    BY <2>1, <2>5 DEF Keepalive, PingTimesOut, KeepaliveLoses, KeepaliveCancelled
  <2>6. CASE Shutdown
    BY <2>1, <2>6, StateOnly DEF Shutdown, ShutdownStarts, DrainEnds, DrainTimesOut, JoinEnds,
       SocketCloses, Finish
  <2>7. CASE LinkCloses \/ Rest \/ UNCHANGED vars
    BY <2>7 DEF LinkCloses, Rest, vars
  <2> QED BY <2>2, <2>3, <2>4, <2>5, <2>6, <2>7 DEF Next
<1> QED BY Invariance, <1>1, PTL DEF Spec, QuietAfterClose

(* After a fatal error the writer finishes the send it is in and goes on   *)
(* with no other frame of an ordinary batch.                               *)
THEOREM FatalCutsBatches == Spec => FatalCuts
<1>1. [Next]_vars =>
        [fatal /\ writer = "running" /\ sending' # sending =>
           sending'.frames = <<>> \/ sending'.terminal]_vars
  <2> SUFFICES ASSUME Next, fatal, writer = "running", sending' # sending
               PROVE  sending'.frames = <<>> \/ sending'.terminal
    OBVIOUS
  <2>1. CASE WriterGets
    BY <2>1 DEF WriterGets, NothingToSend
  <2>2. CASE WriterSends
    <3>1. CASE sending' = NothingToSend
      BY <3>1 DEF NothingToSend
    <3>2. CASE sending' # NothingToSend
      BY <2>2, <3>2 DEF WriterSends
    <3> QED BY <3>1, <3>2
  <2>3. CASE Application
    <3>1. (Start \/ EnqueueBatch \/ SealOrderly \/ FailConnection) => sending' = sending
      BY DEF Start, EnqueueBatch, SealOrderly, FailConnection
    <3>2. CommitInputAudio => sending' = sending
      BY Zenon DEF CommitInputAudio
    <3>3. DiscardQueued => sending' = sending
      BY DEF DiscardQueued
    <3>4. Close => sending' = sending
      BY DEF Close
    <3> QED BY <2>3, <3>1, <3>2, <3>3, <3>4 DEF Application
  <2>4. CASE Reader
    BY <2>4 DEF Reader, ReceiveIllegal, ReceiveLegal, AnswerRefused, ReceiveHookFails,
       ReceiveConnectionError, Receives, ReaderLoses, ReaderCancelled
  <2>5. CASE WriterEnds \/ WriterLoses \/ WriterCancelled
    BY <2>5 DEF WriterEnds, WriterLoses, WriterCancelled
  <2>6. CASE Keepalive
    BY <2>6 DEF Keepalive, PingTimesOut, KeepaliveLoses, KeepaliveCancelled
  <2>7. CASE Shutdown
    BY <2>7 DEF Shutdown, ShutdownStarts, DrainEnds, DrainTimesOut, JoinEnds, SocketCloses
  <2>8. CASE LinkCloses \/ Rest
    BY <2>8 DEF LinkCloses, Rest, vars
  <2> QED BY <2>1, <2>2, <2>3, <2>4, <2>5, <2>6, <2>7, <2>8 DEF Next, Writer
<1> QED BY <1>1, PTL DEF Spec, FatalCuts
=============================================================================
