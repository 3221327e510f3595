----------------------------- MODULE ClientProof -----------------------------
(***************************************************************************)
(* Proofs about Client: whatever is submitted, handed over and discarded,  *)
(* the counters of the ingress are the totals of its queue and its         *)
(* pre-roll never exceeds its bound; once close waits for the end of the   *)
(* conversation, nothing but its last words is left to send; a closed      *)
(* input is silent; and the audio of an open one has no gap.               *)
(*                                                                         *)
(* In the first part, of the counters and of close, the validators play no *)
(* part: what they accept decides which steps are taken.  The second, of   *)
(* the audio, follows what the validators of the ingress, the core and the *)
(* server know of every input, message by message.                         *)
(***************************************************************************)
EXTENDS Client, ProtocolProof, SequenceLemmas

-----------------------------------------------------------------------------
(* The queue of the ingress.                                               *)

FramesOf(S) == [b \in S |-> b.frames]
ControlOf(S) == [b \in S |-> IF b.lane = "control" THEN 1 ELSE 0]
AudioOfMessages(S) == [m \in S |-> IF m.type = "input.audio" THEN m.frames ELSE 0]

(* A batch of audio holds no more of it than it was counted with.          *)
IsAudio(messages, frames) ==
  /\ messages \in Seq(Range(messages))
  /\ \A m \in Range(messages) : m.type = "input.audio" => m.frames \in Nat
  /\ AudioFrames(messages) <= frames
IsBatch(b) ==
  /\ b.lane \in {"data", "control"} /\ b.frames \in Nat
  /\ b.lane = "control" => b.frames = 0
  /\ b.lane = "data" => /\ b = Batch(b.messages, b.lane, b.frames, b.input_id)
                        /\ IsAudio(b.messages, b.frames)
IsQueue(bs) == bs \in Seq(Range(bs)) /\ \A b \in Range(bs) : IsBatch(b)

LEMMA QueueOf ==
  ASSUME NEW S, NEW bs \in Seq(S), \A b \in S : IsBatch(b)
  PROVE  IsQueue(bs)
BY InRange DEF IsQueue

(* Its totals, weighed over any set that its batches are from.             *)
LEMMA QueueTotals ==
  ASSUME NEW S, NEW bs \in Seq(S), \A b \in S : IsBatch(b)
  PROVE  /\ FramesOf(S) \in [S -> Nat] /\ ControlOf(S) \in [S -> Nat]
         /\ FramesIn(bs) = Total(bs, FramesOf(S)) /\ FramesIn(bs) \in Nat
         /\ ControlsIn(bs) = Total(bs, ControlOf(S)) /\ ControlsIn(bs) \in Nat
<1>1. FramesOf(S) \in [S -> Nat] /\ ControlOf(S) \in [S -> Nat]
  BY DEF FramesOf, ControlOf, IsBatch
<1>2. \A k \in DOMAIN bs : bs[k] \in S
  OBVIOUS
<1>3. [k \in DOMAIN bs |-> bs[k].frames] = [k \in DOMAIN bs |-> FramesOf(S)[bs[k]]]
  BY <1>2 DEF FramesOf
<1>4. [k \in DOMAIN bs |-> IF bs[k].lane = "control" THEN 1 ELSE 0]
        = [k \in DOMAIN bs |-> ControlOf(S)[bs[k]]]
  BY <1>2 DEF ControlOf
<1>5. FramesIn(bs) = Total(bs, FramesOf(S))
  BY <1>3, Zenon DEF FramesIn, Total
<1>6. ControlsIn(bs) = Total(bs, ControlOf(S))
  BY <1>4, Zenon DEF ControlsIn, Total
<1> QED BY <1>1, <1>5, <1>6, Weights

LEMMA EmptyQueue == IsQueue(<<>>) /\ FramesIn(<<>>) = 0 /\ ControlsIn(<<>>) = 0
<1> DEFINE S == {}
<1>1. <<>> \in Seq(S) /\ \A b \in S : IsBatch(b)
  OBVIOUS
<1> HIDE DEF S
<1>2. IsQueue(<<>>)
  BY <1>1, QueueOf
<1>3. /\ FramesIn(<<>>) = Total(<<>>, FramesOf(S))
      /\ ControlsIn(<<>>) = Total(<<>>, ControlOf(S))
  BY <1>1, QueueTotals
<1> QED BY <1>2, <1>3, TotalOfNone

(* _enqueue_locked.                                                        *)
LEMMA AppendToQueue ==
  ASSUME NEW bs, IsQueue(bs), NEW b, IsBatch(b)
  PROVE  /\ IsQueue(Append(bs, b))
         /\ FramesIn(bs) \in Nat /\ ControlsIn(bs) \in Nat
         /\ FramesIn(Append(bs, b)) = FramesIn(bs) + b.frames
         /\ ControlsIn(Append(bs, b))
              = ControlsIn(bs) + (IF b.lane = "control" THEN 1 ELSE 0)
<1> DEFINE S == Range(bs) \cup {b}
           t == Append(bs, b)
<1>1. bs \in Seq(S)
  <2>1. Range(bs) \subseteq S
    OBVIOUS
  <2> QED BY <2>1, SeqMonotonic DEF IsQueue
<1>2. \A c \in S : IsBatch(c)
  BY DEF IsQueue
<1>3. b \in S
  OBVIOUS
<1> HIDE DEF S
<1>4. t \in Seq(S)
  BY <1>1, <1>3
<1>5. /\ FramesOf(S) \in [S -> Nat] /\ ControlOf(S) \in [S -> Nat]
      /\ FramesIn(bs) = Total(bs, FramesOf(S)) /\ FramesIn(bs) \in Nat
      /\ ControlsIn(bs) = Total(bs, ControlOf(S)) /\ ControlsIn(bs) \in Nat
  BY <1>1, <1>2, QueueTotals
<1>6. Total(t, FramesOf(S)) = Total(bs, FramesOf(S)) + FramesOf(S)[b]
  BY <1>1, <1>3, <1>5, TotalOfAppend
<1>7. Total(t, ControlOf(S)) = Total(bs, ControlOf(S)) + ControlOf(S)[b]
  BY <1>1, <1>3, <1>5, TotalOfAppend
<1>8. FramesOf(S)[b] = b.frames /\ ControlOf(S)[b] = IF b.lane = "control" THEN 1 ELSE 0
  BY <1>3 DEF FramesOf, ControlOf
<1> HIDE DEF t
<1>9. /\ IsQueue(t) /\ FramesIn(t) = Total(t, FramesOf(S))
      /\ ControlsIn(t) = Total(t, ControlOf(S))
  BY <1>2, <1>4, QueueOf, QueueTotals
<1> QED BY <1>5, <1>6, <1>7, <1>8, <1>9 DEF t

(* acknowledge.                                                            *)
LEMMA TailOfQueue ==
  ASSUME NEW bs, IsQueue(bs), bs # <<>>
  PROVE  /\ IsBatch(Head(bs)) /\ IsQueue(Tail(bs))
         /\ FramesIn(Tail(bs)) \in Nat /\ ControlsIn(Tail(bs)) \in Nat
         /\ FramesIn(bs) = Head(bs).frames + FramesIn(Tail(bs))
         /\ ControlsIn(bs)
              = (IF Head(bs).lane = "control" THEN 1 ELSE 0) + ControlsIn(Tail(bs))
<1> DEFINE S == Range(bs)
           t == Tail(bs)
           b == Head(bs)
<1>1. bs \in Seq(S) /\ \A c \in S : IsBatch(c)
  BY DEF IsQueue
<1> HIDE DEF S
<1>2. t \in Seq(S) /\ b \in S
  BY <1>1
<1>3. /\ FramesOf(S) \in [S -> Nat] /\ ControlOf(S) \in [S -> Nat]
      /\ FramesIn(bs) = Total(bs, FramesOf(S)) /\ ControlsIn(bs) = Total(bs, ControlOf(S))
  BY <1>1, QueueTotals
<1>4. Total(bs, FramesOf(S)) = FramesOf(S)[b] + Total(t, FramesOf(S))
  BY <1>1, <1>3, TotalOfTail
<1>5. Total(bs, ControlOf(S)) = ControlOf(S)[b] + Total(t, ControlOf(S))
  BY <1>1, <1>3, TotalOfTail
<1> HIDE DEF t, b
<1>6. FramesOf(S)[b] = b.frames /\ ControlOf(S)[b] = IF b.lane = "control" THEN 1 ELSE 0
  BY <1>2 DEF FramesOf, ControlOf
<1>7. /\ IsQueue(t) /\ FramesIn(t) = Total(t, FramesOf(S)) /\ FramesIn(t) \in Nat
      /\ ControlsIn(t) = Total(t, ControlOf(S)) /\ ControlsIn(t) \in Nat
  BY <1>1, <1>2, QueueOf, QueueTotals
<1>8. IsBatch(b)
  BY <1>1, <1>2
<1> QED BY <1>3, <1>4, <1>5, <1>6, <1>7, <1>8 DEF t, b
LEMMA AudioTotals ==
  ASSUME NEW S, NEW messages \in Seq(S), \A m \in S : m.type = "input.audio" => m.frames \in Nat
  PROVE  /\ AudioOfMessages(S) \in [S -> Nat] /\ AudioFrames(messages) \in Nat
         /\ AudioFrames(messages) = Total(messages, AudioOfMessages(S))
<1>1. AudioOfMessages(S) \in [S -> Nat]
  BY DEF AudioOfMessages
<1>2. \A k \in DOMAIN messages : messages[k] \in S
  OBVIOUS
<1>3. [k \in DOMAIN messages |->
         IF messages[k].type = "input.audio" THEN messages[k].frames ELSE 0]
        = [k \in DOMAIN messages |-> AudioOfMessages(S)[messages[k]]]
  BY <1>2 DEF AudioOfMessages
<1>4. AudioFrames(messages) = Total(messages, AudioOfMessages(S))
  BY <1>3, Zenon DEF AudioFrames, Total
<1> QED BY <1>1, <1>4, Weights

(* _discard_input_audio_locked: a batch keeps its lane and loses audio.    *)
LEMMA TrimmedIs ==
  ASSUME NEW b, IsBatch(b), NEW closed
  PROVE  /\ IsBatch(Trimmed(b, closed)) /\ Trimmed(b, closed).lane = b.lane
         /\ Trimmed(b, closed).frames <= b.frames
<1> DEFINE t == Trimmed(b, closed)
           R == Range(b.messages)
           elements == {m \in R : m.type = "input.audio" =>
                                    m.start_frame < closed.accepted_end_frame}
           kept == Only(elements, b.messages)
<1>1. CASE b.lane = "control" \/ b.input_id # closed.input_id
  BY <1>1 DEF Trimmed, IsBatch
<1>2. CASE ~ (b.lane = "control" \/ b.input_id # closed.input_id)
  <2>1. t = [b EXCEPT !.messages = kept, !.frames = AudioFrames(kept)]
    BY <1>2 DEF Trimmed
  <2>2. /\ b = Batch(b.messages, b.lane, b.frames, b.input_id)
        /\ b.lane = "data" /\ b.frames \in Nat /\ b.messages \in Seq(R)
        /\ \A m \in R : m.type = "input.audio" => m.frames \in Nat
        /\ AudioFrames(b.messages) <= b.frames
    BY <1>2 DEF IsBatch, IsAudio
  <2> HIDE DEF t, kept
  <2>3. t = Batch(kept, b.lane, AudioFrames(kept), b.input_id)
    BY <2>1, <2>2 DEF Batch
  <2>4. t.messages = kept /\ t.lane = "data" /\ t.frames = AudioFrames(kept)
    BY <2>2, <2>3 DEF Batch
  <2> HIDE DEF R, elements
  <2>5. /\ AudioOfMessages(R) \in [R -> Nat] /\ AudioFrames(b.messages) \in Nat
        /\ AudioFrames(b.messages) = Total(b.messages, AudioOfMessages(R))
    BY <2>2, AudioTotals
  <2>6. /\ kept \in Seq(R \cap elements)
        /\ Total(kept, AudioOfMessages(R)) <= Total(b.messages, AudioOfMessages(R))
    BY <2>2, <2>5, TotalOfOnly DEF kept, Remains
  <2>7. kept \in Seq(R)
    BY <2>6, SeqMonotonic
  <2>8. AudioFrames(kept) \in Nat /\ AudioFrames(kept) = Total(kept, AudioOfMessages(R))
    BY <2>2, <2>7, AudioTotals
  <2>9. AudioFrames(kept) <= b.frames
    BY <2>2, <2>5, <2>6, <2>8
  <2>10. IsAudio(kept, AudioFrames(kept))
    <3>1. kept \in Seq(Range(kept)) /\ Range(kept) \subseteq R
      BY <2>7, InRange
    <3> QED BY <2>2, <2>8, <3>1 DEF IsAudio
  <2>11. t = Batch(t.messages, t.lane, t.frames, t.input_id)
    BY <2>3, <2>4 DEF Batch
  <2>12. IsBatch(t)
    BY <2>4, <2>8, <2>10, <2>11 DEF IsBatch
  <2> QED BY <2>2, <2>4, <2>9, <2>12 DEF t
<1> QED BY <1>1, <1>2

LEMMA WithoutClosedAudioIs ==
  ASSUME NEW bs, IsQueue(bs), NEW closed
  PROVE  LET rest == WithoutClosedAudio(bs, closed) IN
         /\ IsQueue(rest) /\ FramesIn(bs) \in Nat
         /\ FramesIn(rest) \in Nat /\ FramesIn(rest) <= FramesIn(bs)
         /\ ControlsIn(rest) = ControlsIn(bs)
<1> DEFINE N == Len(bs)
           trimmed == [k \in DOMAIN bs |-> Trimmed(bs[k], closed)]
           R == Range(trimmed)
           elements == {b \in R : b.lane = "control" \/ b.frames > 0}
           rest == Only(elements, trimmed)
<1>1. /\ N \in Nat /\ DOMAIN bs = 1..N /\ bs \in Seq(Range(bs))
      /\ \A b \in Range(bs) : IsBatch(b)
  BY DEF IsQueue
<1>2. \A k \in 1..N : bs[k] \in Range(bs) /\ IsBatch(bs[k])
  BY <1>1
<1>3. \A k \in 1..N : /\ IsBatch(trimmed[k]) /\ trimmed[k].lane = bs[k].lane
                      /\ trimmed[k].frames <= bs[k].frames
  BY <1>1, <1>2, TrimmedIs
<1>4. DOMAIN trimmed = 1..N /\ Len(trimmed) = N /\ trimmed = [k \in 1..N |-> trimmed[k]]
  BY <1>1
<1> HIDE DEF trimmed, N
<1>5. trimmed \in Seq(R) /\ \A b \in R : IsBatch(b)
  <2>1. \A k \in 1..N : trimmed[k] \in R
    BY <1>4 DEF Range
  <2>2. \A b \in R : IsBatch(b)
    BY <1>3, <1>4 DEF Range
  <2> HIDE DEF R
  <2>3. trimmed \in Seq(R)
    BY <1>1, <1>4, <2>1
  <2> QED BY <2>2, <2>3
<1> HIDE DEF R
<1>6. /\ FramesOf(R) \in [R -> Nat] /\ ControlOf(R) \in [R -> Nat]
      /\ FramesIn(trimmed) = Total(trimmed, FramesOf(R)) /\ FramesIn(trimmed) \in Nat
      /\ ControlsIn(trimmed) = Total(trimmed, ControlOf(R)) /\ ControlsIn(trimmed) \in Nat
  BY <1>5, QueueTotals
<1>7. FramesIn(bs) \in Nat /\ ControlsIn(bs) \in Nat
  BY <1>1, QueueTotals
<1>8. FramesIn(trimmed) <= FramesIn(bs)
  <2> DEFINE f == [k \in 1..N |-> trimmed[k].frames]
             g == [k \in 1..N |-> bs[k].frames]
  <2>1. \A k \in 1..N : /\ trimmed[k].frames \in Nat /\ bs[k].frames \in Nat
                        /\ trimmed[k].frames <= bs[k].frames
    BY <1>2, <1>3 DEF IsBatch
  <2>2. /\ DOMAIN f = 1..N /\ f = [k \in 1..N |-> f[k]]
        /\ DOMAIN g = 1..N /\ g = [k \in 1..N |-> g[k]]
        /\ \A k \in 1..N : f[k] \in Nat /\ g[k] \in Nat /\ f[k] <= g[k]
    BY <2>1
  <2>3. FramesIn(trimmed) = SumOf(f) /\ FramesIn(bs) = SumOf(g)
    BY <1>1, <1>4 DEF FramesIn
  <2> HIDE DEF f, g
  <2>4. f \in Seq(Nat) /\ g \in Seq(Nat) /\ Len(f) = N /\ Len(g) = N
    <3>1. N \in Nat
      BY <1>1
    <3>2. f \in Seq(Nat) /\ Len(f) = N
      BY ONLY <2>2, <3>1
    <3>3. g \in Seq(Nat) /\ Len(g) = N
      BY ONLY <2>2, <3>1
    <3> QED BY <3>2, <3>3
  <2>5. SumOf(f) <= SumOf(g)
    BY <2>2, <2>4, SumMonotone
  <2> QED BY <2>3, <2>5
<1>9. ControlsIn(trimmed) = ControlsIn(bs)
  <2>1. [k \in DOMAIN trimmed |-> IF trimmed[k].lane = "control" THEN 1 ELSE 0]
          = [k \in DOMAIN bs |-> IF bs[k].lane = "control" THEN 1 ELSE 0]
    BY <1>1, <1>3, <1>4
  <2> QED BY <2>1 DEF ControlsIn
<1>10. /\ rest \in Seq(R \cap elements)
       /\ Total(rest, FramesOf(R)) <= Total(trimmed, FramesOf(R))
  <2> HIDE DEF elements
  <2> QED BY <1>5, <1>6, TotalOfOnly DEF Remains
<1>11. Total(rest, ControlOf(R)) = Total(trimmed, ControlOf(R))
  <2>1. \A b \in R \ elements : ControlOf(R)[b] = 0
    BY DEF ControlOf
  <2> DEFINE w == ControlOf(R)
  <2>2. w \in [R -> Nat] /\ \A b \in R \ elements : w[b] = 0
    BY <1>6, <2>1
  <2> HIDE DEF w, elements
  <2>3. Total(Only(elements, trimmed), w) = Total(trimmed, w)
    <3>1. Remains(R \ elements, w, Total(Only(elements, trimmed), w), Total(trimmed, w))
      BY <1>5, <2>2, TotalOfOnly
    <3> QED BY <2>2, <3>1 DEF Remains
  <2> QED BY <2>3 DEF w
<1>12. rest \in Seq(R)
  BY <1>10, SeqMonotonic
<1> HIDE DEF rest, elements
<1>13. /\ IsQueue(rest) /\ FramesIn(rest) = Total(rest, FramesOf(R)) /\ FramesIn(rest) \in Nat
       /\ ControlsIn(rest) = Total(rest, ControlOf(R))
  BY <1>5, <1>12, QueueOf, QueueTotals
<1>14. WithoutClosedAudio(bs, closed) = rest
  BY DEF WithoutClosedAudio, rest, elements, trimmed, R
<1>15. FramesIn(rest) <= FramesIn(bs)
  BY <1>6, <1>7, <1>8, <1>10, <1>13
<1>16. ControlsIn(rest) = ControlsIn(bs)
  BY <1>6, <1>9, <1>11, <1>13
<1> QED BY <1>7, <1>13, <1>14, <1>15, <1>16
-----------------------------------------------------------------------------
(* The pre-roll.                                                           *)

IsPreRoll(spans) == spans \in Seq(Positive) /\ SumOf(spans) <= PreRollFrames

LEMMA Largest ==
  ASSUME NEW N \in Nat, NEW C, C \subseteq 1..N, C # {}
  PROVE  \E c \in C : \A j \in C : j <= c
<1> DEFINE D == {N - j : j \in C}
<1>1. D \subseteq Nat /\ D # {}
  <2>1. \A j \in C : N - j \in Nat
    OBVIOUS
  <2>2. PICK j \in C : TRUE
    OBVIOUS
  <2>3. N - j \in D
    OBVIOUS
  <2> QED BY <2>1, <2>3
<1>2. IsWellFoundedOn(LessThan, Nat)
  BY NatLessThanWellFounded DEF LessThan, OpToRel
<1>3. PICK d \in D : \A m \in D : ~ (<<m, d>> \in LessThan)
  <2> HIDE DEF D
  <2> QED BY <1>1, <1>2, WFMin, Zenon
<1>4. \A m \in D : ~ (m < d)
  <2> SUFFICES ASSUME NEW m \in D, m < d PROVE FALSE
    OBVIOUS
  <2>1. m \in Nat /\ d \in Nat
    BY <1>1
  <2>2. <<m, d>> \in LessThan
    BY <2>1 DEF LessThan
  <2> QED BY <1>3, <2>2
<1>5. PICK c \in C : d = N - c
  OBVIOUS
<1>6. ASSUME NEW j \in C PROVE j <= c
  <2>1. ~ (N - j < d)
    <3>1. N - j \in D
      OBVIOUS
    <3> HIDE DEF D
    <3> QED BY <1>4, <3>1
  <2>2. j \in Nat /\ c \in Nat
    BY ONLY C \subseteq 1..N, N \in Nat, j \in C, c \in C
  <2> QED BY ONLY <1>5, <2>1, <2>2, N \in Nat
<1> QED BY <1>6

LEMMA SumOfPositive ==
  ASSUME NEW spans \in Seq(Positive)
  PROVE  spans \in Seq(Nat) /\ SumOf(spans) \in Nat
<1>1. Positive \subseteq Nat
  BY DEF Positive
<1>2. spans \in Seq(Nat)
  BY <1>1, SeqMonotonic
<1> QED BY <1>2, SumNat

LEMMA NoPreRoll == IsPreRoll(<<>>)
BY SumOfNone, ClientAssumption DEF IsPreRoll

(* _retain_locked: of any spans, what is retained fits.                    *)
LEMMA RetainedFits ==
  ASSUME NEW spans \in Seq(Positive)
  PROVE  IsPreRoll(Retained(spans))
<1> DEFINE N == Len(spans)
           from(k) == SumOf(SubSeq(spans, k, N))
           cuts == {k \in DOMAIN spans : from(k) > PreRollFrames}
           cut == CHOOSE k \in cuts : \A j \in cuts : j <= k
           rest == SubSeq(spans, cut + 1, N)
           part == PreRollFrames - SumOf(rest)
<1>1. N \in Nat /\ DOMAIN spans = 1..N /\ \A k \in 1..N : spans[k] \in Positive
  OBVIOUS
<1>2. PreRollFrames \in Nat
  BY ClientAssumption
<1>3. ASSUME NEW k \in 1..(N + 1)
      PROVE  SubSeq(spans, k, N) \in Seq(Positive) /\ from(k) \in Nat
  <2>1. SubSeq(spans, k, N) \in Seq(Positive)
    BY <1>1, SubSeqProperties
  <2> QED BY <2>1, SumOfPositive
<1>4. CASE PreRollFrames = 0
  BY <1>4, NoPreRoll DEF Retained
<1>5. CASE PreRollFrames > 0 /\ cuts = {}
  <2>1. Retained(spans) = spans
    BY <1>5, <1>1 DEF Retained
  <2>2. CASE N = 0
    <3>1. spans = <<>>
      BY <2>2
    <3> QED BY <2>1, <3>1, NoPreRoll
  <2>3. CASE N # 0
    <3>1. 1 \in DOMAIN spans /\ 1 \notin cuts /\ 1 \in 1..(N + 1)
      BY <1>1, <1>5, <2>3
    <3>2. ~ (from(1) > PreRollFrames) /\ from(1) \in Nat
      BY <1>3, <3>1
    <3>3. SubSeq(spans, 1, N) = spans
      BY SubSeqFull
    <3>4. SumOf(spans) <= PreRollFrames
      <4>1. from(1) = SumOf(spans)
        BY <3>3
      <4> HIDE DEF from
      <4> QED BY <1>2, <3>2, <4>1
    <3> QED BY <2>1, <3>4 DEF IsPreRoll
  <2> QED BY <2>2, <2>3
<1>6. CASE PreRollFrames > 0 /\ cuts # {}
  <2>1. Retained(spans) = Trimming(part, rest)
    BY <1>2, <1>6 DEF Retained
  <2>2. cut \in cuts /\ \A j \in cuts : j <= cut
    <3>1. cuts \subseteq 1..N
      BY <1>1
    <3> HIDE DEF cuts
    <3>2. \E c \in cuts : \A j \in cuts : j <= c
      BY <1>1, <1>6, <3>1, Largest
    <3> QED BY <3>2
  <2>3. cut \in 1..N /\ cut + 1 \in 1..(N + 1)
    BY <1>1, <2>2
  <2> HIDE DEF cut
  <2>4. rest \in Seq(Positive) /\ SumOf(rest) \in Nat
    BY <1>3, <2>3
  <2>5. SumOf(rest) <= PreRollFrames
    <3>1. CASE cut = N
      <4>1. cut + 1 \in Int /\ N \in Int /\ N < cut + 1
        BY <1>1, <3>1
      <4>2. rest = <<>>
        BY <4>1, SubSeqEmpty
      <4>3. SumOf(rest) = 0
        BY <4>2, SumOfNone
      <4> QED BY <1>2, <4>3
    <3>2. CASE cut # N
      <4>1. cut + 1 \in 1..N /\ ~ (cut + 1 <= cut)
        <5>1. N \in Nat
          BY <1>1
        <5> QED BY ONLY <2>3, <3>2, <5>1
      <4>2. cut + 1 \notin cuts
        BY <2>2, <4>1
      <4>3. ~ (SumOf(rest) > PreRollFrames)
        BY <1>1, <4>1, <4>2
      <4> QED BY <1>2, <2>4, <4>3
    <3> QED BY <3>1, <3>2
  <2> HIDE DEF rest
  <2>6. CASE part > 0
    <3>1. part \in Positive /\ <<part>> \in Seq(Positive)
      BY <1>2, <2>4, <2>5, <2>6 DEF Positive
    <3>2. SumOf(<<part>>) = part
      BY <3>1, SumOfOne DEF Positive
    <3> HIDE DEF part
    <3>3. <<part>> \o rest \in Seq(Positive)
      BY <2>4, <3>1
    <3>4. <<part>> \in Seq(Nat) /\ rest \in Seq(Nat)
      BY <2>4, <3>1, SumOfPositive
    <3>5. SumOf(<<part>> \o rest) = SumOf(<<part>>) + SumOf(rest)
      BY <3>4, SumOfConcat
    <3>6. SumOf(<<part>> \o rest) = PreRollFrames
      BY <1>2, <2>4, <3>2, <3>5 DEF part
    <3> QED BY <1>2, <2>1, <2>6, <3>3, <3>6 DEF Trimming, IsPreRoll
  <2>7. CASE ~ (part > 0)
    BY <2>1, <2>4, <2>5, <2>7 DEF Trimming, IsPreRoll
  <2> QED BY <2>6, <2>7
<1> QED BY <1>2, <1>4, <1>5, <1>6
-----------------------------------------------------------------------------
(* The messages of a submission.                                           *)

LEMMA DivisionRoundsDown ==
  ASSUME NEW a \in Nat, NEW m \in Positive
  PROVE  /\ a \div m \in Nat /\ (a \div m) * m <= a /\ a < (a \div m) * m + m
<1>1. m \in Int /\ m > 0
  BY DEF Positive
<1> QED BY <1>1, SMT

(* _audio_messages: the chunks of a span are its frames, and none is empty. *)
LEMMA ChunksOfSpan ==
  ASSUME NEW n \in Positive
  PROVE  Chunks(n) \in Seq(Positive) /\ SumOf(Chunks(n)) = n
<1> DEFINE M == MaxInputAudioFrames
           count == (n + M - 1) \div M
           part(k) == IF k < count THEN M ELSE n - (count - 1) * M
           sum == [k \in 0..count |-> IF k < count THEN k * M ELSE n]
<1>1. M \in Positive /\ M \in Nat /\ M >= 1 /\ n \in Nat /\ n >= 1
  BY ProtocolAssumption DEF Positive
<1>2. count \in Nat /\ count * M <= n + M - 1 /\ n + M - 1 < count * M + M
  <2> HIDE DEF M
  <2>1. n + M - 1 \in Nat
    BY <1>1
  <2> QED BY <1>1, <2>1, DivisionRoundsDown
<1>3. Chunks(n) = [k \in 1..count |-> part(k)]
  BY DEF Chunks
<1> HIDE DEF M, count
<1>4. count >= 1
  <2>1. count = 0 => count * M = 0
    BY <1>1
  <2> QED BY <1>1, <1>2, <2>1
<1>5. (count - 1) * M \in Nat /\ count * M = (count - 1) * M + M /\ (count - 1) * M < n
  <2>1. (count - 1) * M \in Nat
    <3>1. count - 1 \in Nat
      BY <1>2, <1>4
    <3> QED BY <1>1, <3>1
  <2>2. count * M = (count - 1) * M + M
    BY <1>1, <1>2
  <2> QED BY <1>1, <1>2, <2>1, <2>2
<1>6. \A k \in 1..count : part(k) \in Positive /\ part(k) \in Nat
  BY <1>1, <1>5 DEF Positive
<1>7. \A k \in 0..count : sum[k] \in Nat
  <2> SUFFICES ASSUME NEW k \in 0..count PROVE k * M \in Nat
    BY <1>1
  <2> QED BY <1>1
<1>8. sum[0] = 0
  BY <1>1, <1>2, <1>4
<1>9. ASSUME NEW k \in 1..count PROVE sum[k] = sum[k - 1] + part(k)
  <2>1. k - 1 \in 0..count /\ k \in 0..count /\ k - 1 < count
    BY <1>2
  <2>2. sum[k - 1] = (k - 1) * M
    BY <2>1
  <2>3. CASE k < count
    <3>1. k * M = (k - 1) * M + M
      BY <1>1
    <3> QED BY <2>1, <2>2, <2>3, <3>1
  <2>4. CASE k = count
    <3>1. sum[k] = n /\ part(k) = n - (count - 1) * M /\ sum[k - 1] = (count - 1) * M
      BY <1>2, <2>1, <2>2, <2>4
    <3> HIDE DEF sum, part
    <3> QED BY <1>1, <1>5, <3>1
  <2> QED BY <1>2, <2>3, <2>4
<1> DEFINE t == [k \in 1..count |-> part(k)]
<1>10. /\ \A k \in 1..count : t[k] = part(k)
       /\ sum[count] = n /\ sum = [k \in 0..count |-> sum[k]] /\ t = [k \in 1..count |-> t[k]]
  BY <1>2
<1> HIDE DEF t, sum, part
<1>11. t \in Seq(Positive) /\ t \in Seq(Nat) /\ Len(t) = count
  <2>1. \A k \in 1..count : t[k] \in Positive
    BY <1>6, <1>10
  <2>2. t \in Seq(Positive) /\ Len(t) = count
    BY <1>2, <1>10, <2>1, SMTT(30)
  <2> QED BY <2>2, SumOfPositive
<1>12. sum \in [0..count -> Nat]
  BY <1>7, <1>10
<1>13. IsSum(sum, t)
  BY <1>8, <1>9, <1>10, <1>11, <1>12 DEF IsSum
<1>14. SumOf(t) = n
  BY <1>10, <1>11, <1>13, SumIs
<1> QED BY <1>3, <1>11, <1>14 DEF t

(* Sequences of numbers, one after the other, add up to their sums.        *)
LEMMA SumOfFlat ==
  ASSUME NEW ss \in Seq(Seq(Nat)), ss # <<>>
  PROVE  /\ FlattenSeq(ss) \in Seq(Nat)
         /\ SumOf(FlattenSeq(ss)) = SumOf([k \in DOMAIN ss |-> SumOf(ss[k])])
<1> DEFINE N == Len(ss)
           V == Seq(Nat)
           step == [p \in V \X (1..N) |-> p[1] \o ss[p[2]]]
           Rule(g) == [i \in 1..N |-> IF i = 1 THEN ss[i] ELSE g[i - 1] \o ss[i]]
           flat == CHOOSE g : g = Rule(g)
           sums == [k \in DOMAIN ss |-> SumOf(ss[k])]
<1>1. N \in Nat /\ N >= 1 /\ DOMAIN ss = 1..N /\ \A k \in 1..N : ss[k] \in Seq(Nat)
  OBVIOUS
<1>2. sums \in Seq(Nat) /\ Len(sums) = N /\ \A k \in 1..N : sums[k] = SumOf(ss[k])
  <2>1. \A k \in 1..N : SumOf(ss[k]) \in Nat
    BY <1>1, SumNat
  <2> QED BY <1>1, <2>1
<1>3. FlattenSeq(ss) = flat[N]
  BY <1>1 DEF FlattenSeq
<1> HIDE DEF N, sums
<1>4. IsStep(step, V, N)
  <2> SUFFICES ASSUME NEW p \in V \X (1..N) PROVE p[1] \o ss[p[2]] \in V
    BY DEF IsStep
  <2>1. p[1] \in Seq(Nat) /\ ss[p[2]] \in Seq(Nat)
    BY <1>1
  <2> QED BY <2>1
<1>5. PICK g : Follows(g, V, N, <<>>, step)
  <2>1. <<>> \in V
    OBVIOUS
  <2> HIDE DEF V, step
  <2> QED BY <1>1, <1>4, <2>1, PrefixRecursion
<1>6. \A k \in 1..N : g[k - 1] \in V /\ g[k] = g[k - 1] \o ss[k]
  <2> SUFFICES ASSUME NEW k \in 1..N PROVE g[k - 1] \in V /\ g[k] = g[k - 1] \o ss[k]
    OBVIOUS
  <2>1. k - 1 \in 0..N
    BY <1>1
  <2> HIDE DEF V
  <2>2. g[k - 1] \in V /\ g[k] = step[<<g[k - 1], k>>]
    <3> HIDE DEF step
    <3> QED BY <1>5, <2>1 DEF Follows
  <2>3. <<g[k - 1], k>> \in V \X (1..N)
    BY <2>2
  <2> QED BY <2>2, <2>3
<1> DEFINE h == [i \in 1..N |-> g[i]]
<1>7. h = Rule(h)
  <2>1. \A i \in 1..N : h[i] = IF i = 1 THEN ss[i] ELSE h[i - 1] \o ss[i]
    <3> SUFFICES ASSUME NEW i \in 1..N
                 PROVE  h[i] = IF i = 1 THEN ss[i] ELSE h[i - 1] \o ss[i]
      OBVIOUS
    <3>1. CASE i = 1
      <4>1. g[0] = <<>>
        BY <1>5 DEF Follows
      <4>2. g[i] = <<>> \o ss[i]
        <5>1. g[i] = g[i - 1] \o ss[i]
          BY <1>6
        <5>2. i - 1 = 0
          BY <3>1
        <5> QED BY ONLY <4>1, <5>1, <5>2
      <4>3. ss[i] \in Seq(Nat)
        BY <1>1
      <4> QED BY <3>1, <4>2, <4>3
    <3>2. CASE i # 1
      <4>1. i - 1 \in 1..N
        BY <1>1, <3>2
      <4> QED BY <1>6, <3>2, <4>1
    <3> QED BY <3>1, <3>2
  <2>2. h = [i \in 1..N |-> h[i]]
    OBVIOUS
  <2> HIDE DEF h
  <2> QED BY <2>1, <2>2
<1>8. flat = Rule(flat)
  <2> HIDE DEF Rule
  <2> QED BY <1>7
<1> HIDE DEF flat, h
<1>9. \A k \in 1..N : flat[k] = IF k = 1 THEN ss[k] ELSE flat[k - 1] \o ss[k]
  BY <1>8
<1>10. PICK sum : IsSum(sum, sums) /\ SumOf(sums) = sum[N]
  BY <1>2, SumExists
<1>11. /\ sum[0] = 0 /\ \A k \in 0..N : sum[k] \in Nat
       /\ \A k \in 1..N : sum[k] = sum[k - 1] + SumOf(ss[k])
  BY <1>2, <1>10 DEF IsSum
<1> DEFINE T == {k \in 0..N : k = 0 \/ (flat[k] \in Seq(Nat) /\ SumOf(flat[k]) = sum[k])}
<1>12. 0 \in T
  BY <1>1
<1>13. ASSUME NEW k \in 1..N, k - 1 \in T PROVE k \in T
  <2>1. ss[k] \in Seq(Nat) /\ SumOf(ss[k]) \in Nat
    BY <1>1, SumNat
  <2>2. CASE k = 1
    <3>1. flat[k] = ss[k] /\ sum[k] = sum[0] + SumOf(ss[k])
      BY <1>9, <1>11, <2>2
    <3> QED BY <1>11, <2>1, <3>1
  <2>3. CASE k # 1
    <3>1. flat[k - 1] \in Seq(Nat) /\ SumOf(flat[k - 1]) = sum[k - 1]
      BY <1>1, <1>13, <2>3
    <3>2. flat[k] = flat[k - 1] \o ss[k]
      BY <1>9, <2>3
    <3>3. flat[k] \in Seq(Nat) /\ SumOf(flat[k]) = sum[k - 1] + SumOf(ss[k])
      BY <2>1, <3>1, <3>2, SumOfConcat
    <3> QED BY <1>11, <3>3
  <2> QED BY <2>2, <2>3
<1> HIDE DEF T
<1>14. 0..N \subseteq T
  BY <1>1, <1>12, <1>13, BoundedInduction
<1>15. N \in T /\ N # 0
  BY <1>1, <1>14
<1> QED BY <1>3, <1>10, <1>15 DEF T, sums
LEMMA RangeOfConcat ==
  ASSUME NEW s, s \in Seq(Range(s)), NEW t, t \in Seq(Range(t))
  PROVE  /\ s \in Seq(Range(s) \cup Range(t)) /\ t \in Seq(Range(s) \cup Range(t))
         /\ s \o t \in Seq(Range(s) \cup Range(t))
<1> DEFINE S == Range(s) \cup Range(t)
<1>1. Range(s) \subseteq S /\ Range(t) \subseteq S
  OBVIOUS
<1> HIDE DEF S
<1>2. s \in Seq(S) /\ t \in Seq(S)
  BY <1>1, SeqMonotonic
<1>3. s \o t \in Seq(S)
  BY <1>2
<1> QED BY <1>2, <1>3 DEF S

(* The audio messages of some spans carry as many frames as these have.    *)
LEMMA AudioMessagesCarry ==
  ASSUME NEW spans \in Seq(Positive), spans # <<>>, NEW c, NEW i, NEW start
  PROVE  LET messages == AudioMessages(c, i, start, spans) IN
         /\ messages \in Seq(Range(messages))
         /\ \A m \in Range(messages) : m.type = "input.audio" /\ m.frames \in Nat
         /\ AudioFrames(messages) = SumOf(spans)
<1> DEFINE ss == [k \in DOMAIN spans |-> Chunks(spans[k])]
           chunks == FlattenSeq(ss)
           message(k) ==
             [type |-> "input.audio", conversation_id |-> c, input_id |-> i,
              start_frame |-> start + SumOf(SubSeq(chunks, 1, k - 1)), frames |-> chunks[k]]
           messages == [k \in DOMAIN chunks |-> message(k)]
<1>1. /\ Len(spans) \in Nat /\ Len(spans) # 0 /\ DOMAIN spans = 1..Len(spans)
      /\ \A k \in DOMAIN spans : spans[k] \in Positive
  OBVIOUS
<1>2. \A k \in DOMAIN spans : /\ Chunks(spans[k]) \in Seq(Nat)
                              /\ SumOf(Chunks(spans[k])) = spans[k]
  BY <1>1, ChunksOfSpan, SumOfPositive
<1>3. ss \in Seq(Seq(Nat)) /\ ss # <<>> /\ DOMAIN ss = DOMAIN spans
  BY <1>1, <1>2
<1>4. [k \in DOMAIN ss |-> SumOf(ss[k])] = spans
  <2>1. [k \in DOMAIN ss |-> SumOf(ss[k])] = [k \in DOMAIN spans |-> spans[k]]
    BY <1>2
  <2> QED BY <2>1
<1> HIDE DEF ss
<1>5. chunks \in Seq(Nat) /\ SumOf(chunks) = SumOf(spans)
  BY <1>3, <1>4, SumOfFlat
<1> HIDE DEF chunks
<1>6. AudioMessages(c, i, start, spans) = messages
  BY DEF AudioMessages, chunks, ss
<1>7. \A k \in DOMAIN chunks : message(k).type = "input.audio" /\ message(k).frames = chunks[k]
  OBVIOUS
<1> HIDE DEF message
<1>8. /\ DOMAIN chunks = 1..Len(chunks) /\ Len(chunks) \in Nat
      /\ \A k \in DOMAIN chunks : chunks[k] \in Nat
  BY <1>5
<1>9. /\ DOMAIN messages = DOMAIN chunks
      /\ \A k \in DOMAIN chunks : /\ messages[k].type = "input.audio"
                                  /\ messages[k].frames = chunks[k]
      /\ messages = [k \in DOMAIN chunks |-> messages[k]]
  BY <1>7
<1> HIDE DEF messages
<1>10. messages \in Seq(Range(messages))
  <2> DEFINE R == Range(messages)
  <2>1. \A k \in DOMAIN chunks : messages[k] \in R
    BY <1>9 DEF Range
  <2> HIDE DEF R
  <2>2. messages \in Seq(R)
    BY <1>8, <1>9, <2>1
  <2> QED BY <2>2 DEF R
<1>11. \A m \in Range(messages) : m.type = "input.audio" /\ m.frames \in Nat
  BY <1>8, <1>9 DEF Range
<1>12. AudioFrames(messages) = SumOf(chunks)
  <2>1. [k \in DOMAIN messages |->
           IF messages[k].type = "input.audio" THEN messages[k].frames ELSE 0]
          = [k \in DOMAIN chunks |-> chunks[k]]
    BY <1>9
  <2>2. chunks = [k \in DOMAIN chunks |-> chunks[k]]
    BY <1>5
  <2> QED BY <2>1, <2>2, Zenon DEF AudioFrames
<1> QED BY <1>5, <1>6, <1>10, <1>11, <1>12

(* Messages without audio carry none.                                      *)
LEMMA NoAudio ==
  ASSUME NEW messages, messages \in Seq(Range(messages)),
         \A m \in Range(messages) : m.type # "input.audio"
  PROVE  AudioFrames(messages) = 0
<1> DEFINE N == Len(messages)
           zeros == [k \in 1..N |-> 0]
           sum == [k \in 0..N |-> 0]
<1>1. N \in Nat /\ DOMAIN messages = 1..N
  OBVIOUS
<1>2. \A k \in 1..N : messages[k].type # "input.audio"
  BY <1>1 DEF Range
<1>3. AudioFrames(messages) = SumOf(zeros)
  <2>1. [k \in DOMAIN messages |->
           IF messages[k].type = "input.audio" THEN messages[k].frames ELSE 0] = zeros
    BY <1>1, <1>2
  <2> QED BY <2>1, Zenon DEF AudioFrames
<1> HIDE DEF N
<1>4. zeros \in Seq(Nat) /\ Len(zeros) = N
  BY <1>1
<1>5. IsSum(sum, zeros)
  <2>1. sum \in [0..N -> Nat] /\ sum[0] = 0 /\ sum[N] = 0
    BY <1>1
  <2>2. \A k \in 1..N : sum[k] = sum[k - 1] + zeros[k]
    BY <1>1
  <2> HIDE DEF sum, zeros
  <2> QED BY <1>4, <2>1, <2>2 DEF IsSum
<1>6. sum[N] = 0
  BY <1>1
<1> HIDE DEF sum, zeros
<1> QED BY <1>3, <1>4, <1>5, <1>6, SumIs

(* What submit queues: messages that start a turn, then the audio.         *)
LEMMA AudioBatch ==
  ASSUME NEW spans \in Seq(Positive), spans # <<>>, NEW c, NEW i, NEW start,
         NEW first, first \in Seq(Range(first)),
         \A m \in Range(first) : m.type # "input.audio"
  PROVE  IsAudio(first \o AudioMessages(c, i, start, spans), SumOf(spans))
<1> DEFINE audio == AudioMessages(c, i, start, spans)
           S == Range(first) \cup Range(audio)
           all == first \o audio
<1>1. /\ audio \in Seq(Range(audio)) /\ AudioFrames(audio) = SumOf(spans)
      /\ \A m \in Range(audio) : m.type = "input.audio" /\ m.frames \in Nat
  BY AudioMessagesCarry
<1> HIDE DEF audio
<1>2. first \in Seq(S) /\ audio \in Seq(S) /\ all \in Seq(S)
  BY <1>1, RangeOfConcat
<1>3. \A m \in S : m.type = "input.audio" => m.frames \in Nat
  BY <1>1
<1> HIDE DEF S
<1>4. /\ AudioOfMessages(S) \in [S -> Nat]
      /\ AudioFrames(first) = Total(first, AudioOfMessages(S))
      /\ AudioFrames(audio) = Total(audio, AudioOfMessages(S))
  BY <1>2, <1>3, AudioTotals
<1>5. Total(all, AudioOfMessages(S))
        = Total(first, AudioOfMessages(S)) + Total(audio, AudioOfMessages(S))
  BY <1>2, <1>4, TotalOfConcat
<1> HIDE DEF all
<1>6. AudioFrames(all) = Total(all, AudioOfMessages(S))
  BY <1>2, <1>3, AudioTotals
<1>7. AudioFrames(first) = 0
  BY NoAudio
<1>8. SumOf(spans) \in Nat
  BY SumOfPositive
<1>9. AudioFrames(all) <= SumOf(spans)
  BY <1>1, <1>4, <1>5, <1>6, <1>7, <1>8
<1>10. all \in Seq(Range(all)) /\ Range(all) \subseteq S
  BY <1>2, InRange
<1>11. IsAudio(all, SumOf(spans))
  BY <1>3, <1>9, <1>10 DEF IsAudio
<1> QED BY <1>11 DEF all, audio
-----------------------------------------------------------------------------
(* The invariant.                                                          *)

QueueCounted ==
  /\ IsQueue(batches)
  /\ occupancy \in [data : Nat, control : Nat]
  /\ occupancy.data = FramesIn(batches) /\ occupancy.data <= InputQueueFrames
  /\ occupancy.control = ControlsIn(batches) /\ occupancy.control <= ControlCapacity

(* Once close waits, no call gets in and only its last words are queued; a *)
(* connection that is over accepts no call either.                         *)
IsLastWord(m) ==
  m.type \in {"conversation.cancel", "playback.interrupted"} /\ m.reason = "shutdown"
LastWords(bs) ==
  bs \in Seq(Range(bs)) /\ \A b \in Range(bs) : \A m \in Range(b.messages) : IsLastWord(m)
Frozen ==
  /\ connection = "closed" => ingress.connection_state = "disconnected"
  /\ closer = "waiting" =>
       (shutting_down \/ connection = "closed") /\ batches = <<>> /\ LastWords(outbound)

IInv == QueueCounted /\ IsPreRoll(pre_roll) /\ Frozen

-----------------------------------------------------------------------------
(* The counters, operation by operation.                                   *)

LEMMA EnqueueCounts ==
  ASSUME QueueCounted, NEW messages, NEW lane, NEW frames, NEW input_id,
         Enqueue(messages, lane, frames, input_id), frames \in Nat,
         \/ lane = "data" /\ IsAudio(messages, frames)
         \/ lane = "control" /\ frames = 0
  PROVE  QueueCounted'
<1> DEFINE b == Batch(messages, lane, frames, input_id)
<1>1. /\ b.messages = messages /\ b.lane = lane /\ b.frames = frames
      /\ b.input_id = input_id
  BY DEF Batch
<1>2. IsBatch(b)
  BY <1>1 DEF IsBatch, Batch
<1>3. batches' = Append(batches, b)
  BY DEF Enqueue
<1> HIDE DEF b
<1>4. /\ IsQueue(batches') /\ FramesIn(batches) \in Nat /\ ControlsIn(batches) \in Nat
      /\ FramesIn(batches') = FramesIn(batches) + frames
      /\ ControlsIn(batches') = ControlsIn(batches) + (IF lane = "control" THEN 1 ELSE 0)
  BY <1>1, <1>2, <1>3, AppendToQueue DEF QueueCounted
<1>5. ControlCapacity \in Nat /\ InputQueueFrames \in Nat
  BY ClientAssumption
<1>6. CASE lane = "data"
  <2>1. occupancy' = [occupancy EXCEPT !.data = @ + frames]
    BY <1>6 DEF Enqueue
  <2>2. occupancy.data + frames <= InputQueueFrames
    BY <1>6 DEF Enqueue, HasRoom
  <2>3. /\ occupancy' \in [data : Nat, control : Nat] /\ occupancy'.data = occupancy.data + frames
        /\ occupancy'.control = occupancy.control
    BY <2>1 DEF QueueCounted
  <2> QED BY <1>4, <1>5, <1>6, <2>2, <2>3 DEF QueueCounted
<1>7. CASE lane = "control"
  <2>1. occupancy' = [occupancy EXCEPT !.control = @ + 1] /\ frames = 0
    BY <1>7 DEF Enqueue
  <2>2. occupancy.control < ControlCapacity
    BY <1>7 DEF Enqueue, HasRoom
  <2>3. /\ occupancy' \in [data : Nat, control : Nat] /\ occupancy'.data = occupancy.data
        /\ occupancy'.control = occupancy.control + 1
    BY <2>1 DEF QueueCounted
  <2> QED BY <1>4, <1>5, <1>7, <2>1, <2>2, <2>3 DEF QueueCounted
<1> QED BY <1>6, <1>7

LEMMA QueueStands ==
  ASSUME QueueCounted, UNCHANGED <<batches, occupancy>>
  PROVE  QueueCounted'
BY DEF QueueCounted

LEMMA ControlCounts ==
  ASSUME QueueCounted, NEW message, NEW input_id, Control(message, input_id)
  PROVE  QueueCounted'
<1>1. CASE Enqueue(<<message>>, "control", 0, input_id)
  BY <1>1, EnqueueCounts
<1>2. CASE Fail
  BY <1>2, QueueStands DEF Fail
<1> QED BY <1>1, <1>2 DEF Control

LEMMA CommitCounts ==
  ASSUME QueueCounted, NEW messages, NEW i, NEW frames \in Nat, NEW kept, NEW pre,
         CommitAudio(messages, i, frames, kept, pre),
         IsAudio(messages, frames), IsPreRoll(kept), IsPreRoll(pre)
  PROVE  QueueCounted' /\ IsPreRoll(pre_roll')
<1>1. CASE Enqueue(messages, "data", frames, i) /\ pre_roll' = kept
  BY <1>1, EnqueueCounts
<1>2. CASE pre_roll' = pre /\ NotQueued(messages)
  BY <1>2, QueueStands DEF NotQueued, QueueUnchanged
<1> QED BY <1>1, <1>2 DEF CommitAudio

LEMMA AcknowledgeCounts ==
  ASSUME QueueCounted, batches # <<>>, Acknowledge
  PROVE  QueueCounted'
<1> DEFINE b == Head(batches)
<1>1. batches' = Tail(batches)
  BY DEF Acknowledge
<1>2. /\ IsBatch(b) /\ IsQueue(batches') /\ FramesIn(batches') \in Nat
      /\ ControlsIn(batches') \in Nat
      /\ FramesIn(batches) = b.frames + FramesIn(batches')
      /\ ControlsIn(batches) = (IF b.lane = "control" THEN 1 ELSE 0) + ControlsIn(batches')
  BY <1>1, TailOfQueue DEF QueueCounted
<1>3. occupancy' = IF b.lane = "data" THEN [occupancy EXCEPT !.data = @ - b.frames]
                   ELSE [occupancy EXCEPT !.control = @ - 1]
  BY DEF Acknowledge
<1>4. ControlCapacity \in Nat /\ InputQueueFrames \in Nat
  BY ClientAssumption
<1> HIDE DEF b
<1>5. CASE b.lane = "data"
  <2>1. occupancy' = [occupancy EXCEPT !.data = @ - b.frames] /\ b.frames \in Nat
    BY <1>2, <1>3, <1>5 DEF IsBatch
  <2>2. occupancy.data - b.frames = FramesIn(batches') /\ occupancy.data - b.frames \in Nat
    BY <1>2, <2>1 DEF QueueCounted
  <2>3. /\ occupancy' \in [data : Nat, control : Nat]
        /\ occupancy'.data = occupancy.data - b.frames
        /\ occupancy'.control = occupancy.control
    BY <2>1, <2>2 DEF QueueCounted
  <2> QED BY <1>2, <1>4, <1>5, <2>1, <2>2, <2>3 DEF QueueCounted
<1>6. CASE b.lane = "control"
  <2>1. occupancy' = [occupancy EXCEPT !.control = @ - 1] /\ b.frames = 0
    BY <1>2, <1>3, <1>6 DEF IsBatch
  <2>2. occupancy.control - 1 = ControlsIn(batches') /\ occupancy.control - 1 \in Nat
    BY <1>2, <1>6 DEF QueueCounted
  <2>3. /\ occupancy' \in [data : Nat, control : Nat]
        /\ occupancy'.data = occupancy.data
        /\ occupancy'.control = occupancy.control - 1
    BY <2>1, <2>2 DEF QueueCounted
  <2> QED BY <1>2, <1>4, <1>6, <2>1, <2>2, <2>3 DEF QueueCounted
<1> QED BY <1>2, <1>5, <1>6 DEF IsBatch

LEMMA DiscardCounts ==
  ASSUME QueueCounted, NEW closed, DiscardInputAudio(closed)
  PROVE  QueueCounted'
<1> DEFINE rest == WithoutClosedAudio(batches, closed)
<1>1. /\ batches' = rest
      /\ occupancy' = [occupancy EXCEPT !.data = @ - (FramesIn(batches) - FramesIn(rest))]
  BY DEF DiscardInputAudio, DiscardedFrames
<1>2. /\ IsQueue(rest) /\ FramesIn(batches) \in Nat
      /\ FramesIn(rest) \in Nat /\ FramesIn(rest) <= FramesIn(batches)
      /\ ControlsIn(rest) = ControlsIn(batches)
  BY WithoutClosedAudioIs DEF QueueCounted
<1> HIDE DEF rest
<1>3. InputQueueFrames \in Nat
  BY ClientAssumption
<1>4. occupancy.data - (FramesIn(batches) - FramesIn(rest)) = FramesIn(rest)
  BY <1>2 DEF QueueCounted
<1>5. /\ occupancy' \in [data : Nat, control : Nat] /\ occupancy'.data = FramesIn(rest)
      /\ occupancy'.control = occupancy.control
  BY <1>1, <1>2, <1>4 DEF QueueCounted
<1> QED BY <1>1, <1>2, <1>3, <1>5 DEF QueueCounted

LEMMA EmptiedCounts ==
  ASSUME batches' = <<>>, occupancy' = [data |-> 0, control |-> 0]
  PROVE  QueueCounted'
<1>1. occupancy' \in [data : Nat, control : Nat] /\ occupancy'.data = 0 /\ occupancy'.control = 0
  OBVIOUS
<1>2. IsQueue(batches') /\ FramesIn(batches') = 0 /\ ControlsIn(batches') = 0
  BY EmptyQueue
<1>3. InputQueueFrames \in Nat /\ ControlCapacity \in Nat
  BY ClientAssumption
<1> QED BY <1>1, <1>2, <1>3 DEF QueueCounted
-----------------------------------------------------------------------------
(* The calls.                                                              *)

LEMMA OneSpan ==
  ASSUME NEW n \in 1..MaxChunk
  PROVE  n \in Positive /\ <<n>> \in Seq(Positive) /\ <<n>> # <<>> /\ SumOf(<<n>>) = n
<1>1. n \in Positive /\ n \in Nat
  BY MessagesAssumption DEF Positive
<1>2. <<n>> \in Seq(Positive) /\ <<n>> # <<>>
  BY <1>1
<1> QED BY <1>1, <1>2, SumOfOne

LEMMA PreRollGrows ==
  ASSUME NEW n \in 1..MaxChunk, NEW pre, IsPreRoll(pre)
  PROVE  Append(pre, n) \in Seq(Positive) /\ Append(pre, n) # <<>>
<1>1. n \in Positive /\ pre \in Seq(Positive)
  BY OneSpan DEF IsPreRoll
<1> QED BY ONLY <1>1

LEMMA AbortCounts ==
  ASSUME QueueCounted, NEW reason, AbortOpenInput(reason)
  PROVE  QueueCounted'
BY ControlCounts DEF AbortOpenInput

LEMMA BoundaryCounts ==
  ASSUME QueueCounted, NEW n \in 1..MaxChunk, NEW activated, SubmitBoundary(n, activated)
  PROVE  QueueCounted' /\ IsPreRoll(pre_roll')
<1>1. QueueCounted'
  BY AbortCounts DEF SubmitBoundary
<1>2. IsPreRoll(Retained(<<n>>))
  BY OneSpan, RetainedFits
<1> QED BY <1>1, <1>2, NoPreRoll DEF SubmitBoundary

LEMMA OpenInputCounts ==
  ASSUME QueueCounted, NEW n \in 1..MaxChunk, NEW pre, IsPreRoll(pre), SubmitToOpenInput(n, pre)
  PROVE  QueueCounted' /\ IsPreRoll(pre_roll')
<1> DEFINE i == OpenInputId(ingress)
           start == ingress.inputs[i].received
           messages == AudioMessages(ingress.conversation.id, i, start, <<n>>)
           one == <<n>>
<1>1. n \in Nat /\ one \in Seq(Positive) /\ one # <<>> /\ SumOf(one) = n
  BY OneSpan DEF Positive
<1>2. IsAudio(messages, n)
  <2>1. messages = AudioMessages(ingress.conversation.id, i, start, one)
    OBVIOUS
  <2> HIDE DEF messages, one, i, start
  <2>2. /\ messages \in Seq(Range(messages))
        /\ \A m \in Range(messages) : m.type = "input.audio" /\ m.frames \in Nat
        /\ AudioFrames(messages) = n
    BY <1>1, <2>1, AudioMessagesCarry
  <2> QED BY <1>1, <2>2 DEF IsAudio
<1>3. CASE CommitAudio(messages, i, n, pre, pre)
  <2> HIDE DEF messages, i, one
  <2> QED BY <1>1, <1>2, <1>3, CommitCounts
<1>4. CASE AbortOpenInput("overflow") /\ pre_roll' = pre
  BY <1>4, AbortCounts
<1> QED BY <1>3, <1>4 DEF SubmitToOpenInput

LEMMA ActivationCounts ==
  ASSUME QueueCounted, NEW n \in 1..MaxChunk, NEW pre, IsPreRoll(pre), SubmitActivation(n, pre)
  PROVE  QueueCounted' /\ IsPreRoll(pre_roll')
<1> DEFINE c == ingress.conversation_ids
           i == ingress.input_ids
           first == <<[type |-> "conversation.start", conversation_id |-> c],
                      InputStart(c, i, "activation", 0)>>
           one == <<n>>
           messages == first \o AudioMessages(c, i, 0, one)
<1>1. n \in Nat /\ one \in Seq(Positive) /\ one # <<>> /\ SumOf(one) = n
  BY OneSpan DEF Positive
<1>2. first \in Seq(Range(first)) /\ \A m \in Range(first) : m.type # "input.audio"
  <2>1. /\ DOMAIN first = {1, 2} /\ first[1].type = "conversation.start"
        /\ first[2].type = "input.start" /\ first \in Seq({first[1], first[2]})
    BY DEF InputStart
  <2> HIDE DEF first
  <2>2. \A m \in Range(first) : m.type # "input.audio"
    BY <2>1 DEF Range
  <2>3. first \in Seq(Range(first))
    BY <2>1, InRange
  <2> QED BY <2>2, <2>3
<1>3. CommitAudio(messages, i, n, pre, pre)
  BY DEF SubmitActivation
<1> HIDE DEF first, one
<1>4. IsAudio(messages, n)
  BY <1>1, <1>2, AudioBatch
<1> HIDE DEF messages, i
<1> QED BY <1>1, <1>3, <1>4, CommitCounts

LEMMA SpeechCounts ==
  ASSUME QueueCounted, NEW n \in 1..MaxChunk, NEW pre, IsPreRoll(pre), SubmitSpeech(n, pre)
  PROVE  QueueCounted' /\ IsPreRoll(pre_roll')
<1> DEFINE c == ingress.conversation
           i == ingress.input_ids
           spans == Append(pre, n)
           reason == IF c.response_id = 0 THEN "speech" ELSE "barge_in"
           first == <<InputStart(c.id, i, reason, c.response_id)>>
           messages == first \o AudioMessages(c.id, i, 0, spans)
<1>1. spans \in Seq(Positive) /\ spans # <<>>
  BY PreRollGrows
<1>2. CommitAudio(messages, i, SumOf(spans), <<>>, pre)
  BY DEF SubmitSpeech
<1>3. first \in Seq(Range(first)) /\ \A m \in Range(first) : m.type # "input.audio"
  <2>1. DOMAIN first = {1} /\ first[1].type = "input.start" /\ first \in Seq({first[1]})
    BY DEF InputStart
  <2> HIDE DEF first
  <2>2. \A m \in Range(first) : m.type # "input.audio"
    BY <2>1 DEF Range
  <2>3. first \in Seq(Range(first))
    BY <2>1, InRange
  <2> QED BY <2>2, <2>3
<1> HIDE DEF spans, first
<1>4. SumOf(spans) \in Nat
  BY <1>1, SumOfPositive
<1>5. IsAudio(messages, SumOf(spans))
  BY <1>1, <1>3, AudioBatch
<1>6. IsPreRoll(<<>>)
  BY NoPreRoll
<1> HIDE DEF messages, i
<1> QED BY <1>2, <1>4, <1>5, <1>6, CommitCounts

LEMMA SilenceCounts ==
  ASSUME QueueCounted, NEW n \in 1..MaxChunk, NEW activated, NEW pre, IsPreRoll(pre),
         SubmitSilence(n, activated, pre)
  PROVE  QueueCounted' /\ IsPreRoll(pre_roll')
<1>1. Append(pre, n) \in Seq(Positive)
  BY PreRollGrows
<1>2. IsPreRoll(Retained(Append(pre, n)))
  BY <1>1, RetainedFits
<1> QED BY <1>2, QueueStands DEF SubmitSilence, QueueUnchanged

LEMMA SubmitCounts ==
  ASSUME QueueCounted, IsPreRoll(pre_roll), Submit
  PROVE  QueueCounted' /\ IsPreRoll(pre_roll')
<1>1. PICK n \in 1..MaxChunk, pre \in {<<>>, pre_roll}, activated \in BOOLEAN :
        \/ SubmitBoundary(n, activated)
        \/ SubmitToOpenInput(n, pre)
        \/ SubmitActivation(n, pre)
        \/ SubmitSpeech(n, pre)
        \/ SubmitSilence(n, activated, pre)
        \/ SubmitRefused(pre)
  BY DEF Submit
<1>2. IsPreRoll(pre)
  BY NoPreRoll
<1>4. SubmitRefused(pre) => QueueCounted' /\ IsPreRoll(pre_roll')
  BY <1>2, QueueStands DEF SubmitRefused, QueueUnchanged
<1> QED BY <1>1, <1>2, <1>4, BoundaryCounts, OpenInputCounts, ActivationCounts, SpeechCounts,
           SilenceCounts

LEMMA CallCounts ==
  ASSUME QueueCounted, IsPreRoll(pre_roll), AbortInput \/ CancelConversation \/ ReportPlayback
  PROVE  QueueCounted' /\ IsPreRoll(pre_roll')
<1>1. PICK m, i : Call(m, i)
  BY DEF AbortInput, CancelConversation, ReportPlayback
<1> QED BY <1>1, ControlCounts DEF Call
-----------------------------------------------------------------------------
(* What is frozen stays so.                                                *)

(* What leaves the connection's end, the closer and the queues alone.      *)
LEMMA FrozenStands ==
  ASSUME Frozen, closer' = closer,
         connection' = connection \/ (connection # "closed" /\ connection' # "closed"),
         connection = "closed" => ingress'.connection_state = ingress.connection_state,
         closer = "waiting" =>
           /\ shutting_down' = shutting_down /\ batches' = <<>>
           /\ LastWords(outbound) => LastWords(outbound')
  PROVE  Frozen'
BY DEF Frozen

LEMMA RequestCloseIs ==
  ASSUME RequestClose
  PROVE  connection' = connection \/ (connection # "closed" /\ connection' # "closed")
BY DEF RequestClose

(* No call gets in.                                                        *)
LEMMA FrozenCall ==
  ASSUME Frozen, CanCall, UNCHANGED <<shutting_down, coreVars, closer>>
  PROVE  Frozen'
<1>1. connection # "closed" /\ closer # "waiting"
  BY DEF Frozen, CanCall
<1> QED BY <1>1, FrozenStands DEF coreVars

LEMMA FilteredIs ==
  ASSUME NEW s, s \in Seq(Range(s)), NEW elements
  PROVE  /\ Only(elements, s) \in Seq(Range(Only(elements, s)))
         /\ Range(Only(elements, s)) \subseteq Range(s)
<1> DEFINE S == Range(s)
           t == Only(elements, s)
           w == [e \in S |-> 0]
<1>1. w \in [S -> Nat] /\ s \in Seq(S)
  OBVIOUS
<1> HIDE DEF w, S
<1>2. t \in Seq(S \cap elements)
  BY <1>1, TotalOfOnly
<1> HIDE DEF t
<1>3. t \in Seq(S)
  BY <1>2, SeqMonotonic
<1>4. t \in Seq(Range(t)) /\ Range(t) \subseteq S
  BY <1>3, InRange
<1> QED BY <1>4 DEF S, t

LEMMA NothingToDiscard ==
  ASSUME NEW closed
  PROVE  WithoutClosedAudio(<<>>, closed) = <<>>
<1>1. [k \in DOMAIN <<>> |-> Trimmed(<<>>[k], closed)] = <<>>
  OBVIOUS
<1> QED BY <1>1, OnlyOfNone, Zenon DEF WithoutClosedAudio

LEMMA FewerWords ==
  ASSUME NEW s, LastWords(s), NEW elements
  PROVE  LastWords(Only(elements, s))
BY FilteredIs DEF LastWords

LEMMA TailWords ==
  ASSUME NEW s, LastWords(s), s # <<>>
  PROVE  LastWords(Tail(s))
<1> DEFINE S == Range(s)
           t == Tail(s)
<1>1. t \in Seq(S)
  BY DEF LastWords
<1>2. t \in Seq(Range(t)) /\ Range(t) \subseteq S
  BY <1>1, InRange
<1> HIDE DEF t
<1>3. LastWords(t)
  BY <1>2 DEF LastWords
<1> QED BY <1>3 DEF t

(* prepare_shutdown leaves one batch of last words.                        *)
LEMMA ShutdownWords ==
  ASSUME ShutdownMessages # <<>>
  PROVE  LastWords(<<Batch(ShutdownMessages, "control", 0, 0)>>)
<1> DEFINE words == ShutdownMessages
           b == Batch(words, "control", 0, 0)
           one == <<b>>
<1>1. \A m \in Range(words) : IsLastWord(m)
  <2> DEFINE c == ingress.conversation
             r == ingress.responses[c.response_id]
             cancel == [type |-> "conversation.cancel", conversation_id |-> c.id,
                        reason |-> "shutdown"]
             interrupt == [type |-> "playback.interrupted", conversation_id |-> c.id,
                           response_id |-> c.response_id, output_id |-> r.output.id,
                           played_frames |-> 0, reason |-> "shutdown"]
  <2>1. words = <<cancel, interrupt>> \/ words = <<cancel>>
    BY DEF ShutdownMessages
  <2>2. IsLastWord(cancel) /\ IsLastWord(interrupt)
    BY DEF IsLastWord
  <2> HIDE DEF words, cancel, interrupt
  <2>3. Range(words) \subseteq {cancel, interrupt}
    <3>1. Range(<<cancel, interrupt>>) \subseteq {cancel, interrupt}
      BY DEF Range
    <3>2. Range(<<cancel>>) \subseteq {cancel, interrupt}
      BY DEF Range
    <3> QED BY <2>1, <3>1, <3>2
  <2> QED BY <2>2, <2>3
<1>2. b.messages = words
  BY DEF Batch
<1> HIDE DEF words, b
<1>3. one \in Seq({b}) /\ Range(one) = {b}
  BY DEF Range
<1> HIDE DEF one
<1>4. LastWords(one)
  BY <1>1, <1>2, <1>3 DEF LastWords
<1> QED BY <1>4 DEF one, b, words

-----------------------------------------------------------------------------
(* The inductive step, action by action.                                   *)

LEMMA Initially == Init => IInv
<1> SUFFICES ASSUME Init PROVE IInv
  OBVIOUS
<1>1. QueueCounted
  <2>1. occupancy \in [data : Nat, control : Nat] /\ occupancy.data = 0 /\ occupancy.control = 0
    BY DEF Init
  <2>2. batches = <<>>
    BY DEF Init
  <2>3. InputQueueFrames \in Nat /\ ControlCapacity \in Nat
    BY ClientAssumption
  <2> QED BY <2>1, <2>2, <2>3, EmptyQueue DEF QueueCounted
<1>2. IsPreRoll(pre_roll)
  BY NoPreRoll DEF Init
<1>3. Frozen
  BY DEF Init, Frozen
<1> QED BY <1>1, <1>2, <1>3 DEF IInv

LEMMA CallsKeep ==
  ASSUME IInv, Submit \/ AbortInput \/ CancelConversation \/ ReportPlayback
  PROVE  IInv'
<1>1. QueueCounted' /\ IsPreRoll(pre_roll')
  BY SubmitCounts, CallCounts DEF IInv
<1>2. CanCall /\ UNCHANGED <<shutting_down, coreVars, closer>>
  <2>1. CASE Submit
    BY <2>1 DEF Submit
  <2>2. CASE AbortInput \/ CancelConversation \/ ReportPlayback
    BY <2>2 DEF AbortInput, CancelConversation, ReportPlayback, Call
  <2> QED BY <2>1, <2>2
<1> QED BY <1>1, <1>2, FrozenCall DEF IInv

LEMMA HandoffKeeps ==
  ASSUME IInv, Handoff
  PROVE  IInv'
<1>1. CASE HandoffTakes
  <2>1. QueueCounted'
    BY <1>1, AcknowledgeCounts DEF HandoffTakes, IInv
  <2>2. closer # "waiting"
    BY <1>1 DEF HandoffTakes, IInv, Frozen
  <2>3. Frozen'
    BY <1>1, <2>2, FrozenStands DEF HandoffTakes, IInv
  <2> QED BY <1>1, <2>1, <2>3 DEF HandoffTakes, IInv
<1>2. CASE HandoffWakes \/ HandoffRefused \/ HandoffBlocked \/ HandoffRests
  <2>1. /\ UNCHANGED <<ingress, batches, occupancy, pre_roll, shutting_down, outbound, closer>>
        /\ RequestClose \/ connection' = connection
    BY <1>2 DEF HandoffWakes, HandoffRefused, HandoffBlocked, HandoffRests, WaitForRoom,
                ingressVars, coreVars
  <2>2. QueueCounted' /\ IsPreRoll(pre_roll')
    BY <2>1, QueueStands DEF IInv
  <2>3. connection' = connection \/ (connection # "closed" /\ connection' # "closed")
    BY <2>1, RequestCloseIs
  <2>4. Frozen'
    BY <2>1, <2>3, FrozenStands DEF IInv, Frozen
  <2> QED BY <2>2, <2>4 DEF IInv
<1> QED BY <1>1, <1>2 DEF Handoff

LEMMA WriterKeeps ==
  ASSUME IInv, Writer
  PROVE  IInv'
<1>1. /\ UNCHANGED <<ingress, batches, occupancy, pre_roll, shutting_down, closer>>
      /\ RequestClose \/ connection' = connection
      /\ outbound' = outbound \/ (outbound # <<>> /\ outbound' = Tail(outbound))
  BY DEF Writer, WriterGets, WriterSends, ingressVars
<1>2. QueueCounted' /\ IsPreRoll(pre_roll')
  BY <1>1, QueueStands DEF IInv
<1>3. connection' = connection \/ (connection # "closed" /\ connection' # "closed")
  BY <1>1, RequestCloseIs
<1>4. LastWords(outbound) => LastWords(outbound')
  BY <1>1, TailWords
<1>5. Frozen'
  BY <1>1, <1>3, <1>4, FrozenStands DEF IInv, Frozen
<1> QED BY <1>2, <1>5 DEF IInv

LEMMA ReceiveKeeps ==
  ASSUME IInv, ReceiveAccepted
  PROVE  IInv'
<1>1. PICK m \in Sayable :
        /\ connection = "ready"
        /\ IF m.type = "input.closed" THEN DiscardInputAudio(m) /\ DiscardQueued(m)
           ELSE UNCHANGED <<batches, occupancy, outbound>>
        /\ pre_roll' = IF m.type = "conversation.end" THEN <<>> ELSE pre_roll
        /\ UNCHANGED <<shutting_down, connection, closer>>
  BY DEF ReceiveAccepted
<1>2. IsPreRoll(pre_roll')
  BY <1>1, NoPreRoll DEF IInv
<1>3. QueueCounted'
  BY <1>1, DiscardCounts, QueueStands DEF IInv
<1>4. ASSUME closer = "waiting"
      PROVE  batches' = <<>> /\ (LastWords(outbound) => LastWords(outbound'))
  <2>1. batches = <<>>
    BY <1>4 DEF IInv, Frozen
  <2>2. CASE m.type = "input.closed"
    <3>1. batches' = WithoutClosedAudio(batches, m)
      BY <1>1, <2>2 DEF DiscardInputAudio
    <3>2. batches' = <<>>
      BY <2>1, <3>1, NothingToDiscard
    <3>3. LastWords(outbound) => LastWords(outbound')
      BY <1>1, <2>2, FewerWords DEF DiscardQueued
    <3> QED BY <3>2, <3>3
  <2>3. CASE m.type # "input.closed"
    BY <1>1, <2>1, <2>3
  <2> QED BY <2>2, <2>3
<1>5. Frozen'
  BY <1>1, <1>4, FrozenStands DEF IInv
<1> QED BY <1>2, <1>3, <1>5 DEF IInv

(* The validator of a connection that is over, and of one that ends.       *)
LEMMA ClosingDataIs ==
  ASSUME NEW d, d.connection_state = "disconnected"
  PROVE  ClosingData(d) = d
BY DEF ClosingData

LEMMA CloseKeeps ==
  ASSUME IInv, Close
  PROVE  IInv'
<1> DEFINE last == ShutdownMessages
<1>1. closer = "none"
  BY DEF Close
<1>2. CASE connection # "ready"
  <2>1. closer' = "joining" /\ UNCHANGED <<ingressVars, coreVars>>
    BY <1>2 DEF Close
  <2>2. QueueCounted' /\ IsPreRoll(pre_roll')
    BY <2>1, QueueStands DEF IInv, ingressVars
  <2> QED BY <2>1, <2>2 DEF IInv, Frozen, ingressVars, coreVars
<1>3. CASE connection = "ready" /\ last = <<>>
  <2>1. closer' = "joining" /\ RequestClose /\ UNCHANGED <<batches, occupancy, pre_roll>>
    BY <1>3 DEF Close
  <2>2. QueueCounted' /\ IsPreRoll(pre_roll')
    BY <2>1, QueueStands DEF IInv
  <2>3. connection' = "closing"
    BY <1>3, <2>1 DEF RequestClose
  <2> QED BY <2>1, <2>2, <2>3 DEF IInv, Frozen
<1>4. CASE connection = "ready" /\ last # <<>>
  <2>1. /\ shutting_down' = TRUE /\ batches' = <<>> /\ pre_roll' = <<>>
        /\ occupancy' = [data |-> 0, control |-> 0] /\ connection' = connection
        /\ \/ closer' = "waiting" /\ outbound' = <<Batch(last, "control", 0, 0)>>
           \/ closer' = "failed"
    BY <1>4 DEF Close, coreVars
  <2>2. QueueCounted' /\ IsPreRoll(pre_roll')
    BY <2>1, EmptiedCounts, NoPreRoll
  <2>3. LastWords(<<Batch(last, "control", 0, 0)>>)
    BY <1>4, ShutdownWords
  <2> HIDE DEF last
  <2>4. Frozen'
    BY <1>4, <2>1, <2>3 DEF Frozen
  <2> QED BY <2>2, <2>4 DEF IInv
<1> QED BY <1>2, <1>3, <1>4

LEMMA NextKeeps == IInv /\ [Next]_vars => IInv'
<1> SUFFICES ASSUME IInv, [Next]_vars PROVE IInv'
  OBVIOUS
<1>1. CASE Submit \/ AbortInput \/ CancelConversation \/ ReportPlayback
  BY <1>1, CallsKeep
<1>2. CASE Deliver
  <2>1. UNCHANGED <<ingress, batches, occupancy, pre_roll, shutting_down, coreVars, closer>>
    BY <1>2 DEF Deliver
  <2> QED BY <2>1, QueueStands, FrozenStands DEF IInv, Frozen, coreVars
<1>3. CASE Handoff
  BY <1>3, HandoffKeeps
<1>4. CASE Writer
  BY <1>4, WriterKeeps
<1>5. CASE ReceiveRejected
  <2>1. /\ UNCHANGED <<ingressVars, outbound, closer>>
        /\ connection = "ready" /\ connection' = "closing"
    BY <1>5 DEF ReceiveRejected
  <2> QED BY <2>1, QueueStands, FrozenStands DEF IInv, Frozen, ingressVars
<1>6. CASE ReceiveAccepted
  BY <1>6, ReceiveKeeps
<1>7. CASE LoseConnection
  <2>1. UNCHANGED <<ingressVars, outbound, closer>> /\ RequestClose
    BY <1>7 DEF LoseConnection
  <2>2. connection' = connection \/ (connection # "closed" /\ connection' # "closed")
    BY <2>1, RequestCloseIs
  <2> QED BY <2>1, <2>2, QueueStands, FrozenStands DEF IInv, Frozen, ingressVars
<1>8. CASE ConnectionEnds
  <2>1. /\ batches' = <<>> /\ occupancy' = [data |-> 0, control |-> 0] /\ pre_roll' = <<>>
        /\ connection' = "closed" /\ outbound' = <<>>
        /\ ingress'.connection_state = "disconnected"
    BY <1>8 DEF ConnectionEnds, NewData
  <2>2. LastWords(<<>>)
    BY DEF LastWords, Range
  <2>3. Frozen'
    BY <2>1, <2>2 DEF Frozen
  <2> QED BY <2>1, <2>3, EmptiedCounts, NoPreRoll DEF IInv
<1>9. CASE Close
  BY <1>9, CloseKeeps
<1>10. CASE CloseGoesOn
  <2>1. /\ closer' = "joining" /\ RequestClose /\ ingress' = ClosingData(ingress)
        /\ UNCHANGED <<batches, occupancy, pre_roll>>
    BY <1>10 DEF CloseGoesOn, CloseCore
  <2>2. connection' = connection \/ (connection # "closed" /\ connection' # "closed")
    BY <2>1, RequestCloseIs
  <2>3. Frozen'
    BY <2>1, <2>2, ClosingDataIs DEF IInv, Frozen
  <2> QED BY <2>1, <2>3, QueueStands DEF IInv
<1>11. CASE CloseReturns
  <2>1. closer' = "returned" /\ UNCHANGED <<ingressVars, coreVars>>
    BY <1>11 DEF CloseReturns
  <2> QED BY <2>1, QueueStands DEF IInv, Frozen, ingressVars, coreVars
<1>12. CASE UNCHANGED vars
  BY <1>12, QueueStands, FrozenStands DEF IInv, Frozen, vars, ingressVars, coreVars
<1> QED BY <1>1, <1>2, <1>3, <1>4, <1>5, <1>6, <1>7, <1>8, <1>9, <1>10, <1>11, <1>12
        DEF Next, Threads, Closing

(* Every reachable state is counted and, once frozen, frozen.              *)
THEOREM Invariance == Spec => []IInv
BY Initially, NextKeeps, PTL DEF Spec

(* The counters of the ingress are the totals of its queue, within their   *)
(* capacities, and the pre-roll fits, for any capacities and chunk sizes.  *)
THEOREM CountersCorrect == Spec => []Counted
<1>1. IInv => Counted
  <2> SUFFICES ASSUME IInv PROVE Counted
    OBVIOUS
  <2>1. pre_roll \in Seq(Positive) /\ SumOf(pre_roll) <= PreRollFrames
    BY DEF IInv, IsPreRoll
  <2>2. \A k \in DOMAIN pre_roll : pre_roll[k] \in Positive
    BY <2>1
  <2>3. \A k \in DOMAIN pre_roll : pre_roll[k] > 0
    BY <2>2 DEF Positive
  <2> QED BY <2>1, <2>3 DEF IInv, QueueCounted, Counted
<1> QED BY <1>1, Invariance, PTL

(* Nothing of the backlog is sent, or added to it, after close has asked   *)
(* for the end of the conversation.                                        *)
THEOREM BacklogStaysGone == Spec => []BacklogGone
<1>1. IInv => BacklogGone
  BY DEF IInv, Frozen, LastWords, IsLastWord, BacklogGone
<1> QED BY <1>1, Invariance, PTL

-----------------------------------------------------------------------------
(* The hand-off is woken.                                                  *)

(* What a call does to the queue, it notifies of, unless a batch that was  *)
(* there before did already.                                               *)
Notices ==
  batches' # <<>> /\ ~ pending' => batches # <<>> /\ ~ pending

LEMMA EnqueueNotices ==
  ASSUME NEW messages, NEW lane, NEW frames, NEW i, Enqueue(messages, lane, frames, i)
  PROVE  Notices
BY Zenon DEF Enqueue, Notices

LEMMA ControlNotices ==
  ASSUME NEW message, NEW i, Control(message, i)
  PROVE  Notices
<1>1. Fail => Notices
  BY DEF Fail, Notices
<1> QED BY <1>1, EnqueueNotices DEF Control

LEMMA UnchangedNotices == QueueUnchanged => Notices
BY DEF QueueUnchanged, Notices

LEMMA CommitNotices ==
  ASSUME NEW messages, NEW i, NEW frames, NEW kept, NEW pre,
         CommitAudio(messages, i, frames, kept, pre)
  PROVE  Notices
BY EnqueueNotices, UnchangedNotices DEF CommitAudio, NotQueued

LEMMA CallNotices ==
  ASSUME Submit \/ AbortInput \/ CancelConversation \/ ReportPlayback
  PROVE  Notices /\ UNCHANGED <<coreVars, wake, handoff>>
<1>1. CASE Submit
  <2>1. PICK n \in 1..MaxChunk, pre \in {<<>>, pre_roll}, activated \in BOOLEAN :
          \/ SubmitBoundary(n, activated)
          \/ SubmitToOpenInput(n, pre)
          \/ SubmitActivation(n, pre)
          \/ SubmitSpeech(n, pre)
          \/ SubmitSilence(n, activated, pre)
          \/ SubmitRefused(pre)
    BY <1>1 DEF Submit
  <2>2. ASSUME NEW reason, AbortOpenInput(reason) PROVE Notices
    BY <2>2, ControlNotices DEF AbortOpenInput
  <2>3. SubmitBoundary(n, activated) => Notices
    BY <2>2 DEF SubmitBoundary
  <2>4. SubmitToOpenInput(n, pre) => Notices
    BY <2>2, CommitNotices DEF SubmitToOpenInput
  <2>5. SubmitActivation(n, pre) => Notices
    BY CommitNotices DEF SubmitActivation
  <2>6. SubmitSpeech(n, pre) => Notices
    BY CommitNotices DEF SubmitSpeech
  <2>7. SubmitSilence(n, activated, pre) \/ SubmitRefused(pre) => Notices
    BY UnchangedNotices DEF SubmitSilence, SubmitRefused
  <2> QED BY <1>1, <2>1, <2>3, <2>4, <2>5, <2>6, <2>7 DEF Submit
<1>2. CASE AbortInput \/ CancelConversation \/ ReportPlayback
  <2>1. PICK m, i : Call(m, i)
    BY <1>2 DEF AbortInput, CancelConversation, ReportPlayback
  <2> QED BY <2>1, ControlNotices DEF Call
<1> QED BY <1>1, <1>2

(* A step that leaves the queues and the wake event as they are.           *)
LEMMA NobodyDozes ==
  ASSUME ~ Overslept, UNCHANGED <<batches, pending, outbound, wake>>,
         handoff' = "waiting" => handoff = "waiting", connection' = "ready" => connection = "ready"
  PROVE  ~ Overslept'
BY DEF Overslept

(* The hand-off finds no room only where the writer will make some: audio  *)
(* in the ingress fits an empty queue.                                     *)
LEMMA BlockedByQueued ==
  ASSUME IInv, HandoffBlocked
  PROVE  outbound' # <<>>
<1> DEFINE b == Head(batches)
<1>1. batches # <<>> /\ ~ Refused(b) /\ QueueFull(b) /\ outbound' = outbound
  BY DEF HandoffBlocked, WaitForRoom
<1>2. /\ IsBatch(b) /\ FramesIn(Tail(batches)) \in Nat
      /\ FramesIn(batches) = b.frames + FramesIn(Tail(batches))
  BY <1>1, TailOfQueue DEF IInv, QueueCounted
<1> HIDE DEF b
<1>3. b.lane = "data" /\ b.frames \in Nat
  BY <1>1, <1>2 DEF Refused, IsBatch
<1>4. FramesIn(batches) <= InputQueueFrames /\ InputQueueFrames \in Nat
  BY ClientAssumption DEF IInv, QueueCounted
<1>5. b.frames <= InputQueueFrames
  BY <1>2, <1>3, <1>4
<1>6. FramesIn(outbound) + b.frames > InputQueueFrames
  BY <1>1, <1>3 DEF QueueFull
<1>7. outbound # <<>>
  BY <1>3, <1>4, <1>5, <1>6, EmptyQueue
<1> QED BY <1>1, <1>7

LEMMA HandoffWoken ==
  ASSUME IInv, ~ Overslept, Handoff
  PROVE  ~ Overslept'
<1>1. CASE HandoffWakes
  <2>1. handoff' # "waiting"
    BY <1>1 DEF HandoffWakes
  <2> QED BY <2>1 DEF Overslept
<1>2. CASE HandoffTakes \/ HandoffRefused
  <2>1. handoff' # "waiting"
    BY <1>2 DEF HandoffTakes, HandoffRefused
  <2> QED BY <2>1 DEF Overslept
<1>3. CASE HandoffBlocked
  BY <1>3, BlockedByQueued DEF Overslept
<1>4. CASE HandoffRests
  <2>1. batches' = <<>>
    BY <1>4 DEF HandoffRests, ingressVars
  <2> QED BY <2>1 DEF Overslept
<1> QED BY <1>1, <1>2, <1>3, <1>4 DEF Handoff

LEMMA WriterWakes ==
  ASSUME ~ Overslept, Writer
  PROVE  ~ Overslept'
<1>1. CASE WriterGets
  <2>1. wake' = TRUE
    BY <1>1 DEF WriterGets
  <2> QED BY <2>1 DEF Overslept
<1>2. CASE WriterSends
  <2>1. /\ UNCHANGED <<batches, pending, outbound, wake, handoff>>
        /\ RequestClose \/ connection' = connection
    BY <1>2 DEF WriterSends, ingressVars
  <2>2. connection' = "ready" => connection = "ready"
    BY <2>1 DEF RequestClose
  <2> QED BY <2>1, <2>2, NobodyDozes
<1> QED BY <1>1, <1>2 DEF Writer

(* Only a close of the input that empties the core's queue does it.        *)
LEMMA ReceivedWoken ==
  ASSUME ~ Overslept, ReceiveAccepted, outbound' = outbound
  PROVE  ~ Overslept'
<1>1. PICK m \in Sayable :
        /\ IF m.type = "input.closed" THEN DiscardInputAudio(m) /\ DiscardQueued(m)
           ELSE UNCHANGED <<batches, occupancy, outbound>>
        /\ UNCHANGED <<pending, connection, wake, handoff>>
  BY DEF ReceiveAccepted
<1>2. batches = <<>> => batches' = <<>>
  BY <1>1, NothingToDiscard DEF DiscardInputAudio
<1> QED BY <1>1, <1>2 DEF Overslept

LEMMA ClosingWoken ==
  ASSUME ~ Overslept, Closing
  PROVE  ~ Overslept'
<1>1. CASE Close
  <2> DEFINE last == ShutdownMessages
  <2>1. CASE connection # "ready"
    <3>1. connection' # "ready"
      BY <1>1, <2>1 DEF Close, coreVars
    <3> QED BY <3>1 DEF Overslept
  <2>2. CASE connection = "ready" /\ last = <<>>
    <3>1. RequestClose
      BY <1>1, <2>2 DEF Close
    <3>2. connection' # "ready"
      BY <2>2, <3>1 DEF RequestClose
    <3> QED BY <3>2 DEF Overslept
  <2>3. CASE connection = "ready" /\ last # <<>>
    <3>1. batches' = <<>>
      BY <1>1, <2>3 DEF Close
    <3> QED BY <3>1 DEF Overslept
  <2> QED BY <2>1, <2>2, <2>3
<1>2. CASE CloseGoesOn
  <2>1. connection' # "ready"
    BY <1>2 DEF CloseGoesOn, CloseCore, RequestClose
  <2> QED BY <2>1 DEF Overslept
<1>3. CASE CloseReturns
  <2>1. UNCHANGED <<batches, pending, outbound, wake, handoff, connection>>
    BY <1>3 DEF CloseReturns, ingressVars, coreVars
  <2> QED BY <2>1, NobodyDozes
<1> QED BY <1>1, <1>2, <1>3 DEF Closing

LEMMA NextWakes ==
  ASSUME IInv, [Next]_vars, ~ Overslept, Overslept'
  PROVE  ReceiveAccepted /\ outbound' # outbound
<1> SUFFICES ASSUME ~ (ReceiveAccepted /\ outbound' # outbound) PROVE FALSE
  OBVIOUS
<1>1. CASE Submit \/ AbortInput \/ CancelConversation \/ ReportPlayback
  <2>1. Notices /\ UNCHANGED <<outbound, connection, wake, handoff>>
    BY <1>1, CallNotices DEF coreVars
  <2> QED BY <2>1 DEF Notices, Overslept
<1>2. CASE Deliver
  <2>1. wake' = TRUE
    BY <1>2 DEF Deliver
  <2> QED BY <2>1 DEF Overslept
<1>3. CASE Handoff
  BY <1>3, HandoffWoken
<1>4. CASE Writer
  BY <1>4, WriterWakes
<1>5. CASE ReceiveRejected \/ LoseConnection \/ ConnectionEnds
  <2>1. connection' # "ready"
    BY <1>5 DEF ReceiveRejected, LoseConnection, RequestClose, ConnectionEnds
  <2> QED BY <2>1 DEF Overslept
<1>6. CASE ReceiveAccepted
  BY <1>6, ReceivedWoken
<1>7. CASE Closing
  BY <1>7, ClosingWoken
<1>8. CASE UNCHANGED vars
  <2>1. UNCHANGED <<batches, pending, outbound, wake, handoff, connection>>
    BY <1>8 DEF vars, ingressVars, coreVars
  <2> QED BY <2>1, NobodyDozes
<1> QED BY <1>1, <1>2, <1>3, <1>4, <1>5, <1>6, <1>7, <1>8 DEF Next, Threads

(* A hand-off that sleeps over a filled ingress is woken, for any          *)
(* capacities and interleaving; only a discard of what the core had queued *)
(* takes the call away.                                                    *)
THEOREM NobodyOversleeps == Spec => WakeUpsArrive
<1>1. IInv /\ [Next]_vars
        => [~ Overslept /\ Overslept' => ReceiveAccepted /\ outbound' # outbound]_vars
  BY NextWakes
<1> QED BY <1>1, Invariance, PTL DEF Spec, WakeUpsArrive

-----------------------------------------------------------------------------
(* The audio of the inputs.  First what accepting a message makes of the   *)
(* inputs a validator knows (Heard), then what a queue holds of an input,  *)
(* then how every action keeps the two together (VInv).                    *)

-----------------------------------------------------------------------------
(* What a validator's data also looks like: the records of conversations   *)
(* that were cancelled or ended speak of conversations that were started,  *)
(* and an input nobody started holds nothing.                              *)

Fate(d) ==
  /\ \A c \in Ids :
       d.ended_conversations[c] # "none" \/ d.cancelled_conversations[c] # "none"
         => c < d.conversation_ids
  /\ d.conversation.id # 0 =>
       /\ d.conversation.id < d.conversation_ids
       /\ d.ended_conversations[d.conversation.id] = "none"
       /\ d.conversation.cancel = "none" =>
            d.cancelled_conversations[d.conversation.id] = "none"
Fresh(d) ==
  \A i \in Ids : d.inputs[i].conversation_id = 0 =>
    d.inputs[i].received = 0 /\ d.inputs[i].terminal = NoTerminal
Sane(d) == Good(d) /\ Fate(d) /\ Fresh(d) /\ d.connection_state # "handshaking"

(* What the client may queue, and what the server may answer.              *)
Uttered ==
  AnyConversationStarts \cup AnyInputStarts \cup AnyInputAudios \cup AnyInputAborts
  \cup AnyPlaybackFinishes \cup AnyPlaybackInterrupts \cup AnyConversationCancels
Replied ==
  AnyInputCloses \cup AnyTranscriptUpdates \cup AnyTranscriptFinals
  \cup AnyResponseStarts \cup AnyTextDeltas \cup AnyTextFinals
  \cup AnyOutputStarts \cup AnyOutputAudios \cup AnyOutputEnds
  \cup AnyResponseEnds \cup AnyResponseCancels \cup AnyConversationEnds
  \cup AnyStates \cup AnyErrors

IsOf(i, m) == m.type = "input.audio" /\ m.input_id = i
IsClosed(d, i) == d.inputs[i].terminal.kind = "closed"
Received(d, i) == d.inputs[i].received

(* What accepting m does to the inputs: audio extends its input, a close   *)
(* closes it within what was received, and only a start opens one.         *)
Extends(d, m, e, i) ==
  IF IsOf(i, m) THEN m.start_frame = Received(d, i) /\ Received(e, i) = m.start_frame + m.frames
  ELSE Received(e, i) = Received(d, i)
Shuts(d, m, e, i) ==
  /\ IsClosed(d, i) => IsClosed(e, i)
  /\ IsClosed(e, i) /\ ~ IsClosed(d, i) =>
       m.type = "input.closed" /\ m.input_id = i /\ m.accepted_end_frame <= Received(d, i)
Heard(d, m, e) ==
  /\ Sane(e)
  /\ \A i \in Ids : Extends(d, m, e, i) /\ Shuts(d, m, e, i)
  /\ m.type = "input.closed" => IsClosed(e, m.input_id)
  /\ m.type # "input.start" /\ OpenInputId(d) = 0 => OpenInputId(e) = 0

-----------------------------------------------------------------------------
(* The handlers that leave the inputs alone.                               *)

Shaped(d) ==
  /\ DOMAIN d = {"connection_state", "client_hello", "server_hello", "conversation",
                 "conversation_ids", "input_ids", "response_ids", "output_ids", "inputs",
                 "responses", "tombstones", "ended_conversations",
                 "cancelled_conversations", "terminal_states"}
  /\ DOMAIN d.inputs = Ids

SameFate(d, e) ==
  /\ e.connection_state \in {d.connection_state, "closing"}
  /\ e.conversation_ids = d.conversation_ids
  /\ e.ended_conversations = d.ended_conversations
  /\ e.cancelled_conversations = d.cancelled_conversations
SameTurn(c, b) ==
  b.id = c.id /\ b.cancel = c.cancel /\ (b.input_id = 0 \/ b.input_id = c.input_id)
SameInput(x, y) ==
  y.conversation_id = x.conversation_id /\ y.received = x.received /\ y.terminal = x.terminal
Quiet(d, e) ==
  /\ Shaped(e) /\ SameFate(d, e) /\ SameTurn(d.conversation, e.conversation)
  /\ \A i \in Ids : SameInput(d.inputs[i], e.inputs[i])

LEMMA DataShaped == \A d \in Data : Shaped(d)
BY DEF Data, Shaped

LEMMA QuietSelf ==
  ASSUME NEW d, Shaped(d)
  PROVE  Quiet(d, d)
BY DEF Quiet, SameFate, SameTurn, SameInput

LEMMA QuietTwice ==
  ASSUME NEW d, NEW e, NEW f, Quiet(d, e), Quiet(e, f)
  PROVE  Quiet(d, f)
BY DEF Quiet, SameFate, SameTurn, SameInput

LEMMA ResponseIsQuiet ==
  ASSUME NEW d, Shaped(d), NEW id, NEW x
  PROVE  /\ Quiet(d, WithResponse(d, id, x))
         /\ WithResponse(d, id, x).conversation = d.conversation
BY DEF Quiet, Shaped, SameFate, SameTurn, SameInput, WithResponse

LEMMA TombstoneIsQuiet ==
  ASSUME NEW d, Shaped(d), NEW kind, NEW id, NEW state
  PROVE  Quiet(d, WithTombstone(d, kind, id, state))
BY DEF Quiet, Shaped, SameFate, SameTurn, SameInput, WithTombstone

LEMMA TurnIsQuiet ==
  ASSUME NEW d, Shaped(d), NEW c, SameTurn(d.conversation, c)
  PROVE  Quiet(d, WithConversation(d, c))
BY DEF Quiet, Shaped, SameFate, SameTurn, SameInput, WithConversation

LEMMA InputIsQuiet ==
  ASSUME NEW d, Shaped(d), NEW id, NEW x, SameInput(d.inputs[id], x)
  PROVE  /\ Quiet(d, WithInput(d, id, x))
         /\ WithInput(d, id, x).conversation = d.conversation
<1> DEFINE e == WithInput(d, id, x)
<1>1. /\ Shaped(e) /\ e.inputs = [d.inputs EXCEPT ![id] = x] /\ e.conversation = d.conversation
      /\ e.connection_state = d.connection_state /\ e.conversation_ids = d.conversation_ids
      /\ e.ended_conversations = d.ended_conversations
      /\ e.cancelled_conversations = d.cancelled_conversations
  BY DEF Shaped, WithInput
<1> HIDE DEF e
<1>2. \A i \in Ids : SameInput(d.inputs[i], e.inputs[i])
  BY <1>1 DEF Shaped, SameInput
<1> QED BY <1>1, <1>2 DEF Quiet, SameFate, SameTurn, e

(* A quiet step leaves every input as it was, open or over.                *)
LEMMA QuietHeard ==
  ASSUME NEW d, Sane(d), NEW e, Good(e), Quiet(d, e), NEW m,
         m.type \notin {"input.audio", "input.closed"}
  PROVE  Heard(d, m, e)
<1>1. /\ d.conversation \in Conversations /\ \A i \in Ids : d.inputs[i] \in Inputs
  BY Parts DEF Sane, Good
<1>2. Sane(e)
  BY DEF Sane, Fate, Fresh, Quiet, SameFate, SameTurn, SameInput
<1>3. \A i \in Ids : Extends(d, m, e, i) /\ Shuts(d, m, e, i)
  BY DEF Extends, Shuts, IsOf, IsClosed, Received, Quiet, SameInput
<1>4. OpenInputId(d) = 0 => OpenInputId(e) = 0
  <2>1. d.conversation.input_id # 0 => d.conversation.input_id \in Ids
    BY <1>1, NoneIds DEF Conversations
  <2> QED BY <2>1 DEF OpenInputId, Quiet, SameTurn, SameInput
<1> QED BY <1>2, <1>3, <1>4 DEF Heard

LEMMA AllocationIsQuiet ==
  ASSUME NEW d, Shaped(d), NEW n
  PROVE  Quiet(d, [d EXCEPT !.response_ids = n]) /\ Quiet(d, [d EXCEPT !.output_ids = n])
BY DEF Quiet, Shaped, SameFate, SameTurn, SameInput

LEMMA ConnectionIsQuiet ==
  ASSUME NEW d, Shaped(d)
  PROVE  Quiet(d, [d EXCEPT !.connection_state = "closing"])
BY DEF Quiet, Shaped, SameFate, SameTurn, SameInput

LEMMA ReleasedTurn ==
  ASSUME NEW c \in Conversations, NEW i, i = 0 \/ i = c.input_id, NEW reason
  PROVE  SameTurn(c, Released(c, i, reason))
BY DEF SameTurn, Released, Conversations

LEMMA CompleteIsQuiet ==
  ASSUME NEW d, Shaped(d), d.conversation \in Conversations, NEW id
  PROVE  Quiet(d, CompleteResponse(d, id))
<1> DEFINE expected == IF d.responses[id].end_conversation THEN "completed" ELSE "none"
           released == Released(d.conversation, 0, expected)
           w == WithConversation(d, released)
<1>1. SameTurn(d.conversation, released)
  BY ReleasedTurn
<1> HIDE DEF released
<1>2. Quiet(d, w)
  BY <1>1, TurnIsQuiet
<1> HIDE DEF w
<1>3. Quiet(w, WithTombstone(w, "response", id, "completed"))
  BY <1>2, TombstoneIsQuiet DEF Quiet
<1> QED BY <1>2, <1>3, QuietTwice DEF CompleteResponse, w, released

LEMMA CancelIsQuiet ==
  ASSUME NEW d, Shaped(d), d.conversation \in Conversations, NEW m
  PROVE  Quiet(d, AfterCancelResponse(d, m))
<1> DEFINE id == m.response_id
           r == d.responses[id]
           c == d.conversation
           keepBargeInput == m.reason = "barge_in" /\ c.input_id \notin {0, r.input_id}
           buried == IF OpenOutput(r)
                     THEN WithTombstone(d, "output", r.output.id, "cancelled") ELSE d
           cancelled == WithResponse(buried, id, CancelledResponse(r, m.reason))
           released == Released(c, IF keepBargeInput THEN c.input_id ELSE 0,
                                CancellationEnd(c, r, m.reason))
           w == WithConversation(cancelled, released)
<1>1. Quiet(d, buried) /\ buried.conversation = c
  <2>1. WithTombstone(d, "output", r.output.id, "cancelled").conversation = c
    BY DEF WithTombstone, Shaped
  <2> QED BY <2>1, TombstoneIsQuiet, QuietSelf
<1>2. SameTurn(c, released)
  BY ReleasedTurn
<1> HIDE DEF buried, released
<1>3. Quiet(buried, cancelled) /\ cancelled.conversation = c
  BY <1>1, ResponseIsQuiet DEF Quiet
<1> HIDE DEF cancelled
<1>4. Quiet(cancelled, w)
  BY <1>2, <1>3, TurnIsQuiet DEF Quiet
<1>5. Quiet(d, w)
  <2> HIDE DEF w
  <2>1. Quiet(d, cancelled)
    BY <1>1, <1>3, QuietTwice
  <2> QED BY <1>4, <2>1, QuietTwice
<1> HIDE DEF w
<1>6. Quiet(w, WithTombstone(w, "response", id, "cancelled"))
  BY <1>5, TombstoneIsQuiet DEF Quiet
<1>7. Quiet(d, WithTombstone(w, "response", id, "cancelled"))
  BY <1>5, <1>6, QuietTwice
<1>8. AfterCancelResponse(d, m) \in {d, WithTombstone(w, "response", id, "cancelled")}
  BY DEF AfterCancelResponse, w, cancelled, released, buried
<1> QED BY <1>7, <1>8, QuietSelf

(* A response that is written, or buried after it was.                     *)
LEMMA WrittenIsQuiet ==
  ASSUME NEW d, Shaped(d), NEW id, NEW x, NEW kind, NEW b, NEW state
  PROVE  /\ Quiet(d, WithResponse(d, id, x))
         /\ Quiet(d, WithTombstone(WithResponse(d, id, x), kind, b, state))
<1> DEFINE w == WithResponse(d, id, x)
<1>1. Quiet(d, w)
  BY ResponseIsQuiet
<1> HIDE DEF w
<1>2. Quiet(w, WithTombstone(w, kind, b, state))
  BY <1>1, TombstoneIsQuiet DEF Quiet
<1> QED BY <1>1, <1>2, QuietTwice DEF w

LEMMA StartResponseIsQuiet ==
  ASSUME NEW d \in Data, NEW m, m.input_id \in Ids
  PROVE  Quiet(d, AfterStartResponse(d, m))
<1> DEFINE answered == [d.inputs[m.input_id] EXCEPT !.response_id = m.response_id]
           current == [d.conversation EXCEPT !.response_id = m.response_id]
           v == WithInput(d, m.input_id, answered)
           w == WithConversation(v, current)
           x == WithResponse(w, m.response_id, NewResponse(m))
           y == [x EXCEPT !.response_ids = @ + 1]
<1>1. SameInput(d.inputs[m.input_id], answered) /\ SameTurn(d.conversation, current)
  BY Parts DEF SameInput, SameTurn, Inputs, Conversations
<1> HIDE DEF answered, current
<1>2. Quiet(d, v) /\ v.conversation = d.conversation
  BY <1>1, DataShaped, InputIsQuiet
<1> HIDE DEF v
<1>3. Quiet(v, w)
  BY <1>1, <1>2, TurnIsQuiet DEF Quiet
<1> HIDE DEF w
<1>4. Quiet(w, x)
  BY <1>3, ResponseIsQuiet DEF Quiet
<1> HIDE DEF x
<1>5. Quiet(x, y)
  BY <1>4, AllocationIsQuiet DEF Quiet
<1> HIDE DEF y
<1>6. Quiet(d, y)
  BY <1>2, <1>3, <1>4, <1>5, QuietTwice
<1> QED BY <1>6 DEF AfterStartResponse, y, x, w, v, answered, current

LEMMA StartOutputIsQuiet ==
  ASSUME NEW d \in Data, NEW m
  PROVE  Quiet(d, AfterStartOutput(d, m))
<1> DEFINE r == d.responses[m.response_id]
           v(terminal) == WithResponse(d, m.response_id,
                            [r EXCEPT !.output = [NoOutput EXCEPT !.id = m.output_id,
                                                                  !.terminal = terminal]])
           w(terminal) == [v(terminal) EXCEPT !.output_ids = @ + 1]
           current == [d.conversation EXCEPT !.output_id = m.output_id]
<1>1. SameTurn(d.conversation, current)
  BY Parts DEF SameTurn, Conversations
<1> HIDE DEF current
<1>2. ASSUME NEW terminal
      PROVE  Quiet(d, w(terminal)) /\ w(terminal).conversation = d.conversation
  <2>1. Quiet(d, v(terminal)) /\ v(terminal).conversation = d.conversation
    BY DataShaped, ResponseIsQuiet
  <2> HIDE DEF v
  <2>2. Quiet(v(terminal), w(terminal)) /\ w(terminal).conversation = d.conversation
    BY <2>1, AllocationIsQuiet DEF Quiet, Shaped
  <2> QED BY <2>1, <2>2, QuietTwice
<1> HIDE DEF w
<1>3. Quiet(d, WithTombstone(w("cancelled"), "output", m.output_id, "cancelled"))
  <2>1. Quiet(d, w("cancelled"))
    BY <1>2
  <2>2. Quiet(w("cancelled"), WithTombstone(w("cancelled"), "output", m.output_id, "cancelled"))
    BY <2>1, TombstoneIsQuiet DEF Quiet
  <2> QED BY <2>1, <2>2, QuietTwice
<1>4. Quiet(d, WithConversation(w("none"), current))
  <2>1. Quiet(d, w("none")) /\ w("none").conversation = d.conversation
    BY <1>2
  <2>2. Quiet(w("none"), WithConversation(w("none"), current))
    BY <1>1, <2>1, TurnIsQuiet DEF Quiet
  <2> QED BY <2>1, <2>2, QuietTwice
<1>5. AfterStartOutput(d, m) \in
        {WithTombstone(w("cancelled"), "output", m.output_id, "cancelled"),
         WithConversation(w("none"), current)}
  BY DEF AfterStartOutput, w, v, current
<1> QED BY <1>3, <1>4, <1>5

LEMMA EndResponseIsQuiet ==
  ASSUME NEW d \in Data, NEW m
  PROVE  Quiet(d, AfterEndResponse(d, m))
<1> DEFINE r == d.responses[m.response_id]
           ended == WithResponse(d, m.response_id, [r EXCEPT !.end = TRUE, !.terminal = "ended"])
<1>1. Quiet(d, ended) /\ ended.conversation \in Conversations
  BY DataShaped, Parts, ResponseIsQuiet
<1>2. AfterEndResponse(d, m) \in {d, ended, CompleteResponse(ended, m.response_id)}
  BY DEF AfterEndResponse
<1> HIDE DEF ended
<1>3. Quiet(ended, CompleteResponse(ended, m.response_id))
  BY <1>1, CompleteIsQuiet DEF Quiet
<1>4. Quiet(d, CompleteResponse(ended, m.response_id))
  BY <1>1, <1>3, QuietTwice
<1> QED BY <1>1, <1>2, <1>4, DataShaped, QuietSelf

LEMMA PlaybackIsQuiet ==
  ASSUME NEW d \in Data, NEW m, Role = "client"
  PROVE  Quiet(d, AfterPlaybackOutcome(d, m))
<1> DEFINE id == m.response_id
           v == WithPlayback(d, m)
           w == Interrupted(d, m)
<1>1. Quiet(d, v) /\ v.conversation \in Conversations
  BY DataShaped, Parts, ResponseIsQuiet DEF WithPlayback
<1>2. Quiet(d, w) /\ w.conversation \in Conversations
  BY DataShaped, Parts, ResponseIsQuiet DEF Interrupted
<1>3. AfterPlaybackOutcome(d, m) \in
        {d, v, w, CompleteResponse(v, id), AfterCancelResponse(w, PlaybackCancel(m))}
  BY DEF AfterPlaybackOutcome
<1> HIDE DEF v, w
<1>4. Quiet(v, CompleteResponse(v, id))
  BY <1>1, CompleteIsQuiet DEF Quiet
<1>5. Quiet(w, AfterCancelResponse(w, PlaybackCancel(m)))
  BY <1>2, CancelIsQuiet DEF Quiet
<1>6. /\ Quiet(d, CompleteResponse(v, id))
      /\ Quiet(d, AfterCancelResponse(w, PlaybackCancel(m)))
  <2>1. Quiet(d, CompleteResponse(v, id))
    BY <1>1, <1>4, QuietTwice
  <2>2. Quiet(d, AfterCancelResponse(w, PlaybackCancel(m)))
    BY <1>2, <1>5, QuietTwice
  <2> QED BY <2>1, <2>2
<1> QED BY <1>1, <1>2, <1>3, <1>6, DataShaped, QuietSelf

LEMMA StateIsQuiet ==
  ASSUME NEW d \in Data, NEW m
  PROVE  Quiet(d, AfterState(d, m))
<1> DEFINE c == d.conversation
           b == [c EXCEPT !.state = StateOf(m),
                          !.input_id = IF m.state = "waiting" THEN 0 ELSE @]
<1>1. SameTurn(c, b)
  BY Parts DEF SameTurn, Conversations
<1>2. AfterState(d, m) \in {d, WithConversation(d, b)}
  BY DEF AfterState
<1> HIDE DEF b
<1> QED BY <1>1, <1>2, DataShaped, QuietSelf, TurnIsQuiet

(* The client only records a failure.                                      *)
LEMMA ErrorIsQuiet ==
  ASSUME NEW d \in Data, NEW m \in AnyErrors, Role = "client"
  PROVE  Quiet(d, AfterError(d, m))
<1>1. CASE m.scope = "connection"
  BY <1>1, DataShaped, ConnectionIsQuiet DEF AfterError
<1>2. CASE m.scope = "input"
  <2> DEFINE x == [d.inputs[m.input_id] EXCEPT !.failure = m.code]
  <2>1. m.input_id \in Ids
    BY <1>2 DEF AnyErrors, ConnectionErrors, AnyConversationErrors, AnyInputErrors,
                AnyResponseErrors, Error
  <2>2. SameInput(d.inputs[m.input_id], x)
    BY <2>1, Parts DEF SameInput, Inputs
  <2>3. AfterError(d, m) = WithInput(d, m.input_id, x)
    BY <1>2 DEF AfterError, AfterInputError, WithInputFailure
  <2> HIDE DEF x
  <2> QED BY <2>2, <2>3, DataShaped, InputIsQuiet
<1>3. CASE m.scope = "response"
  BY <1>3, DataShaped, ResponseIsQuiet DEF AfterError, AfterResponseError, WithResponseFailure
<1>4. CASE m.scope = "conversation"
  <2> DEFINE w == WithStaleResponse(d)
             c == [d.conversation EXCEPT !.failure = m.code]
  <2>1. Quiet(d, w) /\ w.conversation = d.conversation
    BY DataShaped, QuietSelf, ResponseIsQuiet DEF WithStaleResponse
  <2>2. SameTurn(d.conversation, c)
    BY Parts DEF SameTurn, Conversations
  <2>3. AfterError(d, m) = WithConversation(w, c)
    <3>1. AfterError(d, m) = WithFailure(w, m.code)
      BY <1>4 DEF AfterError, AfterConversationError
    <3> HIDE DEF w
    <3> QED BY <2>1, <3>1 DEF WithFailure
  <2> HIDE DEF w, c
  <2>4. Quiet(w, WithConversation(w, c))
    BY <2>1, <2>2, TurnIsQuiet DEF Quiet
  <2> QED BY <2>1, <2>3, <2>4, QuietTwice
<1> QED BY <1>1, <1>2, <1>3, <1>4
        DEF AnyErrors, ConnectionErrors, AnyConversationErrors, AnyInputErrors,
            AnyResponseErrors, Error

LEMMA TranscriptIsQuiet ==
  ASSUME NEW d \in Data, NEW m, m.input_id \in Ids
  PROVE  Quiet(d, AfterTranscriptUpdate(d, m)) /\ Quiet(d, AfterTranscriptFinal(d, m))
<1> DEFINE i == d.inputs[m.input_id]
           update == [revision |-> m.revision, text |-> m.text]
<1>1. SameInput(i, [i EXCEPT !.update = update]) /\ SameInput(i, [i EXCEPT !.final = m.text])
  BY Parts DEF SameInput, Inputs
<1>2. ASSUME NEW x, SameInput(i, x) PROVE Quiet(d, WithInput(d, m.input_id, x))
  BY <1>2, DataShaped, InputIsQuiet
<1> QED BY <1>1, <1>2 DEF AfterTranscriptUpdate, AfterTranscriptFinal

(* One input changes, and nothing else that counts.                        *)
LEMMA InputHeard ==
  ASSUME NEW d, Sane(d), NEW e, Good(e), SameRest(d, e), e.conversation = d.conversation,
         NEW id \in Ids, NEW x, e.inputs = [d.inputs EXCEPT ![id] = x],
         x.conversation_id = d.inputs[id].conversation_id, x.conversation_id # 0,
         d.inputs[id].terminal # NoTerminal => x.terminal # NoTerminal,
         NEW m, m.type # "input.start", m.input_id = id,
         IF m.type = "input.audio"
         THEN m.start_frame = d.inputs[id].received /\ x.received = m.start_frame + m.frames
         ELSE x.received = d.inputs[id].received,
         d.inputs[id].terminal.kind = "closed" => x.terminal.kind = "closed",
         x.terminal.kind = "closed" =>
           \/ d.inputs[id].terminal.kind = "closed"
           \/ m.type = "input.closed" /\ m.accepted_end_frame <= d.inputs[id].received,
         m.type = "input.closed" => x.terminal.kind = "closed"
  PROVE  Heard(d, m, e)
<1>1. /\ d.conversation \in Conversations /\ DOMAIN d.inputs = Ids
  BY Parts DEF Sane, Good
<1>2. e.inputs[id] = x /\ \A i \in Ids : i # id => e.inputs[i] = d.inputs[i]
  BY <1>1
<1>3. Sane(e)
  <2>1. Fate(e) /\ e.connection_state # "handshaking"
    BY DEF Sane, Fate, SameRest
  <2>2. Fresh(e)
    BY <1>2 DEF Sane, Fresh
  <2> QED BY <2>1, <2>2 DEF Sane
<1>4. \A i \in Ids : Extends(d, m, e, i)
  BY <1>2 DEF Extends, IsOf, Received
<1>5. \A i \in Ids : Shuts(d, m, e, i)
  BY <1>2 DEF Shuts, Received, IsClosed
<1>6. OpenInputId(d) = 0 => OpenInputId(e) = 0
  <2>1. d.conversation.input_id # 0 => d.conversation.input_id \in Ids
    BY <1>1, NoneIds DEF Conversations
  <2> QED BY <1>2, <2>1 DEF OpenInputId
<1> QED BY <1>2, <1>3, <1>4, <1>5, <1>6 DEF Heard, IsClosed

(* The conversation changes, and no input is current any more.             *)
LEMMA TurnHeard ==
  ASSUME NEW d, Sane(d), NEW e, Good(e), Fate(e), e.connection_state = d.connection_state,
         e.inputs = d.inputs, e.conversation.input_id = 0,
         NEW m, m.type \notin {"input.audio", "input.closed"}
  PROVE  Heard(d, m, e)
BY DEF Sane, Fresh, Heard, Extends, Shuts, IsOf, IsClosed, Received, OpenInputId

LEMMA StartConversationHeard ==
  ASSUME NEW d, Sane(d), NEW m \in AnyConversationStarts, CanStartConversation(d, m)
  PROVE  Heard(d, m, AfterStartConversation(d, m))
<1> DEFINE e == AfterStartConversation(d, m)
           c == m.conversation_id
<1>1. d \in Data /\ Good(d) /\ c \in Ids /\ m.type = "conversation.start"
  BY DEF Sane, Good, AnyConversationStarts
<1>2. Good(e)
  BY <1>1, StartConversationGood
<1>3. /\ e.connection_state = d.connection_state /\ e.inputs = d.inputs
      /\ e.conversation.id = c /\ e.conversation.input_id = 0
      /\ e.conversation_ids = d.conversation_ids + 1
      /\ e.ended_conversations = d.ended_conversations
      /\ e.cancelled_conversations = d.cancelled_conversations
  BY <1>1 DEF AfterStartConversation, WithConversation, NoConversation, Data
<1>4. d.conversation_ids = c /\ c \in Nat /\ \A k \in Ids : k \in Nat
  BY <1>1, NoneIds DEF CanStartConversation
<1> HIDE DEF e
<1>5. Fate(e)
  BY <1>1, <1>3, <1>4, SMT DEF Fate, Sane
<1> QED BY <1>1, <1>2, <1>3, <1>5, TurnHeard DEF e

LEMMA EndConversationHeard ==
  ASSUME NEW d, Sane(d), NEW m \in AnyConversationEnds, CanEndConversation(d, m)
  PROVE  Heard(d, m, AfterEndConversation(d, m))
<1> DEFINE e == AfterEndConversation(d, m)
           c == m.conversation_id
<1>1. /\ d \in Data /\ Good(d) /\ c \in Ids /\ m.type = "conversation.end"
      /\ m.reason \in ConversationEndReason
  BY DEF Sane, Good, AnyConversationEnds
<1>2. Good(e)
  BY <1>1, EndConversationGood
<1>3. CASE d.ended_conversations[c] # "none"
  <2>1. e = d
    BY <1>3 DEF AfterEndConversation
  <2> QED BY <1>1, <2>1, DataShaped, QuietSelf, QuietHeard DEF Sane
<1>4. CASE d.ended_conversations[c] = "none"
  <2>1. /\ e.connection_state = d.connection_state /\ e.inputs = d.inputs
        /\ e.conversation.id = 0 /\ e.conversation.input_id = 0
        /\ e.conversation_ids = d.conversation_ids
        /\ e.ended_conversations = [d.ended_conversations EXCEPT ![c] = m.reason]
        /\ e.cancelled_conversations = d.cancelled_conversations
    BY <1>1, <1>4 DEF AfterEndConversation, WithTombstone, WithConversation, NoConversation, Data
  <2>2. d.conversation.id = c /\ c # 0
    BY <1>1, <1>4, NoneIds DEF CanEndConversation, Open
  <2>3. DOMAIN d.ended_conversations = Ids
    BY <1>1 DEF Data
  <2> HIDE DEF e
  <2>4. Fate(e)
    BY <2>1, <2>2, <2>3 DEF Fate, Sane
  <2> QED BY <1>1, <1>2, <2>1, <2>4, TurnHeard DEF e
<1> QED BY <1>3, <1>4

LEMMA CancelConversationHeard ==
  ASSUME NEW d, Sane(d), NEW m \in AnyConversationCancels, CanCancelConversation(d, m)
  PROVE  LET e == AfterCancelConversation(d, m) IN
         /\ Heard(d, m, e)
         /\ Live(d, m.conversation_id) => OpenInputId(e) = 0 /\ e.conversation.cancel # "none"
<1> DEFINE e == AfterCancelConversation(d, m)
           c == m.conversation_id
           i == d.conversation.input_id
           openInput == i # 0 /\ d.inputs[i].terminal = NoTerminal
           x == [d.inputs[i] EXCEPT !.terminal = CancelledInput]
<1>1. /\ d \in Data /\ Good(d) /\ c \in Ids /\ m.type = "conversation.cancel"
      /\ m.reason \in ConversationCancelReason /\ m.reason # "none"
  BY DEF Sane, Good, AnyConversationCancels, ConversationCancelReason
<1>2. Good(e)
  BY <1>1, CancelConversationGood
<1>3. CASE d.cancelled_conversations[c] # "none"
  <2>1. e = d
    BY <1>3 DEF AfterCancelConversation
  <2>2. Heard(d, m, d)
    BY <1>1, DataShaped, QuietSelf, QuietHeard DEF Sane
  <2>3. ~ Live(d, c)
    BY <1>1, <1>3, NoneIds DEF Live, Open, Sane, Fate
  <2> QED BY <2>1, <2>2, <2>3
<1>4. CASE d.cancelled_conversations[c] = "none"
  <2>1. d.conversation.id = c /\ c # 0
    BY <1>1, <1>4, NoneIds DEF CanCancelConversation, Open
  <2>2. /\ e.connection_state = d.connection_state
        /\ e.conversation.id = c /\ e.conversation.input_id = i
        /\ e.conversation.cancel = m.reason
        /\ e.conversation_ids = d.conversation_ids
        /\ e.ended_conversations = d.ended_conversations
        /\ e.cancelled_conversations = [d.cancelled_conversations EXCEPT ![c] = m.reason]
        /\ e.inputs = IF openInput THEN [d.inputs EXCEPT ![i] = x] ELSE d.inputs
    BY <1>1, <1>4, <2>1 DEF AfterCancelConversation, WithTombstone, WithInput, WithConversation,
                            Data, Conversations
  <2>3. /\ DOMAIN d.cancelled_conversations = Ids /\ DOMAIN d.inputs = Ids
        /\ i # 0 => i \in Ids /\ d.inputs[i] \in Inputs
    BY <1>1, NoneIds, Parts DEF Data, Conversations
  <2>4. i # 0 => /\ x.terminal = CancelledInput /\ x.received = d.inputs[i].received
                 /\ x.conversation_id = d.inputs[i].conversation_id
    BY <2>3 DEF Inputs
  <2>5. /\ CancelledInput # NoTerminal /\ CancelledInput.kind # "closed"
        /\ NoTerminal.kind # "closed"
    BY DEF CancelledInput, NoTerminal
  <2>6. i # 0 => d.inputs[i].conversation_id # 0
    BY <2>1 DEF Sane, Good, Turns, CurrentInput
  <2> HIDE DEF x, e
  <2>7. \A k \in Ids : e.inputs[k] = IF openInput /\ k = i THEN x ELSE d.inputs[k]
    BY <2>2, <2>3
  <2>8. Fate(e)
    BY <1>1, <2>1, <2>2, <2>3 DEF Fate, Sane
  <2>9. Sane(e)
    <3>1. Fresh(e)
      BY <2>4, <2>6, <2>7 DEF Fresh, Sane
    <3> QED BY <1>2, <2>2, <2>8, <3>1 DEF Sane, e
  <2>10. \A k \in Ids : Extends(d, m, e, k) /\ Shuts(d, m, e, k)
    BY <1>1, <2>4, <2>5, <2>7 DEF Extends, Shuts, IsOf, Received, IsClosed
  <2>11. OpenInputId(e) = 0
    BY <2>2, <2>3, <2>4, <2>5, <2>7 DEF OpenInputId
  <2> QED BY <1>1, <2>2, <2>9, <2>10, <2>11 DEF Heard, e
<1> QED BY <1>3, <1>4

LEMMA StartInputHeard ==
  ASSUME NEW d, Sane(d), NEW m \in AnyInputStarts, CanStartInput(d, m)
  PROVE  Heard(d, m, AfterStartInput(d, m))
<1> DEFINE e == AfterStartInput(d, m)
           id == m.input_id
           base == IF CancelsOnBarge(d, m) THEN AfterCancelResponse(d, BargeCancel(m)) ELSE d
           current == [base.conversation EXCEPT !.input_id = id]
<1>1. /\ d \in Data /\ Good(d) /\ id \in Ids /\ m.type = "input.start"
      /\ m.conversation_id \in Ids /\ m.conversation_id # 0
  BY NoneIds DEF Sane, Good, AnyInputStarts
<1>2. Good(e)
  BY <1>1, StartInputGood
<1>3. Quiet(d, base)
  BY <1>1, Parts, DataShaped, QuietSelf, CancelIsQuiet
<1>4. /\ NewInput(m).received = 0 /\ NewInput(m).terminal = NoTerminal
      /\ NewInput(m).conversation_id = m.conversation_id /\ NoTerminal.kind # "closed"
  BY DEF NewInput, NoInput, NoTerminal
<1>5. d.inputs[id].received = 0 /\ d.inputs[id].terminal = NoTerminal
  <2>1. d.inputs[id].conversation_id = 0
    <3>1. id = d.input_ids /\ id \in Nat
      BY <1>1, NoneIds DEF CanStartInput
    <3> QED BY <1>1, <3>1 DEF Good, Turns, Allocated
  <2> QED BY <1>1, <2>1 DEF Sane, Fresh
<1>6. e = [WithInput(WithConversation(base, current), id, NewInput(m))
           EXCEPT !.input_ids = @ + 1]
  BY DEF AfterStartInput
<1> HIDE DEF e, base
<1>7. /\ e.connection_state = base.connection_state
      /\ e.conversation = current
      /\ e.conversation_ids = base.conversation_ids
      /\ e.ended_conversations = base.ended_conversations
      /\ e.cancelled_conversations = base.cancelled_conversations
      /\ e.inputs = [base.inputs EXCEPT ![id] = NewInput(m)]
  BY <1>3, <1>6 DEF WithInput, WithConversation, Quiet, Shaped
<1>8. current.id = base.conversation.id /\ current.cancel = base.conversation.cancel
  <2>1. e.conversation \in Conversations
    BY <1>2, Parts DEF Good
  <2>2. DOMAIN base.conversation = DOMAIN current
    OBVIOUS
  <2>3. {"id", "cancel"} \subseteq DOMAIN current
    BY <1>7, <2>1 DEF Conversations
  <2> HIDE DEF current
  <2> QED BY <2>2, <2>3 DEF current
<1> HIDE DEF current
<1>9. Fate(e) /\ e.connection_state # "handshaking"
  BY <1>3, <1>7, <1>8 DEF Sane, Fate, Quiet, SameFate, SameTurn
<1>10. \A i \in Ids : e.inputs[i] = IF i = id THEN NewInput(m) ELSE base.inputs[i]
  BY <1>3, <1>7 DEF Quiet, Shaped
<1>11. Fresh(e)
  BY <1>1, <1>3, <1>4, <1>10 DEF Fresh, Sane, Quiet, SameInput
<1>12. \A i \in Ids : Extends(d, m, e, i) /\ Shuts(d, m, e, i)
  BY <1>1, <1>3, <1>4, <1>5, <1>10
     DEF Extends, Shuts, IsOf, Received, IsClosed, Quiet, SameInput
<1>13. Sane(e)
  BY <1>2, <1>9, <1>11 DEF Sane, e
<1> QED BY <1>1, <1>12, <1>13 DEF Heard, e

LEMMA InputAudioHeard ==
  ASSUME Role = "client", NEW d, Sane(d), NEW m \in AnyInputAudios, CanAcceptInputAudio(d, m)
  PROVE  Heard(d, m, AfterInputAudio(d, m))
<1> DEFINE e == AfterInputAudio(d, m)
           id == m.input_id
           end == m.start_frame + m.frames
           x == [d.inputs[id] EXCEPT !.received = end, !.boundaries = @ \cup {end}]
<1>1. /\ d \in Data /\ Good(d) /\ id \in Ids /\ m.type = "input.audio"
      /\ m.conversation_id # 0 /\ m.start_frame \in Nat /\ m.frames \in Nat
      /\ d.inputs[id] \in Inputs
  BY NoneIds, Parts DEF Sane, Good, AnyInputAudios, Positive
<1>2. Good(e)
  BY <1>1, InputAudioGood
<1>3. /\ d.inputs[id].conversation_id = m.conversation_id
      /\ m.start_frame = d.inputs[id].received /\ end <= MaxInputFrames
  BY <1>1 DEF CanAcceptInputAudio, KnownInput
<1>4. /\ x.conversation_id = d.inputs[id].conversation_id /\ x.received = end
      /\ x.terminal = d.inputs[id].terminal /\ x \in Inputs
  <2>1. end \in Nat /\ d.inputs[id].boundaries \cup {end} \in SUBSET Nat
    BY <1>1 DEF Inputs
  <2> HIDE DEF end
  <2> QED BY <1>1, <2>1 DEF Inputs
<1>5. e = WithInput(d, id, x)
  BY <1>1, <1>3, ProtocolAssumption DEF AfterInputAudio
<1> HIDE DEF x, e
<1>6. e.inputs = [d.inputs EXCEPT ![id] = x] /\ e.conversation = d.conversation /\ SameRest(d, e)
  BY <1>1, <1>4, <1>5, WithInputParts
<1> QED BY <1>1, <1>2, <1>3, <1>4, <1>6, InputHeard DEF e

(* A terminal ends the input, and only a close closes it.                  *)
LEMMA TerminalHeard ==
  ASSUME NEW d, Sane(d), NEW w, Good(w), SameRest(d, w), w.conversation = d.conversation,
         NEW id \in Ids, NEW x \in Inputs, w.inputs = [d.inputs EXCEPT ![id] = x],
         x.conversation_id = d.inputs[id].conversation_id, x.conversation_id # 0,
         x.received = d.inputs[id].received,
         d.inputs[id].terminal = NoTerminal, NEW t \in Terminations,
         t.kind \in {"closed", "aborted"},
         NEW m, m.type \notin {"input.start", "input.audio"}, m.input_id = id,
         t.kind = "closed" <=> m.type = "input.closed",
         t.kind = "closed" => m.accepted_end_frame <= d.inputs[id].received
  PROVE  Heard(d, m, Terminalize(w, id, t))
<1> DEFINE e == Terminalize(w, id, t)
           y == [w.inputs[id] EXCEPT !.terminal = t]
<1>1. DOMAIN d.inputs = Ids
  BY Parts DEF Sane, Good
<1>2. w.inputs[id] = x
  BY <1>1
<1>3. /\ Good(e) /\ e.inputs = [w.inputs EXCEPT ![id] = y] /\ e.conversation = w.conversation
      /\ SameRest(w, e)
  BY TerminalizeGood
<1>4. /\ y.conversation_id = x.conversation_id /\ y.received = x.received /\ y.terminal = t
  BY <1>2 DEF Inputs
<1>5. t # NoTerminal /\ NoTerminal.kind # "closed"
  <2>1. t # NoTerminal
    BY DEF NoTerminal
  <2> QED BY <2>1 DEF NoTerminal
<1> HIDE DEF e, y
<1>6. e.inputs = [d.inputs EXCEPT ![id] = y]
  <2>1. [w.inputs EXCEPT ![id] = y] = [d.inputs EXCEPT ![id] = y]
    BY <1>1
  <2> QED BY <1>3, <2>1
<1>7. SameRest(d, e) /\ e.conversation = d.conversation
  BY <1>3 DEF SameRest
<1> QED BY <1>3, <1>4, <1>5, <1>6, <1>7, InputHeard DEF e

LEMMA AbortInputHeard ==
  ASSUME NEW d, Sane(d), NEW m \in AnyInputAborts, CanAbortInput(d, m)
  PROVE  Heard(d, m, AfterAbortInput(d, m))
<1> DEFINE id == m.input_id
           t == Aborted(m.reason)
<1>1. /\ d \in Data /\ Good(d) /\ id \in Ids /\ m.type = "input.abort"
      /\ m.conversation_id # 0 /\ d.inputs[id] \in Inputs
      /\ m.reason \in InputAbortReason
  BY NoneIds, Parts DEF Sane, Good, AnyInputAborts
<1>2. CASE d.inputs[id].terminal # NoTerminal
  <2>1. AfterAbortInput(d, m) = d
    BY <1>2 DEF AfterAbortInput
  <2> QED BY <1>1, <2>1, DataShaped, QuietSelf, QuietHeard DEF Sane
<1>3. CASE d.inputs[id].terminal = NoTerminal
  <2>1. AfterAbortInput(d, m) = Terminalize(d, id, t)
    BY <1>3 DEF AfterAbortInput
  <2>2. t \in Terminations /\ t.kind = "aborted"
    BY <1>1 DEF Terminations, Aborted
  <2>3. d.inputs[id].conversation_id = m.conversation_id
    BY DEF CanAbortInput, KnownInput
  <2>4. d.inputs = [d.inputs EXCEPT ![id] = d.inputs[id]] /\ SameRest(d, d)
    BY <1>1, Parts DEF SameRest, Data
  <2> HIDE DEF t
  <2> QED BY <1>1, <1>3, <2>1, <2>2, <2>3, <2>4, TerminalHeard
<1> QED BY <1>2, <1>3

LEMMA CloseInputHeard ==
  ASSUME NEW d, Sane(d), NEW m \in AnyInputCloses, CanCloseInput(d, m)
  PROVE  Heard(d, m, AfterCloseInput(d, m))
<1> DEFINE id == m.input_id
           end == m.accepted_end_frame
           t == Closed(end, m.reason)
           x == [d.inputs[id] EXCEPT !.committed = end]
           w == WithCommitted(d, id, end)
<1>1. /\ d \in Data /\ Good(d) /\ id \in Ids /\ m.type = "input.closed"
      /\ m.conversation_id # 0 /\ d.inputs[id] \in Inputs
      /\ m.reason \in InputCloseReason /\ end \in Nat
  BY NoneIds, Parts DEF Sane, Good, AnyInputCloses
<1>2. d.inputs[id].conversation_id = m.conversation_id
  BY DEF CanCloseInput, KnownInput
<1>3. CASE d.inputs[id].terminal # NoTerminal
  <2>1. AfterCloseInput(d, m) = d
    BY <1>3 DEF AfterCloseInput
  <2>2. d.inputs[id].terminal.kind = "closed"
    BY <1>3 DEF CanCloseInput, Closed
  <2>3. d.inputs = [d.inputs EXCEPT ![id] = d.inputs[id]] /\ SameRest(d, d)
    BY <1>1, Parts DEF SameRest, Data
  <2> QED BY <1>1, <1>2, <1>3, <2>1, <2>2, <2>3, InputHeard
<1>4. CASE d.inputs[id].terminal = NoTerminal
  <2>1. AfterCloseInput(d, m) = Terminalize(w, id, t)
    BY <1>4 DEF AfterCloseInput
  <2>2. t \in Terminations /\ t.kind = "closed"
    BY <1>1 DEF Terminations, Closed
  <2>3. end <= d.inputs[id].received
    BY <1>4 DEF CanCloseInput, Closed, NoTerminal
  <2>4. x \in Inputs /\ x.conversation_id = d.inputs[id].conversation_id
        /\ x.received = d.inputs[id].received
    BY <1>1 DEF Inputs
  <2>5. w = WithInput(d, id, x) /\ Good(w)
    BY <1>1, CommittedGood DEF WithCommitted
  <2> HIDE DEF x, w, t
  <2>6. w.inputs = [d.inputs EXCEPT ![id] = x] /\ w.conversation = d.conversation
        /\ SameRest(d, w)
    BY <1>1, <2>4, <2>5, WithInputParts
  <2> QED BY <1>1, <1>2, <1>4, <2>1, <2>2, <2>3, <2>4, <2>5, <2>6, TerminalHeard
<1> QED BY <1>3, <1>4

LEMMA UtteredTypes ==
  /\ \A m \in AnyConversationStarts : m.type = "conversation.start"
  /\ \A m \in AnyInputStarts : m.type = "input.start"
  /\ \A m \in AnyInputAudios : m.type = "input.audio"
  /\ \A m \in AnyInputAborts : m.type = "input.abort"
  /\ \A m \in AnyPlaybackFinishes : m.type = "playback.finished"
  /\ \A m \in AnyPlaybackInterrupts : m.type = "playback.interrupted"
  /\ \A m \in AnyConversationCancels : m.type = "conversation.cancel"
BY DEF AnyConversationStarts, AnyInputStarts, AnyInputAudios, AnyInputAborts,
       AnyPlaybackFinishes, AnyPlaybackInterrupts, AnyConversationCancels

LEMMA RepliedTypes ==
  /\ \A m \in AnyInputCloses : m.type = "input.closed"
  /\ \A m \in AnyTranscriptUpdates : m.type = "transcript.update" /\ m.input_id \in Ids
  /\ \A m \in AnyTranscriptFinals : m.type = "transcript.final" /\ m.input_id \in Ids
  /\ \A m \in AnyResponseStarts : m.type = "response.start" /\ m.input_id \in Ids
  /\ \A m \in AnyTextDeltas : m.type = "response.text.delta"
  /\ \A m \in AnyTextFinals : m.type = "response.text.final"
  /\ \A m \in AnyOutputStarts : m.type = "output.start"
  /\ \A m \in AnyOutputAudios : m.type = "output.audio"
  /\ \A m \in AnyOutputEnds : m.type = "output.end"
  /\ \A m \in AnyResponseEnds : m.type = "response.end"
  /\ \A m \in AnyResponseCancels : m.type = "response.cancelled" /\ m.response_id \in Ids
                                   /\ m.reason \in ResponseCancelReason
  /\ \A m \in AnyConversationEnds : m.type = "conversation.end"
  /\ \A m \in AnyStates : m.type = "state"
  /\ \A m \in AnyErrors : m.type = "error"
<1>1. /\ \A m \in AnyInputCloses : m.type = "input.closed"
      /\ \A m \in AnyTranscriptUpdates : m.type = "transcript.update" /\ m.input_id \in Ids
      /\ \A m \in AnyTranscriptFinals : m.type = "transcript.final" /\ m.input_id \in Ids
      /\ \A m \in AnyResponseStarts : m.type = "response.start" /\ m.input_id \in Ids
      /\ \A m \in AnyTextDeltas : m.type = "response.text.delta"
      /\ \A m \in AnyTextFinals : m.type = "response.text.final"
  BY DEF AnyInputCloses, AnyTranscriptUpdates, AnyTranscriptFinals, AnyResponseStarts,
         AnyTextDeltas, AnyTextFinals
<1>2. /\ \A m \in AnyOutputStarts : m.type = "output.start"
      /\ \A m \in AnyOutputAudios : m.type = "output.audio"
      /\ \A m \in AnyOutputEnds : m.type = "output.end"
      /\ \A m \in AnyResponseEnds : m.type = "response.end"
      /\ \A m \in AnyResponseCancels : m.type = "response.cancelled" /\ m.response_id \in Ids
                                       /\ m.reason \in ResponseCancelReason
      /\ \A m \in AnyConversationEnds : m.type = "conversation.end"
      /\ \A m \in AnyStates : m.type = "state"
  BY DEF AnyOutputStarts, AnyOutputAudios, AnyOutputEnds, AnyResponseEnds,
         AnyResponseCancels, AnyConversationEnds, AnyStates
<1>3. \A m \in AnyErrors : m.type = "error"
  BY DEF AnyErrors, ConnectionErrors, AnyConversationErrors, AnyInputErrors,
         AnyResponseErrors, Error
<1> QED BY <1>1, <1>2, <1>3

LEMMA AcceptedIsHandled ==
  ASSUME NEW d, Sane(d), NEW m, Accepts(d, m)
  PROVE  d \in Data /\ Good(d) /\ d.connection_state = "ready" /\ CanHandle(d, m)
BY DEF Accepts, Sane, Good

LEMMA UtteredHeard ==
  ASSUME Role = "client", NEW d, Sane(d), NEW m \in Uttered, Accepts(d, m)
  PROVE  Heard(d, m, After(d, m))
<1>1. /\ d \in Data /\ Good(d) /\ d.connection_state = "ready" /\ CanHandle(d, m)
  BY AcceptedIsHandled
<1>2. CASE m \in AnyConversationStarts
  <2>1. CanStartConversation(d, m) /\ After(d, m) = AfterStartConversation(d, m)
    BY <1>1, <1>2, UtteredTypes DEF CanHandle, After
  <2> QED BY <1>2, <2>1, StartConversationHeard
<1>3. CASE m \in AnyInputStarts
  <2>1. CanStartInput(d, m) /\ After(d, m) = AfterStartInput(d, m)
    BY <1>1, <1>3, UtteredTypes DEF CanHandle, After
  <2> QED BY <1>3, <2>1, StartInputHeard
<1>4. CASE m \in AnyInputAudios
  <2>1. CanAcceptInputAudio(d, m) /\ After(d, m) = AfterInputAudio(d, m)
    BY <1>1, <1>4, UtteredTypes DEF CanHandle, After
  <2> QED BY <1>4, <2>1, InputAudioHeard
<1>5. CASE m \in AnyInputAborts
  <2>1. CanAbortInput(d, m) /\ After(d, m) = AfterAbortInput(d, m)
    BY <1>1, <1>5, UtteredTypes DEF CanHandle, After
  <2> QED BY <1>5, <2>1, AbortInputHeard
<1>6. CASE m \in AnyPlaybackFinishes \cup AnyPlaybackInterrupts
  <2>1. m.type \in {"playback.finished", "playback.interrupted"}
    BY <1>6, UtteredTypes
  <2>2. CanAcceptPlaybackOutcome(d, m) /\ After(d, m) = AfterPlaybackOutcome(d, m)
    BY <1>1, <2>1 DEF CanHandle, After
  <2>3. Good(After(d, m)) /\ Quiet(d, After(d, m))
    BY <1>1, <1>6, <2>2, PlaybackOutcomeGood, PlaybackIsQuiet
  <2> QED BY <2>1, <2>3, QuietHeard
<1>7. CASE m \in AnyConversationCancels
  <2>1. CanCancelConversation(d, m) /\ After(d, m) = AfterCancelConversation(d, m)
    BY <1>1, <1>7, UtteredTypes DEF CanHandle, After
  <2> QED BY <1>7, <2>1, CancelConversationHeard
<1> QED BY <1>2, <1>3, <1>4, <1>5, <1>6, <1>7 DEF Uttered

LEMMA RepliedHeard ==
  ASSUME Role = "client", NEW d, Sane(d), NEW m \in Replied, Accepts(d, m)
  PROVE  Heard(d, m, After(d, m))
<1> DEFINE e == After(d, m)
<1>1. /\ d \in Data /\ Good(d) /\ d.connection_state = "ready" /\ CanHandle(d, m)
  BY AcceptedIsHandled
<1>2. CASE m \in AnyInputCloses
  <2>1. CanCloseInput(d, m) /\ e = AfterCloseInput(d, m)
    BY <1>1, <1>2, RepliedTypes DEF CanHandle, After
  <2> QED BY <1>2, <2>1, CloseInputHeard
<1>3. CASE m \in AnyConversationEnds
  <2>1. CanEndConversation(d, m) /\ e = AfterEndConversation(d, m)
    BY <1>1, <1>3, RepliedTypes DEF CanHandle, After
  <2> QED BY <1>3, <2>1, EndConversationHeard
<1>4. CASE m \notin AnyInputCloses \cup AnyConversationEnds
  <2>1. CASE m \in AnyTranscriptUpdates
    <3>1. e = AfterTranscriptUpdate(d, m)
      BY <1>1, <2>1, RepliedTypes DEF After
    <3> HIDE DEF e
    <3>2. Good(e) /\ Quiet(d, e)
      BY <1>1, <2>1, <3>1, TranscriptUpdateGood, TranscriptIsQuiet, RepliedTypes
    <3> QED BY <2>1, <3>2, QuietHeard, RepliedTypes DEF e
  <2>2. CASE m \in AnyTranscriptFinals
    <3>1. e = AfterTranscriptFinal(d, m)
      BY <1>1, <2>2, RepliedTypes DEF After
    <3> HIDE DEF e
    <3>2. Good(e) /\ Quiet(d, e)
      BY <1>1, <2>2, <3>1, TranscriptFinalGood, TranscriptIsQuiet, RepliedTypes
    <3> QED BY <2>2, <3>2, QuietHeard, RepliedTypes DEF e
  <2>3. CASE m \in AnyResponseStarts
    <3>1. CanStartResponse(d, m) /\ e = AfterStartResponse(d, m)
      BY <1>1, <2>3, RepliedTypes DEF CanHandle, After
    <3> HIDE DEF e
    <3>2. Good(e) /\ Quiet(d, e)
      BY <1>1, <2>3, <3>1, StartResponseGood, StartResponseIsQuiet, RepliedTypes
    <3> QED BY <2>3, <3>2, QuietHeard, RepliedTypes DEF e
  <2>4. CASE m \in AnyTextDeltas
    <3>1. e = AfterTextDelta(d, m)
      BY <1>1, <2>4, RepliedTypes DEF After
    <3> HIDE DEF e
    <3>2. Good(e) /\ Quiet(d, e)
      BY <1>1, <2>4, <3>1, TextDeltaGood, DataShaped, ResponseIsQuiet DEF AfterTextDelta
    <3> QED BY <2>4, <3>2, QuietHeard, RepliedTypes DEF e
  <2>5. CASE m \in AnyTextFinals
    <3>1. e = AfterTextFinal(d, m)
      BY <1>1, <2>5, RepliedTypes DEF After
    <3> HIDE DEF e
    <3>2. Good(e) /\ Quiet(d, e)
      BY <1>1, <2>5, <3>1, TextFinalGood, DataShaped, ResponseIsQuiet DEF AfterTextFinal
    <3> QED BY <2>5, <3>2, QuietHeard, RepliedTypes DEF e
  <2>6. CASE m \in AnyOutputStarts
    <3>1. CanStartOutput(d, m) /\ e = AfterStartOutput(d, m)
      BY <1>1, <2>6, RepliedTypes DEF CanHandle, After
    <3> HIDE DEF e
    <3>2. Good(e) /\ Quiet(d, e)
      BY <1>1, <2>6, <3>1, StartOutputGood, StartOutputIsQuiet
    <3> QED BY <2>6, <3>2, QuietHeard, RepliedTypes DEF e
  <2>7. CASE m \in AnyOutputAudios
    <3>1. e = AfterOutputAudio(d, m)
      BY <1>1, <2>7, RepliedTypes DEF After
    <3> HIDE DEF e
    <3>2. Good(e) /\ Quiet(d, e)
      BY <1>1, <2>7, <3>1, OutputAudioGood, DataShaped, ResponseIsQuiet DEF AfterOutputAudio
    <3> QED BY <2>7, <3>2, QuietHeard, RepliedTypes DEF e
  <2>8. CASE m \in AnyOutputEnds
    <3>1. CanEndOutput(d, m) /\ e = AfterEndOutput(d, m)
      BY <1>1, <2>8, RepliedTypes DEF CanHandle, After
    <3> HIDE DEF e
    <3>2. Good(e)
      BY <1>1, <2>8, <3>1, EndOutputGood
    <3>3. Quiet(d, e)
      BY <1>1, <3>1, DataShaped, QuietSelf, WrittenIsQuiet DEF AfterEndOutput
    <3> QED BY <2>8, <3>2, <3>3, QuietHeard, RepliedTypes DEF e
  <2>9. CASE m \in AnyResponseEnds
    <3>1. CanEndResponse(d, m) /\ e = AfterEndResponse(d, m)
      BY <1>1, <2>9, RepliedTypes DEF CanHandle, After
    <3> HIDE DEF e
    <3>2. Good(e) /\ Quiet(d, e)
      BY <1>1, <2>9, <3>1, EndResponseGood, EndResponseIsQuiet
    <3> QED BY <2>9, <3>2, QuietHeard, RepliedTypes DEF e
  <2>10. CASE m \in AnyResponseCancels
    <3>1. CanCancelResponse(d, m) /\ e = AfterCancelResponse(d, m)
      BY <1>1, <2>10, RepliedTypes DEF CanHandle, After
    <3> HIDE DEF e
    <3>2. Good(e)
      BY <1>1, <2>10, <3>1, CancelResponseGood, RepliedTypes
    <3>3. Quiet(d, e)
      BY <1>1, <3>1, DataShaped, Parts, CancelIsQuiet
    <3> QED BY <2>10, <3>2, <3>3, QuietHeard, RepliedTypes DEF e
  <2>11. CASE m \in AnyStates
    <3>1. CanAcceptState(d, m) /\ e = AfterState(d, m)
      BY <1>1, <2>11, RepliedTypes DEF CanHandle, After
    <3> HIDE DEF e
    <3>2. Good(e) /\ Quiet(d, e)
      BY <1>1, <2>11, <3>1, StateGood, StateIsQuiet
    <3> QED BY <2>11, <3>2, QuietHeard, RepliedTypes DEF e
  <2>12. CASE m \in AnyErrors
    <3>1. CanAcceptError(d, m) /\ e = AfterError(d, m)
      BY <1>1, <2>12, RepliedTypes DEF CanHandle, After
    <3> HIDE DEF e
    <3>2. Good(e) /\ Quiet(d, e)
      BY <1>1, <2>12, <3>1, ErrorGood, ErrorIsQuiet
    <3> QED BY <2>12, <3>2, QuietHeard, RepliedTypes DEF e
  <2> QED BY <1>4, <2>1, <2>2, <2>3, <2>4, <2>5, <2>6, <2>7, <2>8, <2>9, <2>10, <2>11, <2>12
          DEF Replied
<1> QED BY <1>2, <1>3, <1>4

LEMMA SaidIsReplied == Said \subseteq Replied
BY ClientAssumption, Unbounded DEF ServerMessages, Replied

-----------------------------------------------------------------------------
(* Messages one after the other.                                           *)

Started(d) == [ok |-> TRUE, data |-> d]
Runs(run, n, d, messages) ==
  /\ DOMAIN run = 0..n /\ run[0] = Started(d)
  /\ \A k \in 1..n : run[k] = RunStep(run[k - 1], messages[k])

LEMMA RunExists ==
  ASSUME NEW d, NEW messages, NEW N \in Nat
  PROVE  \E run : Runs(run, N, d, messages)
<1> DEFINE T == {n \in 0..N : \E run : Runs(run, n, d, messages)}
<1>1. 0 \in T
  <2>1. Runs([k \in 0..0 |-> Started(d)], 0, d, messages)
    BY DEF Runs
  <2> QED BY <2>1
<1>2. ASSUME NEW n \in 1..N, n - 1 \in T PROVE n \in T
  <2>1. PICK run : Runs(run, n - 1, d, messages)
    BY <1>2
  <2> DEFINE next == RunStep(run[n - 1], messages[n])
             h == [k \in 0..n |-> IF k = n THEN next ELSE run[k]]
  <2> HIDE DEF next
  <2>2. DOMAIN h = 0..n /\ h[0] = Started(d)
    <3>1. 0 \in 0..n /\ 0 # n /\ run[0] = Started(d)
      BY <2>1 DEF Runs
    <3> QED BY <3>1
  <2>3. ASSUME NEW k \in 1..n PROVE h[k] = RunStep(h[k - 1], messages[k])
    <3>1. h[k - 1] = run[k - 1]
      OBVIOUS
    <3>2. CASE k = n
      <4>1. h[n] = next
        OBVIOUS
      <4> HIDE DEF h
      <4> QED BY <3>1, <3>2, <4>1 DEF next
    <3>3. CASE k # n
      <4>1. k \in 1..(n - 1) /\ h[k] = run[k]
        BY <3>3
      <4> HIDE DEF h
      <4> QED BY <2>1, <3>1, <4>1 DEF Runs
    <3> QED BY <3>2, <3>3
  <2> HIDE DEF h
  <2>4. Runs(h, n, d, messages)
    BY <2>2, <2>3 DEF Runs
  <2> QED BY <2>4
<1> HIDE DEF T
<1>3. 0..N \subseteq T
  BY <1>1, <1>2, BoundedInduction
<1>4. N \in T
  BY <1>3
<1> QED BY <1>4 DEF T

LEMMA RunIs ==
  ASSUME NEW d, NEW messages, Len(messages) \in Nat
  PROVE  \E run : Runs(run, Len(messages), d, messages)
                  /\ Run(d, messages) = run[Len(messages)]
<1> DEFINE N == Len(messages)
           Rule(g) == [k \in 0..N |->
                         IF k = 0 THEN Started(d) ELSE RunStep(g[k - 1], messages[k])]
           run == CHOOSE g : g = Rule(g)
<1>1. N \in Nat
  OBVIOUS
<1>5. Run(d, messages) = run[N]
  BY DEF Run, Started
<1> HIDE DEF N
<1>2. PICK g : Runs(g, N, d, messages)
  BY <1>1, RunExists
<1> DEFINE f == [k \in 0..N |-> g[k]]
<1>3. f = Rule(f)
  <2>1. ASSUME NEW k \in 0..N
        PROVE  f[k] = IF k = 0 THEN Started(d) ELSE RunStep(f[k - 1], messages[k])
    <3>1. CASE k = 0
      BY <1>2, <3>1 DEF Runs
    <3>2. CASE k # 0
      <4>1. k \in 1..N /\ k - 1 \in 0..N
        BY <1>1, <3>2
      <4>2. f[k] = g[k] /\ f[k - 1] = g[k - 1]
        BY <4>1
      <4> HIDE DEF f
      <4> QED BY <1>2, <3>2, <4>1, <4>2 DEF Runs
    <3> QED BY <3>1, <3>2
  <2>2. f = [k \in 0..N |-> f[k]]
    OBVIOUS
  <2> HIDE DEF f
  <2> QED BY <2>1, <2>2
<1>4. run = Rule(run)
  <2> HIDE DEF Rule, f
  <2> QED BY <1>3
<1> HIDE DEF run
<1>6. /\ DOMAIN run = 0..N /\ run[0] = Started(d)
      /\ \A k \in 1..N : run[k] = RunStep(run[k - 1], messages[k])
  <2>1. DOMAIN run = 0..N /\ \A k \in 0..N : run[k] = Rule(run)[k]
    BY <1>4
  <2>2. 0 \in 0..N /\ \A k \in 1..N : k \in 0..N /\ k # 0
    BY <1>1
  <2> QED BY <2>1, <2>2
<1> HIDE DEF Rule
<1> QED BY <1>5, <1>6 DEF Runs, N

LEMMA RunOfNone ==
  ASSUME NEW d
  PROVE  Run(d, <<>>) = Started(d)
<1>1. Len(<<>>) = 0 /\ Len(<<>>) \in Nat
  OBVIOUS
<1>2. PICK run : Runs(run, Len(<<>>), d, <<>>) /\ Run(d, <<>>) = run[Len(<<>>)]
  BY <1>1, RunIs
<1> QED BY <1>1, <1>2 DEF Runs

LEMMA RunOfAppend ==
  ASSUME NEW S, NEW s \in Seq(S), NEW m \in S, NEW d
  PROVE  Run(d, Append(s, m)) = RunStep(Run(d, s), m)
<1> DEFINE N == Len(s)
           t == Append(s, m)
<1>1. /\ N \in Nat /\ Len(t) \in Nat /\ Len(t) = N + 1 /\ t[N + 1] = m
      /\ \A k \in 1..N : t[k] = s[k]
  OBVIOUS
<1>2. PICK f : Runs(f, N, d, s) /\ Run(d, s) = f[N]
  BY <1>1, RunIs
<1> HIDE DEF t
<1>3. PICK g : Runs(g, N + 1, d, t) /\ Run(d, t) = g[N + 1]
  BY <1>1, RunIs
<1> HIDE DEF N
<1> DEFINE T == {k \in 0..N : f[k] = g[k]}
<1>4. 0 \in T
  BY <1>1, <1>2, <1>3 DEF Runs
<1>5. ASSUME NEW k \in 1..N, k - 1 \in T PROVE k \in T
  <2>1. f[k - 1] = g[k - 1] /\ t[k] = s[k] /\ k \in 1..(N + 1) /\ k \in 0..N
    BY <1>1, <1>5
  <2>2. f[k] = g[k]
    BY <1>2, <1>3, <2>1 DEF Runs
  <2> QED BY <2>1, <2>2
<1> HIDE DEF T
<1>6. 0..N \subseteq T
  BY <1>1, <1>4, <1>5, BoundedInduction
<1>7. f[N] = g[N]
  BY <1>1, <1>6 DEF T
<1>8. g[N + 1] = RunStep(g[N], t[N + 1])
  <2>1. N + 1 \in 1..(N + 1) /\ (N + 1) - 1 = N
    BY <1>1
  <2>2. \A k \in 1..(N + 1) : g[k] = RunStep(g[k - 1], t[k])
    BY <1>3 DEF Runs
  <2> QED BY <2>1, <2>2
<1> QED BY <1>1, <1>2, <1>3, <1>7, <1>8 DEF t

(* What the run has come to after another message.                         *)
LEMMA AppendedRun ==
  ASSUME NEW S, NEW s \in Seq(S), NEW m \in S, NEW d
  PROVE  LET t == Append(s, m)
             e == AfterAll(d, s)
         IN
         /\ AcceptsAll(d, t) => AcceptsAll(d, s) /\ Accepts(e, m) /\ AfterAll(d, t) = After(e, m)
         /\ AfterAll(d, t) \in {e, After(e, m)}
         /\ AfterAll(d, t) # e => Accepts(e, m)
<1> DEFINE t == Append(s, m)
           q == Run(d, s)
<1>1. Run(d, t) = RunStep(q, m)
  BY RunOfAppend
<1> HIDE DEF t, q
<1>2. /\ RunStep(q, m).ok => q.ok /\ Accepts(q.data, m) /\ RunStep(q, m).data = After(q.data, m)
      /\ \/ RunStep(q, m).data = q.data
         \/ Accepts(q.data, m) /\ RunStep(q, m).data = After(q.data, m)
  <2>1. CASE q.ok /\ Accepts(q.data, m)
    BY <2>1 DEF RunStep
  <2>2. CASE ~ (q.ok /\ Accepts(q.data, m))
    <3>1. RunStep(q, m) = [ok |-> FALSE, data |-> q.data]
      BY <2>2 DEF RunStep
    <3>2. RunStep(q, m).data = q.data /\ RunStep(q, m).ok = FALSE
      BY <3>1
    <3> QED BY <3>2
  <2> QED BY <2>1, <2>2
<1> QED BY <1>1, <1>2 DEF AcceptsAll, AfterAll, q, t

-----------------------------------------------------------------------------
(* The audio of an input among messages.                                   *)

LEMMA AudioIs ==
  ASSUME NEW S, NEW s \in Seq(S), NEW i
  PROVE  AudioOf(i, s) = Only({m \in S : IsOf(i, m)}, s)
<1> DEFINE E == {m \in Range(s) : m.type = "input.audio" /\ m.input_id = i}
           F == {m \in S : IsOf(i, m)}
<1>1. \A m \in Range(s) : m \in E <=> m \in F
  BY InRange DEF IsOf
<1> HIDE DEF E, F
<1>2. Only(E, s) = Only(F, s)
  BY <1>1, OnlyAgree
<1> QED BY <1>2 DEF AudioOf, E, F

LEMMA AudioOfNone ==
  ASSUME NEW i
  PROVE  AudioOf(i, <<>>) = <<>>
BY OnlyOfNone DEF AudioOf

LEMMA AudioOfConcat ==
  ASSUME NEW S, NEW s \in Seq(S), NEW t \in Seq(S), NEW i
  PROVE  AudioOf(i, s \o t) = AudioOf(i, s) \o AudioOf(i, t)
<1> DEFINE F == {m \in S : IsOf(i, m)}
           u == s \o t
<1>1. Only(F, u) = Only(F, s) \o Only(F, t)
  <2> HIDE DEF F
  <2> QED BY OnlyOfConcat
<1>2. u \in Seq(S)
  OBVIOUS
<1> HIDE DEF u
<1>3. AudioOf(i, u) = Only(F, u) /\ AudioOf(i, s) = Only(F, s) /\ AudioOf(i, t) = Only(F, t)
  <2>1. \A q \in Seq(S) : AudioOf(i, q) = Only(F, q)
    BY AudioIs
  <2> QED BY <1>2, <2>1
<1> QED BY <1>1, <1>3 DEF u

LEMMA AudioOfAppend ==
  ASSUME NEW S, NEW s \in Seq(S), NEW m \in S, NEW i
  PROVE  AudioOf(i, Append(s, m))
           = IF IsOf(i, m) THEN Append(AudioOf(i, s), m) ELSE AudioOf(i, s)
<1> DEFINE F == {n \in S : IsOf(i, n)}
           t == Append(s, m)
<1>1. Only(F, t) = IF m \in F THEN Append(Only(F, s), m) ELSE Only(F, s)
  <2> HIDE DEF F
  <2> QED BY OnlyOfAppend
<1>2. t \in Seq(S)
  OBVIOUS
<1> HIDE DEF t
<1>3. AudioOf(i, t) = Only(F, t) /\ AudioOf(i, s) = Only(F, s)
  <2>1. \A q \in Seq(S) : AudioOf(i, q) = Only(F, q)
    BY AudioIs
  <2> QED BY <1>2, <2>1
<1> QED BY <1>1, <1>3 DEF t

LEMMA AudioRange ==
  ASSUME NEW S, NEW s \in Seq(S), NEW i
  PROVE  /\ AudioOf(i, s) \in Seq(S)
         /\ Range(AudioOf(i, s)) = {m \in Range(s) : IsOf(i, m)}
         /\ AudioOf(i, s) = <<>> <=> \A m \in Range(s) : ~ IsOf(i, m)
<1> DEFINE F == {m \in S : IsOf(i, m)}
           a == AudioOf(i, s)
<1>1. a = Only(F, s)
  BY AudioIs
<1>2. a \in Seq(S) /\ Range(a) = Range(s) \cap F
  <2> HIDE DEF F, a
  <2> QED BY <1>1, OnlyRange
<1>3. a = <<>> <=> \A m \in Range(s) : m \notin F
  <2> HIDE DEF F, a
  <2> QED BY <1>1, OnlyNothing
<1>4. \A m \in Range(s) : m \in F <=> IsOf(i, m)
  BY InRange
<1> HIDE DEF F, a
<1> QED BY <1>2, <1>3, <1>4 DEF a

LEMMA UtteredAudio ==
  ASSUME NEW s \in Seq(Uttered), NEW i
  PROVE  AudioOf(i, s) \in Seq(AnyInputAudios)
<1> DEFINE a == AudioOf(i, s)
           U == Uttered
<1>1. s \in Seq(U)
  OBVIOUS
<1>2. \A m \in U : m.type = "input.audio" => m \in AnyInputAudios
  BY UtteredTypes DEF Uttered
<1> HIDE DEF U
<1>3. a \in Seq(U) /\ Range(a) = {m \in Range(s) : IsOf(i, m)} /\ Range(s) \subseteq U
  BY <1>1, AudioRange, InRange
<1> HIDE DEF a
<1>4. a \in Seq(Range(a)) /\ Range(a) \subseteq AnyInputAudios
  BY <1>2, <1>3, InRange DEF IsOf
<1>5. a \in Seq(AnyInputAudios)
  BY <1>4, SeqMonotonic
<1> QED BY <1>5 DEF a

-----------------------------------------------------------------------------
(* Audio without gap or overlap.                                           *)

LEMMA JoinsNothing ==
  ASSUME NEW a, NEW b
  PROVE  Joins(<<>>, a, b) <=> b = a
BY DEF Joins

LEMMA JoinsAppend ==
  ASSUME NEW w \in Seq(AnyInputAudios), NEW m \in AnyInputAudios, NEW a, NEW c
  PROVE  Joins(Append(w, m), a, c)
           <=> Joins(w, a, m.start_frame) /\ c = m.start_frame + m.frames
<1> DEFINE N == Len(w)
           t == Append(w, m)
           end(k) == IF k = 0 THEN a ELSE w[k].start_frame + w[k].frames
           fin(k) == IF k = 0 THEN a ELSE t[k].start_frame + t[k].frames
<1>1. /\ N \in Nat /\ DOMAIN w = 1..N /\ Len(t) = N + 1 /\ DOMAIN t = 1..(N + 1)
      /\ t[N + 1] = m /\ \A k \in 1..N : t[k] = w[k]
  OBVIOUS
<1>2. Joins(w, a, m.start_frame) <=>
        (\A k \in 1..N : w[k].start_frame = end(k - 1)) /\ m.start_frame = end(N)
  BY <1>1, Zenon DEF Joins
<1>3. Joins(t, a, c) <=>
        (\A k \in 1..(N + 1) : t[k].start_frame = fin(k - 1)) /\ c = fin(N + 1)
  BY <1>1 DEF Joins
<1> HIDE DEF t, N
<1>4. \A k \in 0..N : fin(k) = end(k)
  BY <1>1
<1>5. fin(N + 1) = m.start_frame + m.frames
  BY <1>1
<1>6. \A k \in 1..(N + 1) : k - 1 \in 0..N /\ (k \in 1..N \/ k = N + 1)
  BY <1>1
<1>7. N + 1 \in 1..(N + 1) /\ (N + 1) - 1 = N /\ 1..N \subseteq 1..(N + 1)
  BY <1>1
<1> HIDE DEF end, fin
<1>8. (\A k \in 1..(N + 1) : t[k].start_frame = fin(k - 1)) <=>
        (\A k \in 1..N : w[k].start_frame = end(k - 1)) /\ m.start_frame = end(N)
  <2>1. ASSUME \A k \in 1..(N + 1) : t[k].start_frame = fin(k - 1)
        PROVE  (\A k \in 1..N : w[k].start_frame = end(k - 1)) /\ m.start_frame = end(N)
    <3>1. ASSUME NEW k \in 1..N PROVE w[k].start_frame = end(k - 1)
      BY <1>1, <1>4, <1>6, <1>7, <2>1
    <3>2. t[N + 1].start_frame = fin((N + 1) - 1)
      BY <1>7, <2>1
    <3>3. fin(N) = end(N)
      BY <1>1, <1>4
    <3> QED BY <1>1, <1>7, <3>1, <3>2, <3>3
  <2>2. ASSUME \A k \in 1..N : w[k].start_frame = end(k - 1), m.start_frame = end(N),
               NEW k \in 1..(N + 1)
        PROVE  t[k].start_frame = fin(k - 1)
    <3>1. CASE k \in 1..N
      BY <1>1, <1>4, <1>6, <2>2, <3>1
    <3>2. CASE k = N + 1
      <4>1. fin(N) = end(N)
        BY <1>1, <1>4
      <4> QED BY <1>1, <1>7, <2>2, <3>2, <4>1
    <3> QED BY <1>6, <3>1, <3>2
  <2> QED BY <2>1, <2>2
<1> QED BY <1>2, <1>3, <1>5, <1>8 DEF t

LEMMA JoinsJoined ==
  ASSUME NEW v \in Seq(AnyInputAudios), NEW w \in Seq(AnyInputAudios),
         NEW a, NEW b, Joins(v, a, b), NEW c
  PROVE  Joins(v \o w, a, c) <=> Joins(w, b, c)
<1> DEFINE S == AnyInputAudios
           Same(q) == \A x : Joins(v \o q, a, x) <=> Joins(q, b, x)
           T == {q \in Seq(S) : Same(q)}
<1> HIDE DEF S
<1>0. v \in Seq(S) /\ w \in Seq(S)
  BY DEF S
<1>1. <<>> \in T
  <2>1. v \o <<>> = v /\ <<>> \in Seq(S)
    BY <1>0
  <2>2. ASSUME NEW x PROVE Joins(v, a, x) <=> Joins(<<>>, b, x)
    BY JoinsNothing DEF Joins
  <2> QED BY <2>1, <2>2
<1>2. ASSUME NEW q \in Seq(S), NEW m \in S, q \in T PROVE Append(q, m) \in T
  <2> DEFINE u == v \o q
  <2>1. /\ u \in Seq(S) /\ v \o Append(q, m) = Append(u, m) /\ Append(q, m) \in Seq(S)
    BY <1>0
  <2>2. Joins(u, a, m.start_frame) <=> Joins(q, b, m.start_frame)
    BY <1>2
  <2> HIDE DEF u
  <2>3. ASSUME NEW x
        PROVE  Joins(v \o Append(q, m), a, x) <=> Joins(Append(q, m), b, x)
    <3>1. Joins(Append(u, m), a, x) <=>
            Joins(u, a, m.start_frame) /\ x = m.start_frame + m.frames
      BY <2>1, JoinsAppend DEF S
    <3>2. Joins(Append(q, m), b, x) <=>
            Joins(q, b, m.start_frame) /\ x = m.start_frame + m.frames
      BY JoinsAppend DEF S
    <3> QED BY <2>1, <2>2, <3>1, <3>2
  <2> QED BY <2>1, <2>3
<1> HIDE DEF T
<1>3. Seq(S) \subseteq T
  BY <1>1, <1>2, SeqInduction
<1> QED BY <1>0, <1>3 DEF T

(* None of it begins before the whole does.                                *)
LEMMA JoinsOnwards ==
  ASSUME NEW w \in Seq(AnyInputAudios), NEW a \in Nat, NEW b, Joins(w, a, b)
  PROVE  b \in Nat /\ b >= a /\ \A m \in Range(w) : m.start_frame >= a
<1> DEFINE S == AnyInputAudios
           Later(q) == \A x : Joins(q, a, x) =>
                          x \in Nat /\ x >= a /\ \A m \in Range(q) : m.start_frame >= a
           T == {q \in Seq(S) : Later(q)}
<1>0. \A m \in S : m.start_frame \in Nat /\ m.frames \in Nat
  BY DEF AnyInputAudios, Positive
<1>1. <<>> \in T
  <2>1. Range(<<>>) = {} /\ <<>> \in Seq(S)
    BY DEF Range
  <2> QED BY <2>1, JoinsNothing
<1>2. ASSUME NEW q \in Seq(S), NEW m \in S, q \in T PROVE Append(q, m) \in T
  <2>1. Append(q, m) \in Seq(S) /\ Range(Append(q, m)) = Range(q) \cup {m}
    <3> HIDE DEF S
    <3> QED BY RangeOfAppend
  <2>2. ASSUME NEW x, Joins(Append(q, m), a, x)
        PROVE  x \in Nat /\ x >= a /\ \A n \in Range(Append(q, m)) : n.start_frame >= a
    <3>1. Joins(q, a, m.start_frame) /\ x = m.start_frame + m.frames
      BY <2>2, JoinsAppend
    <3>2. m.start_frame >= a /\ \A n \in Range(q) : n.start_frame >= a
      BY <1>2, <3>1
    <3>3. x \in Nat /\ x >= a
      <4>1. m.start_frame \in Nat /\ m.frames \in Nat
        BY <1>0
      <4> QED BY <3>1, <3>2, <4>1
    <3> QED BY <2>1, <3>2, <3>3
  <2> QED BY <2>1, <2>2
<1> HIDE DEF T, S
<1>3. Seq(S) \subseteq T
  BY <1>1, <1>2, SeqInduction
<1>4. w \in T
  BY <1>3 DEF S
<1> QED BY <1>4 DEF T

-----------------------------------------------------------------------------
(* What a run of messages leads to.                                        *)

Reached(d, ms) ==
  LET e == AfterAll(d, ms) IN
  /\ Sane(e)
  /\ \A i \in Ids :
       /\ IsClosed(e, i) <=> IsClosed(d, i)
       /\ AcceptsAll(d, ms) => Joins(AudioOf(i, ms), Received(d, i), Received(e, i))

LEMMA RunReaches ==
  ASSUME Role = "client", NEW d, Sane(d), NEW ms \in Seq(Uttered)
  PROVE  Reached(d, ms)
<1> DEFINE U == Uttered
           T == {q \in Seq(U) : Reached(d, q)}
<1>1. <<>> \in T
  <2>1. <<>> \in Seq(U)
    OBVIOUS
  <2>2. AfterAll(d, <<>>) = d
    BY RunOfNone DEF AfterAll, Started
  <2>3. \A i \in Ids : Joins(AudioOf(i, <<>>), Received(d, i), Received(d, i))
    BY AudioOfNone, JoinsNothing
  <2>4. Reached(d, <<>>)
    BY <2>2, <2>3 DEF Reached
  <2> QED BY <2>1, <2>4
<1>2. ASSUME NEW q \in Seq(U), NEW m \in U, q \in T PROVE Append(q, m) \in T
  <2> DEFINE t == Append(q, m)
             e == AfterAll(d, q)
             f == AfterAll(d, t)
  <2>1. t \in Seq(U)
    OBVIOUS
  <2>2. /\ AcceptsAll(d, t) => AcceptsAll(d, q) /\ Accepts(e, m) /\ f = After(e, m)
        /\ f \in {e, After(e, m)} /\ (f # e => Accepts(e, m))
    <3> HIDE DEF U
    <3> QED BY AppendedRun
  <2>3. /\ Sane(e)
        /\ \A i \in Ids :
             /\ IsClosed(e, i) <=> IsClosed(d, i)
             /\ AcceptsAll(d, q) => Joins(AudioOf(i, q), Received(d, i), Received(e, i))
    BY <1>2 DEF Reached
  <2> HIDE DEF e, f
  <2>4. m.type # "input.closed"
    BY UtteredTypes DEF Uttered
  <2>5. Accepts(e, m) => Heard(e, m, After(e, m))
    BY <2>3, UtteredHeard
  <2>6. Sane(f) /\ \A i \in Ids : IsClosed(f, i) <=> IsClosed(d, i)
    BY <2>2, <2>3, <2>4, <2>5 DEF Heard, Shuts
  <2>7. ASSUME AcceptsAll(d, t), NEW i \in Ids
        PROVE  Joins(AudioOf(i, t), Received(d, i), Received(f, i))
    <3>1. Joins(AudioOf(i, q), Received(d, i), Received(e, i)) /\ Extends(e, m, f, i)
      BY <2>2, <2>3, <2>5, <2>7 DEF Heard
    <3>2. AudioOf(i, t) = IF IsOf(i, m) THEN Append(AudioOf(i, q), m) ELSE AudioOf(i, q)
      <4> HIDE DEF U
      <4> QED BY AudioOfAppend
    <3>3. AudioOf(i, q) \in Seq(AnyInputAudios)
      BY UtteredAudio
    <3> DEFINE a == AudioOf(i, q)
    <3> HIDE DEF a, t
    <3>4. CASE IsOf(i, m)
      <4>1. m \in AnyInputAudios
        BY <3>4, UtteredTypes DEF Uttered, IsOf
      <4>2. m.start_frame = Received(e, i) /\ Received(f, i) = m.start_frame + m.frames
        BY <3>1, <3>4 DEF Extends
      <4>3. Joins(a, Received(d, i), m.start_frame) /\ a \in Seq(AnyInputAudios)
        BY <3>1, <3>3, <4>2 DEF a
      <4>4. Joins(Append(a, m), Received(d, i), Received(f, i))
        BY <4>1, <4>2, <4>3, JoinsAppend
      <4> QED BY <3>2, <3>4, <4>4 DEF a
    <3>5. CASE ~ IsOf(i, m)
      BY <3>1, <3>2, <3>5 DEF Extends
    <3> QED BY <3>4, <3>5
  <2> QED BY <2>1, <2>6, <2>7 DEF Reached, f
<1> HIDE DEF T
<1>3. Seq(U) \subseteq T
  <2> HIDE DEF U
  <2> QED BY <1>1, <1>2, SeqInduction
<1> QED BY <1>3 DEF T

-----------------------------------------------------------------------------
(* The batches of a queue, and the messages in them.                       *)

(* Audio is in the data batches of its input, and no such batch is empty.  *)
IsLabelled(b) ==
  /\ b.messages \in Seq(Range(b.messages))
  /\ b.lane = "data" => b.frames \in Positive
  /\ \A m \in Range(b.messages) :
       m.type = "input.audio" => b.lane = "data" /\ m.input_id = b.input_id
Labelled(bs) == bs \in Seq(Range(bs)) /\ \A b \in Range(bs) : IsLabelled(b)
Holds(bs, M) == bs \in Seq(Range(bs)) /\ \A b \in Range(bs) : b.messages \in Seq(M)
SaysNothing(b, i) == \A m \in Range(b.messages) : ~ IsOf(i, m)
Silent(bs, i) == \A b \in Range(bs) : SaysNothing(b, i)

LEMMA AppendedRange ==
  ASSUME NEW bs, bs \in Seq(Range(bs)), NEW b
  PROVE  /\ Append(bs, b) \in Seq(Range(Append(bs, b)))
         /\ Range(Append(bs, b)) = Range(bs) \cup {b}
<1> DEFINE R == Range(bs)
           S == R \cup {b}
           t == Append(bs, b)
<1>1. bs \in Seq(R)
  OBVIOUS
<1> HIDE DEF R
<1>2. Range(t) = R \cup {b}
  BY <1>1, RangeOfAppend DEF R
<1>3. bs \in Seq(S)
  BY <1>1, SeqMonotonic
<1>4. t \in Seq(S)
  BY <1>3
<1> QED BY <1>2, <1>4 DEF R

LEMMA TailRange ==
  ASSUME NEW bs, bs \in Seq(Range(bs)), bs # <<>>
  PROVE  /\ Tail(bs) \in Seq(Range(Tail(bs))) /\ Range(Tail(bs)) \subseteq Range(bs)
         /\ Head(bs) \in Range(bs)
<1> DEFINE S == Range(bs)
           t == Tail(bs)
<1>1. bs \in Seq(S)
  OBVIOUS
<1> HIDE DEF S
<1>2. t \in Seq(S) /\ Head(bs) \in S
  BY <1>1
<1> HIDE DEF t
<1> QED BY <1>2, InRange DEF S, t

LEMMA HeldMessages ==
  ASSUME NEW S, NEW M, NEW bs \in Seq(S), \A b \in S : b.messages \in Seq(M)
  PROVE  /\ [k \in DOMAIN bs |-> bs[k].messages] \in Seq(Seq(M))
         /\ MessagesIn(bs) \in Seq(M)
<1> DEFINE V == Seq(M)
           ss == [k \in DOMAIN bs |-> bs[k].messages]
<1>1. ss \in Seq(V)
  <2>1. \A b \in S : b.messages \in V
    OBVIOUS
  <2> HIDE DEF V
  <2> QED BY <2>1
<1>2. ss \in Seq(Seq(M))
  BY <1>1
<1> HIDE DEF ss
<1>3. FlattenSeq(ss) \in Seq(M)
  <2>1. <<>> \in Seq(M)
    OBVIOUS
  <2> QED BY <1>2, <2>1, FlatOfAppend
<1> QED BY <1>2, <1>3 DEF MessagesIn, ss

LEMMA MessagesOfNone == MessagesIn(<<>>) = <<>>
<1>1. [k \in DOMAIN <<>> |-> <<>>[k].messages] = <<>>
  OBVIOUS
<1> QED BY <1>1, FlatOfNone DEF MessagesIn

LEMMA MessagesOfAppend ==
  ASSUME NEW S, NEW M, NEW bs \in Seq(S), NEW b \in S, \A c \in S : c.messages \in Seq(M)
  PROVE  MessagesIn(Append(bs, b)) = MessagesIn(bs) \o b.messages
<1> DEFINE N == Len(bs)
           t == Append(bs, b)
           ss == [k \in DOMAIN bs |-> bs[k].messages]
           tt == [k \in DOMAIN t |-> t[k].messages]
           V == Seq(M)
<1>1. /\ N \in Nat /\ DOMAIN bs = 1..N /\ DOMAIN t = 1..(N + 1) /\ t[N + 1] = b
      /\ \A k \in 1..N : t[k] = bs[k]
  OBVIOUS
<1>2. ss \in Seq(V) /\ Len(ss) = N /\ b.messages \in V
  <2>1. ss \in Seq(V)
    BY HeldMessages
  <2>2. DOMAIN ss = 1..N
    BY <1>1
  <2> HIDE DEF ss, V
  <2>3. Len(ss) = N
    BY <1>1, <2>1, <2>2
  <2> QED BY <2>1, <2>3 DEF V
<1> HIDE DEF t, V
<1>3. tt = Append(ss, b.messages)
  <2>1. tt = [k \in 1..(N + 1) |-> IF k = N + 1 THEN b.messages ELSE bs[k].messages]
    BY <1>1
  <2>2. \A k \in 1..N : ss[k] = bs[k].messages
    BY <1>1
  <2> HIDE DEF ss, tt, N
  <2> QED BY <1>1, <1>2, <2>1, <2>2
<1> HIDE DEF ss, tt
<1>4. FlattenSeq(Append(ss, b.messages)) = FlattenSeq(ss) \o b.messages
  BY <1>2, FlatOfAppend DEF V
<1> QED BY <1>3, <1>4 DEF MessagesIn, ss, tt, t

LEMMA MessagesOfConcat ==
  ASSUME NEW S, NEW M, NEW bs \in Seq(S), NEW cs \in Seq(S), \A c \in S : c.messages \in Seq(M)
  PROVE  MessagesIn(bs \o cs) = MessagesIn(bs) \o MessagesIn(cs)
<1> DEFINE T == {q \in Seq(S) : MessagesIn(bs \o q) = MessagesIn(bs) \o MessagesIn(q)}
<1>1. MessagesIn(bs) \in Seq(M)
  BY HeldMessages
<1>2. <<>> \in T
  <2>1. bs \o <<>> = bs /\ MessagesIn(bs) \o <<>> = MessagesIn(bs) /\ <<>> \in Seq(S)
    BY <1>1
  <2> QED BY <2>1, MessagesOfNone
<1>3. ASSUME NEW q \in Seq(S), NEW b \in S, q \in T PROVE Append(q, b) \in T
  <2> DEFINE u == bs \o q
             x == MessagesIn(bs)
             y == MessagesIn(q)
  <2>1. u \in Seq(S) /\ bs \o Append(q, b) = Append(u, b) /\ Append(q, b) \in Seq(S)
    OBVIOUS
  <2>2. MessagesIn(u) = x \o y /\ y \in Seq(M) /\ b.messages \in Seq(M)
    BY <1>3, HeldMessages
  <2> HIDE DEF u
  <2>3. MessagesIn(Append(u, b)) = MessagesIn(u) \o b.messages
    BY <2>1, MessagesOfAppend
  <2>4. MessagesIn(Append(q, b)) = y \o b.messages
    BY MessagesOfAppend
  <2>5. x \in Seq(M)
    BY <1>1
  <2> DEFINE z == b.messages
  <2>7. z \in Seq(M) /\ MessagesIn(u) = x \o y /\ y \in Seq(M)
    BY <2>2
  <2> HIDE DEF x, y, z
  <2>6. (x \o y) \o z = x \o (y \o z)
    BY ONLY <2>7, <2>5, ConcatAssociative, SMTT(30)
  <2> QED BY <2>1, <2>2, <2>3, <2>4, <2>6 DEF x, z
<1> HIDE DEF T
<1>4. Seq(S) \subseteq T
  BY <1>2, <1>3, SeqInduction
<1> QED BY <1>4 DEF T

(* The same of queues that hold messages of a set.                         *)
LEMMA HoldsAppended ==
  ASSUME NEW M, NEW bs, Holds(bs, M), NEW b, b.messages \in Seq(M)
  PROVE  /\ Holds(Append(bs, b), M) /\ MessagesIn(bs) \in Seq(M)
         /\ MessagesIn(Append(bs, b)) = MessagesIn(bs) \o b.messages
<1> DEFINE S == Range(bs) \cup {b}
<1>1. bs \in Seq(S) /\ \A c \in S : c.messages \in Seq(M)
  <2>1. Range(bs) \subseteq S
    OBVIOUS
  <2> QED BY <2>1, SeqMonotonic DEF Holds
<1>2. Holds(Append(bs, b), M)
  BY AppendedRange DEF Holds
<1>3. b \in S
  OBVIOUS
<1> HIDE DEF S
<1>4. MessagesIn(bs) \in Seq(M)
  BY <1>1, HeldMessages
<1>5. MessagesIn(Append(bs, b)) = MessagesIn(bs) \o b.messages
  BY <1>1, <1>3, MessagesOfAppend
<1> QED BY <1>2, <1>4, <1>5

LEMMA HoldsJoined ==
  ASSUME NEW M, NEW bs, Holds(bs, M), NEW cs, Holds(cs, M)
  PROVE  /\ MessagesIn(bs) \in Seq(M) /\ MessagesIn(cs) \in Seq(M)
         /\ MessagesIn(bs \o cs) = MessagesIn(bs) \o MessagesIn(cs)
<1> DEFINE S == Range(bs) \cup Range(cs)
<1>1. bs \in Seq(S) /\ cs \in Seq(S) /\ \A c \in S : c.messages \in Seq(M)
  <2>1. Range(bs) \subseteq S /\ Range(cs) \subseteq S
    OBVIOUS
  <2>2. bs \in Seq(S)
    BY <2>1, SeqMonotonic DEF Holds
  <2>3. cs \in Seq(S)
    BY <2>1, SeqMonotonic DEF Holds
  <2> QED BY <2>2, <2>3 DEF Holds
<1> HIDE DEF S
<1>2. \A q \in Seq(S) : MessagesIn(q) \in Seq(M)
  BY <1>1, HeldMessages
<1> QED BY <1>1, <1>2, MessagesOfConcat

LEMMA HoldsTail ==
  ASSUME NEW M, NEW bs, Holds(bs, M), bs # <<>>
  PROVE  /\ Holds(Tail(bs), M) /\ Head(bs).messages \in Seq(M)
         /\ MessagesIn(Tail(bs)) \in Seq(M)
         /\ MessagesIn(bs) = Head(bs).messages \o MessagesIn(Tail(bs))
<1> DEFINE S == Range(bs)
           h == Head(bs)
           one == <<h>>
           t == Tail(bs)
<1>1. /\ Holds(t, M) /\ h.messages \in Seq(M)
  BY TailRange DEF Holds
<1>2. bs \in Seq(S) /\ \A c \in S : c.messages \in Seq(M)
  BY DEF Holds
<1> HIDE DEF S
<1>3. h \in S /\ t \in Seq(S) /\ one \in Seq(S) /\ bs = one \o t /\ one = Append(<<>>, h)
      /\ <<>> \in Seq(S)
  BY <1>2
<1> HIDE DEF h, t, one
<1>7. ASSUME NEW q \in Seq(S), NEW c \in S
      PROVE  MessagesIn(Append(q, c)) = MessagesIn(q) \o c.messages
  BY ONLY <1>2, <1>7, MessagesOfAppend
<1>4. MessagesIn(one) = <<>> \o h.messages
  <2>1. MessagesIn(Append(<<>>, h)) = MessagesIn(<<>>) \o h.messages
    BY ONLY <1>7, <1>3
  <2> QED BY <2>1, <1>3, MessagesOfNone
<1>5. MessagesIn(one \o t) = MessagesIn(one) \o MessagesIn(t)
  BY ONLY <1>2, <1>3, MessagesOfConcat, Zenon
<1>8. MessagesIn(t) \in Seq(M)
  BY ONLY <1>2, <1>3, HeldMessages
<1>6. <<>> \o h.messages = h.messages
  BY <1>1
<1> QED BY <1>1, <1>3, <1>4, <1>5, <1>6, <1>8 DEF h, t

(* Every message of a batch is among those of the queue.                   *)
LEMMA MessageOfQueue ==
  ASSUME NEW M, NEW bs, Holds(bs, M), NEW b \in Range(bs), NEW m \in Range(b.messages)
  PROVE  m \in Range(MessagesIn(bs))
<1> DEFINE S == Range(bs)
           All(q) == \A c \in Range(q) : Range(c.messages) \subseteq Range(MessagesIn(q))
           T == {q \in Seq(S) : All(q)}
<1>1. bs \in Seq(S) /\ \A c \in S : c.messages \in Seq(M)
  BY DEF Holds
<1> HIDE DEF S
<1>2. <<>> \in T
  <2>1. Range(<<>>) = {} /\ <<>> \in Seq(S)
    BY DEF Range
  <2> QED BY <2>1
<1>3. ASSUME NEW q \in Seq(S), NEW c \in S, q \in T PROVE Append(q, c) \in T
  <2>1. Append(q, c) \in Seq(S) /\ Range(Append(q, c)) = Range(q) \cup {c}
    BY RangeOfAppend
  <2> DEFINE x == MessagesIn(q)
             y == c.messages
  <2>2. MessagesIn(Append(q, c)) = x \o y /\ x \in Seq(M) /\ y \in Seq(M)
    <3>1. MessagesIn(Append(q, c)) = x \o y
      BY ONLY <1>1, <1>3, MessagesOfAppend
    <3>2. x \in Seq(M)
      BY ONLY <1>1, <1>3, HeldMessages
    <3> QED BY <3>1, <3>2, <1>1
  <2>3. \A d \in Range(q) : Range(d.messages) \subseteq Range(x)
    BY <1>3
  <2> HIDE DEF x, y
  <2>4. Range(x) \subseteq Range(x \o y) /\ Range(y) \subseteq Range(x \o y)
    <3>1. Range(x \o y) = Range(x) \cup Range(y)
      BY ONLY <2>2, RangeConcatenation
    <3> QED BY <3>1
  <2>5. All(Append(q, c))
    BY <2>1, <2>2, <2>3, <2>4 DEF y
  <2> QED BY <2>1, <2>5
<1> HIDE DEF T
<1>4. Seq(S) \subseteq T
  BY <1>2, <1>3, SeqInduction
<1>5. All(bs)
  BY <1>1, <1>4 DEF T
<1> QED BY <1>5

(* A silent queue has none of the audio.                                   *)
LEMMA SilentIsEmpty ==
  ASSUME NEW bs, Labelled(bs), NEW i, Silent(bs, i)
  PROVE  AudioOf(i, MessagesIn(bs)) = <<>>
<1> DEFINE M == {m \in UNION {Range(b.messages) : b \in Range(bs)} : ~ IsOf(i, m)}
           S == Range(bs)
<1>1. ASSUME NEW b \in S PROVE b.messages \in Seq(M)
  <2>1. b.messages \in Seq(Range(b.messages))
    BY DEF Labelled, IsLabelled
  <2>2. Range(b.messages) \subseteq M
    BY DEF Silent, SaysNothing
  <2> HIDE DEF M
  <2> QED BY <2>1, <2>2, SeqMonotonic
<1>2. bs \in Seq(S)
  BY DEF Labelled
<1>3. \A m \in M : ~ IsOf(i, m)
  OBVIOUS
<1> HIDE DEF M, S
<1>4. MessagesIn(bs) \in Seq(M)
  BY <1>1, <1>2, HeldMessages
<1>5. \A m \in Range(MessagesIn(bs)) : ~ IsOf(i, m)
  BY <1>3, <1>4, InRange
<1> QED BY <1>4, <1>5, AudioRange

-----------------------------------------------------------------------------
(* Batches of a queue that leave the audio of an input alone.              *)

(* Leaving out batches that hold none of it.                               *)
LEMMA DropQuiet ==
  ASSUME NEW S, NEW M, NEW bs \in Seq(S), \A b \in S : b.messages \in Seq(M),
         NEW E, NEW i, \A b \in S : b \notin E => SaysNothing(b, i)
  PROVE  AudioOf(i, MessagesIn(Only(E, bs))) = AudioOf(i, MessagesIn(bs))
<1> DEFINE Same(q) == AudioOf(i, MessagesIn(Only(E, q))) = AudioOf(i, MessagesIn(q))
           T == {q \in Seq(S) : Same(q)}
<1>1. <<>> \in T
  <2>1. <<>> \in Seq(S)
    OBVIOUS
  <2> QED BY <2>1, OnlyOfNone
<1>2. ASSUME NEW q \in Seq(S), NEW b \in S, q \in T PROVE Append(q, b) \in T
  <2> DEFINE r == Only(E, q)
             x == MessagesIn(q)
             y == MessagesIn(r)
             z == b.messages
  <2>1. r \in Seq(S) /\ Only(E, Append(q, b)) = IF b \in E THEN Append(r, b) ELSE r
    <3>1. q \in Seq(S) /\ b \in S
      BY <1>2
    <3>2. r \in Seq(S)
      BY ONLY <3>1, OnlyOfAppend
    <3>3. Only(E, Append(q, b)) = IF b \in E THEN Append(r, b) ELSE r
      BY ONLY <3>1, OnlyOfAppend
    <3> QED BY <3>2, <3>3
  <2> HIDE DEF r
  <2>2. x \in Seq(M) /\ MessagesIn(Append(q, b)) = x \o z
    <3>1. MessagesIn(q) \in Seq(M)
      BY HeldMessages
    <3>2. MessagesIn(Append(q, b)) = MessagesIn(q) \o b.messages
      BY MessagesOfAppend
    <3> QED BY <3>1, <3>2
  <2>3. y \in Seq(M) /\ MessagesIn(Append(r, b)) = y \o z
    <3>1. MessagesIn(r) \in Seq(M)
      BY <2>1, HeldMessages
    <3>2. MessagesIn(Append(r, b)) = MessagesIn(r) \o b.messages
      BY <2>1, MessagesOfAppend
    <3> QED BY <3>1, <3>2
  <2>4. z \in Seq(M)
    OBVIOUS
  <2>5. AudioOf(i, y) = AudioOf(i, x)
    BY <1>2 DEF r
  <2> HIDE DEF x, y
  <2>6. b \notin E => AudioOf(i, z) = <<>>
    <3>1. b \notin E => \A m \in Range(z) : ~ IsOf(i, m)
      BY DEF SaysNothing
    <3> HIDE DEF z
    <3> QED BY <2>4, <3>1, AudioRange
  <2> HIDE DEF z
  <2>7. AudioOf(i, x \o z) = AudioOf(i, x) \o AudioOf(i, z)
    BY <2>2, <2>4, AudioOfConcat
  <2>8. AudioOf(i, y \o z) = AudioOf(i, y) \o AudioOf(i, z)
    BY <2>3, <2>4, AudioOfConcat
  <2>9. AudioOf(i, x) \in Seq(M)
    BY <2>2, AudioRange
  <2>10. AudioOf(i, x) \o <<>> = AudioOf(i, x)
    BY <2>9
  <2>11. Same(Append(q, b))
    <3>1. CASE b \in E
      BY <3>1, <2>1, <2>2, <2>3, <2>5, <2>7, <2>8
    <3>2. CASE b \notin E
      BY <3>2, <2>1, <2>2, <2>5, <2>6, <2>7, <2>10 DEF y
    <3> QED BY <3>1, <3>2
  <2> HIDE DEF Same
  <2> QED BY <2>11
<1> HIDE DEF T
<1>3. Seq(S) \subseteq T
  BY <1>1, <1>2, SeqInduction
<1> QED BY <1>3 DEF T

(* Changing batches without changing their audio of it.                    *)
Changed(bs, f) == [k \in DOMAIN bs |-> f[bs[k]]]

Maps(f, S, R) == f \in [S -> R]

LEMMA ChangedIs ==
  ASSUME NEW S, NEW R, NEW f \in [S -> R], NEW q \in Seq(S)
  PROVE  Changed(q, f) \in Seq(R)
<1>1. Changed(q, f) = [k \in 1..Len(q) |-> f[q[k]]]
  BY DEF Changed
<1> QED BY <1>1

LEMMA ChangedAppend ==
  ASSUME NEW S, NEW R, NEW f, Maps(f, S, R), NEW q \in Seq(S), NEW b \in S
  PROVE  /\ Changed(q, f) \in Seq(R)
         /\ Changed(Append(q, b), f) = Append(Changed(q, f), f[b])
<1> DEFINE N == Len(q)
           t == Append(q, b)
           c == Changed(q, f)
           e == Changed(t, f)
<1>0. f \in [S -> R]
  BY DEF Maps
<1>1. /\ N \in Nat /\ DOMAIN q = 1..N /\ DOMAIN t = 1..(N + 1) /\ t[N + 1] = b
      /\ \A k \in 1..N : t[k] = q[k] /\ q[k] \in S
  OBVIOUS
<1>2. c \in Seq(R) /\ Len(c) = N /\ \A k \in 1..N : c[k] = f[q[k]]
  <2>1. c = [k \in 1..N |-> f[q[k]]]
    BY <1>1 DEF Changed
  <2> QED BY <1>0, <1>1, <2>1
<1>3. e = [k \in 1..(N + 1) |-> f[t[k]]]
  BY <1>1 DEF Changed
<1> HIDE DEF c, e, N
<1>4. \A k \in 1..(N + 1) : f[t[k]] = IF k = N + 1 THEN f[b] ELSE c[k]
  BY <1>1, <1>2
<1> HIDE DEF t
<1>5. e = Append(c, f[b])
  BY <1>0, <1>1, <1>2, <1>3, <1>4
<1> QED BY <1>2, <1>5 DEF c, e, t

Spares(f, S, R, M, i) ==
  /\ Maps(f, S, R)
  /\ \A b \in S \cup R : b.messages \in Seq(M)
  /\ \A b \in S : AudioOf(i, f[b].messages) = AudioOf(i, b.messages)

LEMMA ChangeQuiet ==
  ASSUME NEW S, NEW R, NEW M, NEW f, NEW i, Spares(f, S, R, M, i), NEW bs \in Seq(S)
  PROVE  AudioOf(i, MessagesIn(Changed(bs, f))) = AudioOf(i, MessagesIn(bs))
<1>5. Maps(f, S, R)
  BY DEF Spares
<1>4. \A q \in Seq(S), b \in S :
        /\ Changed(q, f) \in Seq(R)
        /\ Changed(Append(q, b), f) = Append(Changed(q, f), f[b])
  BY ONLY <1>5, ChangedAppend
<1>0. /\ \A b \in S : b.messages \in Seq(M)
      /\ \A b \in R : b.messages \in Seq(M)
      /\ \A b \in S : AudioOf(i, f[b].messages) = AudioOf(i, b.messages)
  BY DEF Spares
<1> DEFINE Same(q) == AudioOf(i, MessagesIn(Changed(q, f))) = AudioOf(i, MessagesIn(q))
           T == {q \in Seq(S) : Same(q)}
<1>1. <<>> \in T
  <2>1. <<>> \in Seq(S) /\ Changed(<<>>, f) = <<>>
    BY DEF Changed
  <2> QED BY <2>1
<1>2. ASSUME NEW q \in Seq(S), NEW b \in S, q \in T PROVE Append(q, b) \in T
  <2> DEFINE r == Changed(q, f)
             c == f[b]
             x == MessagesIn(q)
             y == MessagesIn(r)
  <2>1. r \in Seq(R) /\ Changed(Append(q, b), f) = Append(r, c)
    BY <1>4
  <2>2. c \in R /\ c.messages \in Seq(M) /\ b.messages \in Seq(M)
    BY <1>0, <1>5 DEF Maps
  <2> HIDE DEF r
  <2>3. x \in Seq(M) /\ MessagesIn(Append(q, b)) = x \o b.messages
    <3>1. MessagesIn(q) \in Seq(M)
      BY <1>0, HeldMessages
    <3>2. MessagesIn(Append(q, b)) = MessagesIn(q) \o b.messages
      BY <1>0, MessagesOfAppend
    <3> QED BY <3>1, <3>2
  <2>4. y \in Seq(M) /\ MessagesIn(Append(r, c)) = y \o c.messages
    <3> HIDE DEF c
    <3>1. MessagesIn(Append(r, c)) = y \o c.messages
      BY ONLY <2>1, <2>2, MessagesOfAppend, <1>0
    <3>2. y \in Seq(M)
      BY ONLY <2>1, HeldMessages, <1>0
    <3> QED BY <3>1, <3>2
  <2>5. AudioOf(i, y) = AudioOf(i, x) /\ AudioOf(i, c.messages) = AudioOf(i, b.messages)
    BY <1>0, <1>2 DEF r
  <2> HIDE DEF x, y, c
  <2>6. AudioOf(i, x \o b.messages) = AudioOf(i, x) \o AudioOf(i, b.messages)
    BY <2>2, <2>3, AudioOfConcat
  <2>7. AudioOf(i, y \o c.messages) = AudioOf(i, y) \o AudioOf(i, c.messages)
    BY <2>2, <2>4, AudioOfConcat
  <2>8. Same(Append(q, b))
    BY <2>1, <2>3, <2>4, <2>5, <2>6, <2>7
  <2> HIDE DEF Same
  <2> QED BY <2>8
<1> HIDE DEF T
<1>3. Seq(S) \subseteq T
  BY <1>1, <1>2, SeqInduction
<1> QED BY <1>3 DEF T

-----------------------------------------------------------------------------
(* What a discard keeps.                                                   *)

(* A batch whose audio was looked through.                                 *)
Looked(b, closed, t) ==
  /\ t.messages \in Seq(Range(t.messages)) /\ Range(t.messages) \subseteq Range(b.messages)
  /\ t.lane = "control" \/ t.frames > 0 => IsLabelled(t)
  /\ b.lane = "control" \/ b.input_id # closed.input_id => t = b
  /\ ~ (b.lane = "control" \/ b.input_id # closed.input_id) =>
       \A m \in Range(t.messages) :
         m.type = "input.audio" => m.start_frame < closed.accepted_end_frame

LEMMA TrimmedIsLooked ==
  ASSUME NEW b, IsBatch(b), IsLabelled(b), NEW closed
  PROVE  Looked(b, closed, Trimmed(b, closed))
<1> DEFINE t == Trimmed(b, closed)
           R == Range(b.messages)
           elements == {m \in R : m.type = "input.audio" =>
                                    m.start_frame < closed.accepted_end_frame}
           kept == Only(elements, b.messages)
<1>1. b.messages \in Seq(R)
  BY DEF IsLabelled
<1>2. CASE b.lane = "control" \/ b.input_id # closed.input_id
  <2>1. t = b
    BY <1>2 DEF Trimmed
  <2> QED BY <1>1, <1>2, <2>1 DEF Looked
<1>3. CASE ~ (b.lane = "control" \/ b.input_id # closed.input_id)
  <2>1. t = [b EXCEPT !.messages = kept, !.frames = AudioFrames(kept)]
    BY <1>3 DEF Trimmed
  <2>2. b = Batch(b.messages, b.lane, b.frames, b.input_id) /\ b.lane = "data"
    BY <1>3 DEF IsBatch
  <2>3. IsBatch(t) /\ t.lane = "data"
    BY <2>2, TrimmedIs
  <2> HIDE DEF kept, t
  <2>4. t.messages = kept /\ t.input_id = b.input_id
    BY <2>1, <2>2 DEF Batch
  <2> HIDE DEF elements
  <2>5. kept \in Seq(Range(kept)) /\ Range(kept) \subseteq R
    BY <1>1, FilteredIs DEF kept
  <2>6. Range(kept) = R \cap elements
    BY <1>1, OnlyRange DEF kept
  <2>7. t.frames > 0 => t.frames \in Positive
    BY <2>3 DEF IsBatch, Positive
  <2>8. t.frames > 0 => IsLabelled(t)
    BY <2>2, <2>3, <2>4, <2>5, <2>7 DEF IsLabelled
  <2>9. \A m \in Range(t.messages) :
          m.type = "input.audio" => m.start_frame < closed.accepted_end_frame
    BY <2>4, <2>6 DEF elements
  <2> QED BY <1>3, <2>3, <2>4, <2>5, <2>8, <2>9 DEF Looked, t
<1> QED BY <1>2, <1>3

(* A part of a queue.                                                      *)
Rest(bs, rest, M) ==
  /\ Labelled(rest) /\ Holds(rest, M)
  /\ \A i : Silent(bs, i) => Silent(rest, i)
Alike(bs, rest, i) == AudioOf(i, MessagesIn(rest)) = AudioOf(i, MessagesIn(bs))

(* DiscardQueued.                                                          *)
LEMMA WithoutInput ==
  ASSUME NEW M, NEW bs, Labelled(bs), Holds(bs, M), NEW j
  PROVE  LET rest == Only({b \in Range(bs) : b.lane = "data" => b.input_id # j}, bs) IN
         /\ Rest(bs, rest, M) /\ Silent(rest, j)
         /\ \A i : i # j => Alike(bs, rest, i)
<1> DEFINE S == Range(bs)
           E == {b \in S : b.lane = "data" => b.input_id # j}
           rest == Only(E, bs)
<1>1. bs \in Seq(S) /\ (\A b \in S : IsLabelled(b)) /\ \A b \in S : b.messages \in Seq(M)
  BY DEF Labelled, Holds
<1>2. rest \in Seq(Range(rest)) /\ Range(rest) \subseteq S
  BY <1>1, FilteredIs
<1>3. Range(rest) = S \cap E
  <2> HIDE DEF E
  <2> QED BY <1>1, OnlyRange
<1>4. \A b \in E : SaysNothing(b, j)
  BY <1>1 DEF IsLabelled, SaysNothing, IsOf
<1>5. \A i : i # j => \A b \in S : b \notin E => SaysNothing(b, i)
  BY <1>1 DEF IsLabelled, SaysNothing, IsOf
<1> HIDE DEF E
<1>6. \A i : i # j => Alike(bs, rest, i)
  <2> TAKE i
  <2> HAVE i # j
  <2>1. \A b \in S : b \notin E => SaysNothing(b, i)
    BY <1>5
  <2> HIDE DEF S
  <2>2. AudioOf(i, MessagesIn(rest)) = AudioOf(i, MessagesIn(bs))
    BY <1>1, <2>1, DropQuiet
  <2> QED BY <2>2 DEF Alike
<1> HIDE DEF rest
<1>7. Rest(bs, rest, M)
  BY <1>1, <1>2 DEF Rest, Labelled, Holds, Silent
<1>8. Silent(rest, j)
  BY <1>3, <1>4 DEF Silent
<1> QED BY <1>6, <1>7, <1>8 DEF rest, E

(* _discard_input_audio_locked.                                            *)
Overtaken(bs, closed) ==
  \A b \in Range(bs) : \A m \in Range(b.messages) :
    IsOf(closed.input_id, m) => ~ (m.start_frame < closed.accepted_end_frame)

LEMMA WithoutClosed ==
  ASSUME NEW M, NEW bs, IsQueue(bs), Labelled(bs), Holds(bs, M), NEW closed
  PROVE  LET rest == WithoutClosedAudio(bs, closed) IN
         /\ Rest(bs, rest, M)
         /\ Overtaken(bs, closed) => Silent(rest, closed.input_id)
         /\ \A i : i # closed.input_id => Alike(bs, rest, i)
<1> DEFINE S == Range(bs)
           R == {Trimmed(b, closed) : b \in S}
           f == [b \in S |-> Trimmed(b, closed)]
           trimmed == Changed(bs, f)
           E == {b \in Range(trimmed) : b.lane = "control" \/ b.frames > 0}
           rest == Only(E, trimmed)
           j == closed.input_id
<1>1. bs \in Seq(S) /\ f \in [S -> R]
  BY DEF Labelled
<1>2. \A b \in S : IsBatch(b) /\ IsLabelled(b) /\ b.messages \in Seq(M)
  BY DEF IsQueue, Labelled, Holds
<1>3. \A b \in S : Looked(b, closed, f[b])
  BY <1>2, TrimmedIsLooked
<1>4. rest = WithoutClosedAudio(bs, closed)
  <2>1. [k \in DOMAIN bs |-> Trimmed(bs[k], closed)] = trimmed
    <3>1. \A k \in DOMAIN bs : bs[k] \in S
      BY DEF Range
    <3> QED BY <3>1 DEF Changed
  <2> HIDE DEF trimmed
  <2> QED BY <2>1, Zenon DEF WithoutClosedAudio
<1>5. \A b \in R : b.messages \in Seq(M)
  <2> SUFFICES ASSUME NEW b \in S PROVE f[b].messages \in Seq(M)
    OBVIOUS
  <2>1. /\ f[b].messages \in Seq(Range(f[b].messages))
        /\ Range(f[b].messages) \subseteq Range(b.messages)
    BY <1>3 DEF Looked
  <2>2. Range(b.messages) \subseteq M
    BY <1>2, InRange
  <2> HIDE DEF f
  <2> QED BY <2>1, <2>2, SeqMonotonic
<1>6. \A b \in R : \E a \in S : b = f[a]
  OBVIOUS
<1> HIDE DEF S, R, f
<1>7. trimmed \in Seq(R)
  BY ONLY <1>1, ChangedIs
<1>8. Range(trimmed) \subseteq R
  BY <1>7, InRange
<1> HIDE DEF trimmed
<1>9. rest \in Seq(Range(rest)) /\ Range(rest) = Range(trimmed) \cap E
  <2>1. trimmed \in Seq(Range(trimmed))
    BY <1>7, InRange
  <2> HIDE DEF E
  <2>2. rest \in Seq(Range(rest))
    BY <2>1, FilteredIs
  <2>3. Range(rest) = Range(trimmed) \cap E
    BY <2>1, OnlyRange
  <2> QED BY <2>2, <2>3
<1> HIDE DEF rest
<1>10. \A t \in Range(rest) : /\ t.lane = "control" \/ t.frames > 0
                             /\ t \in R
                             /\ \E b \in S : t = f[b]
  BY <1>6, <1>8, <1>9
<1>11. Rest(bs, rest, M)
  <2>1. Labelled(rest) /\ Holds(rest, M)
    BY <1>3, <1>5, <1>9, <1>10 DEF Labelled, Holds, Looked
  <2>2. ASSUME NEW i, Silent(bs, i) PROVE Silent(rest, i)
    <3>1. \A b \in S : SaysNothing(b, i)
      BY <2>2 DEF Silent, S
    <3> QED BY <3>1, <1>3, <1>10 DEF Silent, SaysNothing, Looked
  <2> QED BY <2>1, <2>2 DEF Rest
<1>12. ASSUME Overtaken(bs, closed) PROVE Silent(rest, j)
  <2> SUFFICES ASSUME NEW t \in Range(rest), NEW m \in Range(t.messages), IsOf(j, m)
               PROVE  FALSE
    BY DEF Silent, SaysNothing
  <2>1. PICK b \in S : t = f[b]
    BY <1>10
  <2>2. Looked(b, closed, t) /\ IsLabelled(b)
    BY <2>1, <1>2, <1>3
  <2>3. m \in Range(b.messages) /\ m.type = "input.audio" /\ m.input_id = j
    BY <2>2 DEF Looked, IsOf
  <2>4. b.lane = "data" /\ b.input_id = j
    BY <2>2, <2>3 DEF IsLabelled
  <2>5. m.start_frame < closed.accepted_end_frame
    BY <2>2, <2>3, <2>4 DEF Looked
  <2> QED BY <1>12, <2>3, <2>5 DEF Overtaken, S
<1>13. ASSUME NEW i, i # j PROVE Alike(bs, rest, i)
  <2>1. ASSUME NEW b \in S, ~ (b.lane = "control" \/ b.input_id # j)
        PROVE  /\ \A m \in Range(b.messages) : ~ IsOf(i, m)
               /\ \A m \in Range(f[b].messages) : ~ IsOf(i, m)
    BY <1>2, <1>3, <1>13, <2>1 DEF IsLabelled, IsOf, Looked
  <2>2. \A b \in S : b.lane = "control" \/ b.input_id # j => f[b] = b
    BY <1>3 DEF Looked
  <2>3. \A b \in S : b.messages \in Seq(M) /\ f[b].messages \in Seq(M)
    BY <1>1, <1>2, <1>5
  <2>4. \A b \in S : AudioOf(i, f[b].messages) = AudioOf(i, b.messages)
    <3> TAKE b \in S
    <3>1. CASE b.lane = "control" \/ b.input_id # j
      BY <2>2, <3>1
    <3>2. CASE ~ (b.lane = "control" \/ b.input_id # j)
      <4>1. AudioOf(i, b.messages) = <<>>
        BY <2>1, <2>3, <3>2, AudioRange
      <4>2. AudioOf(i, f[b].messages) = <<>>
        BY <2>1, <2>3, <3>2, AudioRange
      <4> QED BY <4>1, <4>2
    <3> QED BY <3>1, <3>2
  <2>5. AudioOf(i, MessagesIn(trimmed)) = AudioOf(i, MessagesIn(bs))
    <3>1. \A b \in S : b.messages \in Seq(M)
      BY <1>2
    <3>2. Spares(f, S, R, M, i)
      BY <1>1, <1>5, <2>4, <3>1 DEF Spares, Maps
    <3>3. AudioOf(i, MessagesIn(Changed(bs, f))) = AudioOf(i, MessagesIn(bs))
      BY <1>1, <3>2, ChangeQuiet
    <3> QED BY <3>3 DEF trimmed
  <2>6. \A t \in Range(trimmed) : t \notin E => SaysNothing(t, i)
    <3> SUFFICES ASSUME NEW b \in S, f[b] \in Range(trimmed), f[b] \notin E
                 PROVE  SaysNothing(f[b], i)
      BY <1>6, <1>8
    <3>1. CASE b.lane = "control" \/ b.input_id # j
      <4>1. f[b] = b /\ b.lane \in {"data", "control"}
        BY <2>2, <3>1, <1>2 DEF IsBatch
      <4>2. b.lane = "data" => b.frames > 0
        BY <1>2 DEF IsLabelled, Positive
      <4> QED BY <4>1, <4>2
    <3>2. CASE ~ (b.lane = "control" \/ b.input_id # j)
      BY <2>1, <3>2 DEF SaysNothing
    <3> QED BY <3>1, <3>2
  <2>7. trimmed \in Seq(Range(trimmed)) /\ \A t \in Range(trimmed) : t.messages \in Seq(M)
    BY <1>5, <1>7, <1>8, InRange
  <2> HIDE DEF E
  <2>8. AudioOf(i, MessagesIn(Only(E, trimmed))) = AudioOf(i, MessagesIn(trimmed))
    BY ONLY <2>6, <2>7, DropQuiet
  <2> QED BY <2>5, <2>8 DEF Alike, rest
<1> QED BY <1>4, <1>11, <1>12, <1>13

-----------------------------------------------------------------------------
(* What the ingress queues.                                                *)

LEMMA AudioMessagesAre ==
  ASSUME NEW spans \in Seq(Positive), spans # <<>>, NEW c \in Ids, NEW i \in Ids,
         NEW start \in Nat
  PROVE  LET messages == AudioMessages(c, i, start, spans) IN
         /\ messages \in Seq(AnyInputAudios)
         /\ \A m \in Range(messages) : m.input_id = i
<1> DEFINE V == Seq(Positive)
           ss == [k \in DOMAIN spans |-> Chunks(spans[k])]
           chunks == FlattenSeq(ss)
           first(k) == start + SumOf(SubSeq(chunks, 1, k - 1))
           messages == [k \in DOMAIN chunks |->
             [type |-> "input.audio", conversation_id |-> c, input_id |-> i,
              start_frame |-> first(k), frames |-> chunks[k]]]
<1>1. \A k \in DOMAIN spans : Chunks(spans[k]) \in V
  BY ChunksOfSpan
<1>2. ss \in Seq(V)
  <2> HIDE DEF V
  <2> QED BY <1>1
<1> HIDE DEF ss
<1>3. chunks \in Seq(Positive)
  <2>1. <<>> \in Seq(Positive)
    OBVIOUS
  <2>2. ss \in Seq(Seq(Positive))
    BY <1>2
  <2> QED BY <2>1, <2>2, FlatOfAppend
<1> HIDE DEF chunks
<1>4. /\ DOMAIN chunks = 1..Len(chunks) /\ Len(chunks) \in Nat
      /\ \A k \in DOMAIN chunks : chunks[k] \in Positive
  BY <1>3
<1>5. \A k \in DOMAIN chunks : first(k) \in Nat
  <2> TAKE k \in DOMAIN chunks
  <2> DEFINE q == SubSeq(chunks, 1, k - 1)
  <2>1. chunks \in Seq(Nat)
    BY <1>3, SumOfPositive
  <2>2. q \in Seq(Nat)
    BY <1>4, <2>1
  <2> HIDE DEF q
  <2>3. SumOf(q) \in Nat
    BY <2>2, SumNat
  <2> QED BY <2>3 DEF q
<1> HIDE DEF first
<1>6. /\ messages \in Seq(AnyInputAudios)
      /\ \A k \in DOMAIN messages : messages[k].input_id = i
  <2>1. \A k \in DOMAIN chunks : messages[k] \in AnyInputAudios
    BY <1>4, <1>5 DEF AnyInputAudios
  <2>2. messages = [k \in 1..Len(chunks) |-> messages[k]]
    BY <1>4
  <2>3. \A k \in DOMAIN messages : messages[k].input_id = i
    OBVIOUS
  <2> HIDE DEF messages
  <2>4. messages \in Seq(AnyInputAudios)
    BY <1>4, <2>1, <2>2
  <2> QED BY <2>3, <2>4
<1>7. AudioMessages(c, i, start, spans) = messages
  BY DEF AudioMessages, chunks, ss, first
<1> HIDE DEF messages
<1>8. \A m \in Range(messages) : m.input_id = i
  BY <1>6 DEF Range
<1> QED BY <1>6, <1>7, <1>8

-----------------------------------------------------------------------------
(* The inductive invariant of the audio on its way.  Validators know what  *)
(* was said to them, closed inputs are silent, and what the core has of an *)
(* input continues what the server has, and the ingress what the core has, *)
(* as long as no close of it was received.                                 *)

Follow(i) ==
  /\ IsClosed(core, i) => IsClosed(ingress, i)
  /\ ~ IsClosed(ingress, i) =>
       /\ Joins(AudioOf(i, sending \o MessagesIn(outbound)),
                Received(server, i), Received(core, i))
       /\ Joins(AudioOf(i, MessagesIn(batches)), Received(core, i), Received(ingress, i))
Known == Sane(core) /\ Sane(server)
Sayings == sending \in Seq(Uttered) /\ Holds(outbound, Uttered) /\ Holds(batches, Uttered)
Muted ==
  /\ Labelled(batches) /\ Labelled(outbound)
  /\ \A i \in Ids : IsClosed(ingress, i) => Silent(batches, i) /\ Silent(outbound, i)
Idle == OpenInputId(ingress) = 0 /\ batches = <<>>
VInv ==
  /\ Sane(ingress) /\ Muted
  /\ connection = "ready" =>
       IF shutting_down THEN Idle ELSE Known /\ Sayings /\ \A i \in Ids : Follow(i)

(* A batch made of what the application may say.                           *)
Utterance(messages, lane, frames, i) ==
  /\ messages \in Seq(Uttered)
  /\ lane = "data" => frames \in Positive
  /\ \A m \in Range(messages) : m.type = "input.audio" => lane = "data" /\ m.input_id = i

LEMMA EnqueueFollows ==
  ASSUME VInv, NEW messages, NEW lane, NEW frames, NEW j, Utterance(messages, lane, frames, j),
         AcceptsAll(ingress, messages), Enqueue(messages, lane, frames, j),
         lane = "data" => ~ IsClosed(ingress, j),
         ~ shutting_down, UNCHANGED <<shutting_down, coreVars, server>>
  PROVE  VInv'
<1> DEFINE b == Batch(messages, lane, frames, j)
           e == AfterAll(ingress, messages)
<1>1. Sane(ingress) /\ messages \in Seq(Uttered)
  BY DEF VInv, Utterance
<1>2. /\ ingress' = e /\ batches' = Append(batches, b)
      /\ UNCHANGED <<core, outbound, sending, connection, server, shutting_down>>
  BY DEF Enqueue, coreVars
<1>3. Reached(ingress, messages)
  BY <1>1, RunReaches, ClientAssumption
<1>4. /\ Sane(e)
      /\ \A i \in Ids : /\ IsClosed(e, i) <=> IsClosed(ingress, i)
                        /\ Joins(AudioOf(i, messages), Received(ingress, i), Received(e, i))
  BY <1>3 DEF Reached
<1>5. b.messages = messages /\ b.lane = lane /\ b.frames = frames /\ b.input_id = j
  BY DEF Batch
<1> HIDE DEF b, e
<1>6. IsLabelled(b)
  <2>1. messages \in Seq(Range(messages))
    BY <1>1, InRange
  <2> QED BY <2>1, <1>5 DEF IsLabelled, Utterance
<1>7. \A i : IsClosed(ingress, i) => SaysNothing(b, i)
  BY <1>5 DEF SaysNothing, IsOf, Utterance
<1>8. Muted'
  <2>1. Labelled(batches) /\ Labelled(outbound)
    BY DEF VInv, Muted
  <2>2. /\ Append(batches, b) \in Seq(Range(Append(batches, b)))
        /\ Range(Append(batches, b)) = Range(batches) \cup {b}
    BY <2>1, AppendedRange DEF Labelled
  <2>3. Labelled(batches')
    BY <1>2, <1>6, <2>1, <2>2 DEF Labelled
  <2>4. \A i \in Ids : IsClosed(ingress', i) => Silent(batches', i) /\ Silent(outbound', i)
    BY <1>2, <1>4, <1>7, <2>2 DEF VInv, Muted, Silent
  <2> QED BY <1>2, <2>1, <2>3, <2>4 DEF Muted
<1>9. CASE connection = "ready"
  <2>1. Known /\ Sayings /\ \A i \in Ids : Follow(i)
    BY <1>9 DEF VInv
  <2>2. /\ Holds(batches', Uttered) /\ MessagesIn(batches) \in Seq(Uttered)
        /\ MessagesIn(batches') = MessagesIn(batches) \o messages
    BY <1>1, <1>2, <1>5, <2>1, HoldsAppended DEF Sayings
  <2>3. ASSUME NEW i \in Ids PROVE Follow(i)'
    <3> DEFINE x == MessagesIn(batches)
               v == AudioOf(i, x)
               w == AudioOf(i, messages)
    <3>1. AudioOf(i, x \o messages) = v \o w
      BY <1>1, <2>2, AudioOfConcat
    <3>2. v \in Seq(AnyInputAudios) /\ w \in Seq(AnyInputAudios)
      BY <1>1, <2>2, UtteredAudio
    <3>3. ASSUME ~ IsClosed(ingress, i)
          PROVE  Joins(v \o w, Received(core, i), Received(e, i))
      <4>1. Joins(v, Received(core, i), Received(ingress, i))
        BY <2>1, <3>3 DEF Follow
      <4>2. Joins(w, Received(ingress, i), Received(e, i))
        BY <1>4
      <4> HIDE DEF v, w
      <4> QED BY <3>2, <4>1, <4>2, JoinsJoined
    <3>4. AudioOf(i, MessagesIn(batches')) = v \o w
      BY <2>2, <3>1
    <3> HIDE DEF v, w
    <3> QED BY <1>2, <1>4, <2>1, <3>3, <3>4 DEF Follow
  <2> QED BY <1>2, <1>4, <1>8, <2>1, <2>2, <2>3 DEF VInv, Known, Sayings
<1>10. CASE connection # "ready"
  BY <1>2, <1>4, <1>8, <1>10 DEF VInv
<1> QED BY <1>9, <1>10

-----------------------------------------------------------------------------
(* The calls of the application.                                           *)

LEMMA VStands ==
  ASSUME VInv, UNCHANGED <<ingress, batches, shutting_down, core, outbound, sending, connection,
                           server>>
  PROVE  VInv'
BY DEF VInv, Muted, Known, Sayings, Idle, Follow

LEMMA OneMessage ==
  ASSUME NEW d, NEW m \in Uttered, Accepts(d, m)
  PROVE  <<m>> \in Seq(Uttered) /\ AcceptsAll(d, <<m>>) /\ AfterAll(d, <<m>>) = After(d, m)
<1> DEFINE U == Uttered
<1>1. <<>> \in Seq(U) /\ <<m>> = Append(<<>>, m) /\ <<m>> \in Seq(U) /\ m \in U
  OBVIOUS
<1>2. Run(d, <<m>>) = RunStep(Started(d), m)
  <2> HIDE DEF U
  <2> QED BY <1>1, RunOfNone, RunOfAppend
<1> QED BY <1>1, <1>2 DEF Started, RunStep, AcceptsAll, AfterAll

LEMMA ControlFollows ==
  ASSUME VInv, NEW m \in Uttered, m.type # "input.audio", Accepts(ingress, m), NEW i,
         Control(m, i), ~ shutting_down, UNCHANGED <<shutting_down, coreVars, server>>
  PROVE  VInv'
<1>1. CASE Enqueue(<<m>>, "control", 0, i)
  <2>1. <<m>> \in Seq(Uttered) /\ AcceptsAll(ingress, <<m>>)
    BY OneMessage
  <2>2. Range(<<m>>) = {m}
    BY DEF Range
  <2>3. Utterance(<<m>>, "control", 0, i)
    BY <2>1, <2>2 DEF Utterance
  <2> QED BY <1>1, <2>1, <2>3, EnqueueFollows
<1>2. CASE Fail
  BY <1>2, VStands DEF Fail, coreVars
<1> QED BY <1>1, <1>2 DEF Control

LEMMA CommitFollows ==
  ASSUME VInv, NEW messages, NEW i, NEW frames, NEW kept, NEW pre,
         CommitAudio(messages, i, frames, kept, pre), Utterance(messages, "data", frames, i),
         ~ IsClosed(ingress, i), ~ shutting_down, UNCHANGED <<shutting_down, coreVars, server>>
  PROVE  VInv'
<1>1. CASE HasRoom("data", frames) /\ AcceptsAll(ingress, messages)
  <2>1. Enqueue(messages, "data", frames, i)
    BY <1>1 DEF CommitAudio
  <2> QED BY <1>1, <2>1, EnqueueFollows
<1>2. CASE ~ (HasRoom("data", frames) /\ AcceptsAll(ingress, messages))
  <2>1. NotQueued(messages)
    BY <1>2 DEF CommitAudio
  <2> QED BY <2>1, VStands DEF NotQueued, QueueUnchanged, coreVars
<1> QED BY <1>1, <1>2

(* The open input is one, and it has not ended.                            *)
LEMMA OpenInputIs ==
  ASSUME NEW d, Sane(d), OpenInputId(d) # 0
  PROVE  LET i == OpenInputId(d) IN
         /\ i \in Ids /\ i = d.conversation.input_id /\ d.conversation.id \in Ids
         /\ d.inputs[i].received \in Nat /\ ~ IsClosed(d, i)
<1> DEFINE i == d.conversation.input_id
<1>1. OpenInputId(d) = i /\ i # 0 /\ d.inputs[i].terminal = NoTerminal
  BY DEF OpenInputId
<1>2. d \in Data /\ CurrentInput(d)
  BY DEF Sane, Good, Turns
<1>3. d.conversation \in Conversations /\ \A k \in Ids : d.inputs[k] \in Inputs
  BY <1>2, Parts
<1>4. i \in OptionalIds /\ d.conversation.id \in OptionalIds
  BY <1>3 DEF Conversations
<1>5. i \in Ids /\ d.conversation.id \in Ids
  BY <1>1, <1>2, <1>4, NoneIds DEF CurrentInput
<1>6. d.inputs[i].received \in Nat
  BY <1>3, <1>5 DEF Inputs
<1>7. ~ IsClosed(d, i)
  BY <1>1 DEF IsClosed, NoTerminal
<1> QED BY <1>1, <1>5, <1>6, <1>7

LEMMA AbortFollows ==
  ASSUME VInv, OpenInputId(ingress) # 0, NEW reason \in InputAbortReason,
         AbortOpenInput(reason), ~ shutting_down, UNCHANGED <<shutting_down, coreVars, server>>
  PROVE  VInv'
<1> DEFINE i == OpenInputId(ingress)
           m == InputAbort(ingress.conversation.id, i, reason)
<1>1. i \in Ids /\ ingress.conversation.id \in Ids
  BY OpenInputIs DEF VInv
<1>2. Accepts(ingress, m) /\ Control(m, i)
  BY DEF AbortOpenInput
<1> HIDE DEF i
<1>3. m \in AnyInputAborts /\ m.type = "input.abort"
  BY <1>1 DEF InputAbort, AnyInputAborts
<1> HIDE DEF m
<1>4. m \in Uttered /\ m.type # "input.audio"
  BY <1>3 DEF Uttered
<1> QED BY <1>2, <1>4, ControlFollows

(* An input nobody started is not closed.                                  *)
LEMMA NextInputIs ==
  ASSUME NEW d, Sane(d), d.input_ids \in Ids
  PROVE  ~ IsClosed(d, d.input_ids)
<1>1. d.inputs[d.input_ids].conversation_id = 0
  BY NoneIds DEF Sane, Good, Turns, Allocated
<1> QED BY <1>1 DEF Sane, Fresh, IsClosed, NoTerminal

(* Audio, and what starts its conversation and its input.                  *)
LEMMA AudioUtterance ==
  ASSUME NEW spans \in Seq(Positive), spans # <<>>, NEW c \in Ids, NEW i \in Ids,
         NEW start \in Nat, NEW frames \in Positive,
         NEW first \in Seq(Uttered), \A m \in Range(first) : m.type # "input.audio"
  PROVE  Utterance(first \o AudioMessages(c, i, start, spans), "data", frames, i)
<1> DEFINE audio == AudioMessages(c, i, start, spans)
           U == Uttered
           messages == first \o audio
<1>1. audio \in Seq(AnyInputAudios) /\ \A m \in Range(audio) : m.input_id = i
  BY AudioMessagesAre
<1> HIDE DEF audio
<1>2. audio \in Seq(U)
  <2>1. AnyInputAudios \subseteq U
    BY DEF Uttered
  <2> HIDE DEF U
  <2> QED BY <1>1, <2>1, SeqMonotonic
<1>3. first \in Seq(Range(first)) /\ audio \in Seq(Range(audio)) /\ first \in Seq(U)
  BY <1>2, InRange
<1> HIDE DEF U
<1>4. messages \in Seq(U)
  BY <1>2, <1>3
<1>5. Range(messages) = Range(first) \cup Range(audio)
  BY <1>2, <1>3, RangeConcatenation
<1> HIDE DEF messages
<1>6. messages \in Seq(Uttered)
  BY <1>4 DEF U
<1>7. \A m \in Range(messages) : m.type = "input.audio" => m.input_id = i
  BY <1>1, <1>5
<1>8. Utterance(messages, "data", frames, i)
  BY <1>6, <1>7 DEF Utterance
<1> QED BY <1>8 DEF messages, audio

-----------------------------------------------------------------------------
(* submit.                                                                 *)

Beside == ~ shutting_down /\ UNCHANGED <<shutting_down, coreVars, server>>

LEMMA OpenInputFollows ==
  ASSUME VInv, Beside, NEW n \in 1..MaxChunk, NEW pre, SubmitToOpenInput(n, pre)
  PROVE  VInv'
<1> DEFINE i == OpenInputId(ingress)
           c == ingress.conversation.id
           start == ingress.inputs[i].received
           one == <<n>>
           messages == AudioMessages(c, i, start, one)
<1>1. i \in Ids /\ c \in Ids /\ start \in Nat /\ ~ IsClosed(ingress, i)
  BY OpenInputIs DEF SubmitToOpenInput, VInv
<1>2. n \in Positive /\ one \in Seq(Positive) /\ one # <<>>
  BY OneSpan
<1>3. \/ CommitAudio(messages, i, n, pre, pre)
      \/ AbortOpenInput("overflow")
  BY DEF SubmitToOpenInput
<1>4. CASE CommitAudio(messages, i, n, pre, pre)
  <2> HIDE DEF i, c, start, one
  <2>1. <<>> \in Seq(Uttered) /\ Range(<<>>) = {}
    BY DEF Range
  <2>2. Utterance(<<>> \o messages, "data", n, i)
    BY <1>1, <1>2, <2>1, AudioUtterance
  <2>3. <<>> \o messages = messages
    BY <1>1, <1>2, AudioMessagesAre
  <2>4. Utterance(messages, "data", n, i)
    BY <2>2, <2>3
  <2> HIDE DEF messages
  <2> QED BY <1>1, <1>4, <2>4, CommitFollows DEF Beside
<1>5. CASE AbortOpenInput("overflow")
  <2>1. i # 0 /\ "overflow" \in InputAbortReason
    BY DEF SubmitToOpenInput, InputAbortReason
  <2> QED BY <1>5, <2>1, AbortFollows DEF Beside
<1> QED BY <1>3, <1>4, <1>5

LEMMA ActivationFollows ==
  ASSUME VInv, Beside, NEW n \in 1..MaxChunk, NEW pre, SubmitActivation(n, pre)
  PROVE  VInv'
<1> DEFINE i == ingress.input_ids
           c == ingress.conversation_ids
           open == [type |-> "conversation.start", conversation_id |-> c]
           begin == InputStart(c, i, "activation", 0)
           first == <<open, begin>>
           one == <<n>>
           messages == first \o AudioMessages(c, i, 0, one)
<1>1. i \in Ids /\ c \in Ids /\ CommitAudio(messages, i, n, pre, pre)
  BY MessagesAssumption DEF SubmitActivation
<1>2. n \in Positive /\ one \in Seq(Positive) /\ one # <<>>
  BY OneSpan
<1>3. ~ IsClosed(ingress, i)
  BY <1>1, NextInputIs DEF VInv
<1> HIDE DEF i, c, one
<1>4. open \in AnyConversationStarts /\ begin \in AnyInputStarts
  BY <1>1 DEF AnyConversationStarts, AnyInputStarts, InputStart
<1> HIDE DEF open, begin
<1>5. first \in Seq(Uttered) /\ \A m \in Range(first) : m.type # "input.audio"
  <2>1. open \in Uttered /\ begin \in Uttered
    BY <1>4 DEF Uttered
  <2>2. open.type # "input.audio" /\ begin.type # "input.audio"
    BY <1>4, UtteredTypes
  <2>3. Range(first) = {open, begin}
    BY DEF Range
  <2> QED BY <2>1, <2>2, <2>3
<1> HIDE DEF first
<1>6. Utterance(messages, "data", n, i)
  BY <1>1, <1>2, <1>5, AudioUtterance
<1> HIDE DEF messages
<1> QED BY <1>1, <1>3, <1>6, CommitFollows DEF Beside

LEMMA SpeechFollows ==
  ASSUME VInv, Beside, NEW n \in 1..MaxChunk, NEW pre, IsPreRoll(pre), SubmitSpeech(n, pre)
  PROVE  VInv'
<1> DEFINE i == ingress.input_ids
           c == ingress.conversation.id
           r == ingress.conversation.response_id
           reason == IF r = 0 THEN "speech" ELSE "barge_in"
           begin == InputStart(c, i, reason, r)
           first == <<begin>>
           spans == Append(pre, n)
           messages == first \o AudioMessages(c, i, 0, spans)
<1>1. i \in Ids /\ c # 0 /\ CommitAudio(messages, i, SumOf(spans), <<>>, pre)
  BY MessagesAssumption DEF SubmitSpeech
<1>2. c \in Ids /\ (r = 0 \/ r \in Ids)
  <2>1. ingress.conversation \in Conversations
    BY Parts DEF VInv, Sane, Good
  <2>2. c \in OptionalIds /\ r \in OptionalIds
    BY <2>1 DEF Conversations
  <2> QED BY <1>1, <2>2, NoneIds
<1>3. spans \in Seq(Positive) /\ spans # <<>>
  BY PreRollGrows
<1>4. SumOf(spans) \in Positive
  <2>1. n \in Nat /\ n > 0 /\ <<n>> \in Seq(Nat) /\ SumOf(<<n>>) = n
    BY OneSpan, SumOfOne DEF Positive
  <2>2. pre \in Seq(Positive) /\ pre \in Seq(Nat) /\ SumOf(pre) \in Nat
    BY SumOfPositive DEF IsPreRoll
  <2>3. spans = pre \o <<n>>
    BY <2>1, <2>2
  <2>4. SumOf(spans) = SumOf(pre) + n
    BY <2>1, <2>2, <2>3, SumOfConcat
  <2> QED BY <2>1, <2>2, <2>4 DEF Positive
<1>5. ~ IsClosed(ingress, i)
  BY <1>1, NextInputIs DEF VInv
<1> HIDE DEF i, c, r, spans
<1>6. begin \in AnyInputStarts
  BY <1>1, <1>2 DEF AnyInputStarts, InputStart
<1> HIDE DEF begin
<1>7. first \in Seq(Uttered) /\ \A m \in Range(first) : m.type # "input.audio"
  <2>1. begin \in Uttered /\ begin.type # "input.audio"
    BY <1>6, UtteredTypes DEF Uttered
  <2>2. Range(first) = {begin}
    BY DEF Range
  <2> QED BY <2>1, <2>2
<1> HIDE DEF first
<1>8. Utterance(messages, "data", SumOf(spans), i)
  BY <1>1, <1>2, <1>3, <1>4, <1>7, AudioUtterance
<1> HIDE DEF messages
<1> QED BY <1>1, <1>5, <1>8, CommitFollows DEF Beside

LEMMA SubmitFollows ==
  ASSUME VInv, IsPreRoll(pre_roll), Submit
  PROVE  VInv'
<1>1. PICK n \in 1..MaxChunk, pre \in {<<>>, pre_roll}, activated \in BOOLEAN :
        \/ SubmitBoundary(n, activated)
        \/ SubmitToOpenInput(n, pre)
        \/ SubmitActivation(n, pre)
        \/ SubmitSpeech(n, pre)
        \/ SubmitSilence(n, activated, pre)
        \/ SubmitRefused(pre)
  BY DEF Submit
<1>2. IsPreRoll(pre)
  BY NoPreRoll
<1>4. Beside
  BY DEF Submit, CanCall, Beside
<1>5. CASE SubmitBoundary(n, activated)
  <2>1. OpenInputId(ingress) # 0 /\ AbortOpenInput("discontinuity")
    BY <1>5 DEF SubmitBoundary
  <2>2. "discontinuity" \in InputAbortReason
    BY DEF InputAbortReason
  <2> QED BY <1>4, <2>1, <2>2, AbortFollows DEF Beside
<1>6. CASE SubmitSilence(n, activated, pre) \/ SubmitRefused(pre)
  <2>1. UNCHANGED <<ingress, batches>>
    BY <1>6 DEF SubmitSilence, SubmitRefused, QueueUnchanged
  <2> QED BY <1>4, <2>1, VStands DEF Beside, coreVars
<1> QED BY <1>1, <1>2, <1>4, <1>5, <1>6, OpenInputFollows, ActivationFollows, SpeechFollows

LEMMA CallFollows ==
  ASSUME VInv, AbortInput \/ CancelConversation \/ ReportPlayback
  PROVE  VInv'
<1>1. PICK m, i : m \in Uttered /\ m.type # "input.audio" /\ Call(m, i)
  <2>1. CASE AbortInput
    <3>1. PICK m \in InputAborts : Call(m, m.input_id)
      BY <2>1 DEF AbortInput
    <3>2. m \in Uttered /\ m.type # "input.audio"
      BY Unbounded, UtteredTypes DEF Uttered
    <3> QED BY <3>1, <3>2
  <2>2. CASE CancelConversation
    <3>1. PICK m \in ConversationCancels : Call(m, ingress.conversation.input_id)
      BY <2>2 DEF CancelConversation
    <3>2. m \in Uttered /\ m.type # "input.audio"
      BY Unbounded, UtteredTypes DEF Uttered
    <3> QED BY <3>1, <3>2
  <2>3. CASE ReportPlayback
    <3>1. PICK m \in PlaybackFinishes \cup PlaybackInterrupts : Call(m, 0)
      BY <2>3 DEF ReportPlayback
    <3>2. m \in Uttered /\ m.type # "input.audio"
      BY Unbounded, UtteredTypes DEF Uttered
    <3> QED BY <3>1, <3>2
  <2> QED BY <2>1, <2>2, <2>3
<1>2. Accepts(ingress, m) /\ Control(m, i) /\ Beside
  BY <1>1 DEF Call, CanCall, Beside
<1> QED BY <1>1, <1>2, ControlFollows DEF Beside

-----------------------------------------------------------------------------
(* The hand-off and the writer.                                            *)

LEMMA VEnds ==
  ASSUME VInv, UNCHANGED <<ingress, batches, outbound>>, connection' # "ready"
  PROVE  VInv'
BY DEF VInv, Muted

LEMMA RequestEnds ==
  ASSUME RequestClose
  PROVE  connection' # "ready"
BY DEF RequestClose

LEMMA LabelledTail ==
  ASSUME NEW bs, Labelled(bs), bs # <<>>
  PROVE  /\ Labelled(Tail(bs)) /\ IsLabelled(Head(bs))
         /\ \A i : Silent(bs, i) => Silent(Tail(bs), i) /\ SaysNothing(Head(bs), i)
BY TailRange DEF Labelled, Silent

LEMMA LabelledAppended ==
  ASSUME NEW bs, Labelled(bs), NEW b, IsLabelled(b)
  PROVE  /\ Labelled(Append(bs, b))
         /\ \A i : Silent(bs, i) /\ SaysNothing(b, i) => Silent(Append(bs, b), i)
BY AppendedRange DEF Labelled, Silent

LEMMA TakeFollows ==
  ASSUME VInv, HandoffTakes
  PROVE  VInv'
<1> DEFINE b == Head(batches)
           t == Tail(batches)
           o == Append(outbound, b)
           e == AfterAll(core, b.messages)
<1>1. /\ batches # <<>> /\ ~ Refused(b)
      /\ outbound' = o /\ core' = e /\ batches' = t
      /\ UNCHANGED <<ingress, shutting_down, sending, connection, server>>
  BY DEF HandoffTakes, Acknowledge
<1>2. connection = "ready" /\ AcceptsAll(core, b.messages)
  BY <1>1 DEF Refused
<1>3. ~ shutting_down /\ Known /\ Sayings /\ \A i \in Ids : Follow(i)
  BY <1>1, <1>2 DEF VInv, Idle
<1>4. /\ Labelled(t) /\ IsLabelled(b)
      /\ \A i : Silent(batches, i) => Silent(t, i) /\ SaysNothing(b, i)
  BY <1>1, LabelledTail DEF VInv, Muted
<1>5. /\ Holds(t, Uttered) /\ b.messages \in Seq(Uttered)
      /\ MessagesIn(t) \in Seq(Uttered)
      /\ MessagesIn(batches) = b.messages \o MessagesIn(t)
  BY <1>1, <1>3, HoldsTail DEF Sayings
<1> HIDE DEF b, t, e
<1>6. /\ Holds(o, Uttered) /\ MessagesIn(outbound) \in Seq(Uttered)
      /\ MessagesIn(o) = MessagesIn(outbound) \o b.messages
  BY <1>3, <1>5, HoldsAppended DEF Sayings
<1>7. Muted'
  <2>1. /\ Labelled(o)
        /\ \A i : Silent(outbound, i) /\ SaysNothing(b, i) => Silent(o, i)
    BY <1>4, LabelledAppended DEF VInv, Muted
  <2> HIDE DEF o
  <2> QED BY <1>1, <1>4, <2>1 DEF VInv, Muted
<1> HIDE DEF o
<1>8. Reached(core, b.messages)
  BY <1>3, <1>5, RunReaches, ClientAssumption DEF Known
<1>9. /\ Sane(e)
      /\ \A i \in Ids : /\ IsClosed(e, i) <=> IsClosed(core, i)
                        /\ Joins(AudioOf(i, b.messages), Received(core, i), Received(e, i))
  BY <1>2, <1>8 DEF Reached, e
<1>10. ASSUME NEW i \in Ids PROVE Follow(i)'
  <2> DEFINE x == sending \o MessagesIn(outbound)
             y == b.messages
             z == MessagesIn(t)
             v == AudioOf(i, x)
             w == AudioOf(i, y)
             u == AudioOf(i, z)
  <2>1. x \in Seq(Uttered) /\ y \in Seq(Uttered) /\ z \in Seq(Uttered)
    <3>1. sending \in Seq(Uttered)
      BY <1>3 DEF Sayings
    <3> QED BY <1>5, <1>6, <3>1
  <2>2. sending' \o MessagesIn(outbound') = x \o y
    <3>1. sending \in Seq(Uttered)
      BY <1>3 DEF Sayings
    <3> DEFINE U == Uttered
               p == MessagesIn(outbound)
    <3>2. sending \in Seq(U) /\ p \in Seq(U) /\ y \in Seq(U)
      BY <1>5, <1>6, <3>1
    <3>3. MessagesIn(outbound') = p \o y /\ sending' = sending
      BY <1>1, <1>6
    <3>4. x = sending \o p
      OBVIOUS
    <3> HIDE DEF U, p, y, x
    <3>5. (sending \o p) \o y = sending \o (p \o y)
      BY ONLY <3>2, ConcatAssociative
    <3> QED BY <3>3, <3>4, <3>5
  <2>3. MessagesIn(batches) = y \o z /\ MessagesIn(batches') = z
    BY <1>1, <1>5
  <2> HIDE DEF x, y, z
  <2>4. AudioOf(i, x \o y) = v \o w /\ AudioOf(i, y \o z) = w \o u
    <3>1. AudioOf(i, x \o y) = v \o w
      BY <2>1, AudioOfConcat
    <3>2. AudioOf(i, y \o z) = w \o u
      BY <2>1, AudioOfConcat
    <3> QED BY <3>1, <3>2
  <2>5. /\ v \in Seq(AnyInputAudios) /\ w \in Seq(AnyInputAudios)
        /\ u \in Seq(AnyInputAudios)
    BY <2>1, UtteredAudio
  <2>6. Joins(w, Received(core, i), Received(e, i))
    BY <1>9 DEF y
  <2>7. ASSUME ~ IsClosed(ingress, i)
        PROVE  /\ Joins(v \o w, Received(server, i), Received(e, i))
               /\ Joins(u, Received(e, i), Received(ingress, i))
    <3>1. /\ Joins(v, Received(server, i), Received(core, i))
          /\ Joins(AudioOf(i, y \o z), Received(core, i), Received(ingress, i))
      BY <1>3, <2>3, <2>7 DEF Follow, x
    <3>2. Joins(w \o u, Received(core, i), Received(ingress, i))
      BY <3>1, <2>4
    <3> HIDE DEF v, w, u
    <3>3. Joins(v \o w, Received(server, i), Received(e, i))
      BY <2>5, <2>6, <3>1, JoinsJoined
    <3>4. Joins(u, Received(e, i), Received(ingress, i))
      BY <2>5, <2>6, <3>2, JoinsJoined
    <3> QED BY <3>3, <3>4
  <2>8. /\ AudioOf(i, sending' \o MessagesIn(outbound')) = v \o w
        /\ AudioOf(i, MessagesIn(batches')) = u
    BY <2>2, <2>3, <2>4
  <2> HIDE DEF v, w, u
  <2> QED BY <1>1, <1>3, <1>9, <2>7, <2>8 DEF Follow
<1> QED BY <1>1, <1>2, <1>3, <1>5, <1>6, <1>7, <1>9, <1>10 DEF VInv, Known, Sayings

LEMMA HandoffFollows ==
  ASSUME VInv, Handoff
  PROVE  VInv'
<1>1. CASE HandoffWakes \/ HandoffRefused
  <2>1. /\ UNCHANGED <<ingress, batches, shutting_down, outbound, sending, server>>
        /\ RequestClose \/ UNCHANGED <<core, connection>>
    BY <1>1 DEF HandoffWakes, HandoffRefused, ingressVars
  <2> QED BY <2>1, VEnds, VStands, RequestEnds
<1>2. CASE HandoffBlocked \/ HandoffRests
  <2>1. UNCHANGED <<ingress, batches, shutting_down, core, outbound, sending, connection, server>>
    BY <1>2 DEF HandoffBlocked, HandoffRests, WaitForRoom, ingressVars, coreVars
  <2> QED BY <2>1, VStands
<1> QED BY <1>1, <1>2, TakeFollows DEF Handoff

LEMMA GetFollows ==
  ASSUME VInv, WriterGets
  PROVE  VInv'
<1> DEFINE b == Head(outbound)
           t == Tail(outbound)
<1>1. /\ outbound # <<>> /\ sending = <<>> /\ sending' = b.messages /\ outbound' = t
      /\ UNCHANGED <<ingress, batches, shutting_down, core, connection, server>>
  BY DEF WriterGets, ingressVars
<1>2. /\ Labelled(t) /\ \A i : Silent(outbound, i) => Silent(t, i)
  BY <1>1, LabelledTail DEF VInv, Muted
<1>3. Holds(outbound, Uttered) =>
        /\ Holds(t, Uttered) /\ b.messages \in Seq(Uttered) /\ MessagesIn(t) \in Seq(Uttered)
        /\ MessagesIn(outbound) = b.messages \o MessagesIn(t)
  BY <1>1, HoldsTail
<1> HIDE DEF b, t
<1>4. Muted'
  BY <1>1, <1>2 DEF VInv, Muted
<1>5. Sayings => Sayings' /\ sending' \o MessagesIn(outbound') = sending \o MessagesIn(outbound)
  <2> SUFFICES ASSUME Sayings
               PROVE  /\ Sayings'
                      /\ sending' \o MessagesIn(outbound') = sending \o MessagesIn(outbound)
    OBVIOUS
  <2> DEFINE x == b.messages
             y == MessagesIn(t)
  <2>1. /\ Holds(t, Uttered) /\ x \in Seq(Uttered) /\ y \in Seq(Uttered)
        /\ MessagesIn(outbound) = x \o y
    BY <1>3 DEF Sayings
  <2>2. Sayings'
    BY <1>1, <2>1 DEF Sayings
  <2> HIDE DEF x, y
  <2>3. <<>> \o (x \o y) = x \o y
    BY <2>1
  <2> QED BY <1>1, <2>1, <2>2, <2>3 DEF x, y
<1>6. ASSUME Sayings, NEW i \in Ids, Follow(i) PROVE Follow(i)'
  BY <1>1, <1>5, <1>6 DEF Follow
<1> QED BY <1>1, <1>4, <1>5, <1>6 DEF VInv, Known, Idle

LEMMA SendFollows ==
  ASSUME VInv, WriterSends, Accepts(server, Head(sending)), connection = "ready",
         ~ shutting_down
  PROVE  VInv'
<1> DEFINE m == Head(sending)
           q == Tail(sending)
           one == <<m>>
           e == After(server, m)
<1>1. /\ sending # <<>> /\ sending' = q /\ server' = e
      /\ UNCHANGED <<ingress, batches, shutting_down, core, connection, outbound>>
  BY DEF WriterSends, ingressVars
<1>2. Known /\ Sayings /\ \A i \in Ids : Follow(i)
  BY DEF VInv
<1>3. /\ m \in Uttered /\ q \in Seq(Uttered) /\ one \in Seq(Uttered) /\ sending = one \o q
  <2> DEFINE U == Uttered
  <2>1. sending \in Seq(U)
    BY <1>2 DEF Sayings
  <2> HIDE DEF U
  <2>2. m \in U /\ q \in Seq(U) /\ one \in Seq(U) /\ sending = one \o q
    BY <1>1, <2>1
  <2> QED BY <2>2 DEF U
<1>4. Accepts(server, m) /\ Sane(server)
  BY <1>2 DEF Known
<1> HIDE DEF m, q
<1>5. AcceptsAll(server, one) /\ AfterAll(server, one) = e
  BY <1>3, <1>4, OneMessage
<1>6. Reached(server, one)
  BY <1>3, <1>4, RunReaches, ClientAssumption
<1> HIDE DEF one, e
<1>7. /\ Sane(e)
      /\ \A i \in Ids : Joins(AudioOf(i, one), Received(server, i), Received(e, i))
  BY <1>5, <1>6 DEF Reached
<1>8. ASSUME NEW i \in Ids PROVE Follow(i)'
  <2> DEFINE z == MessagesIn(outbound)
             x == q \o z
             v == AudioOf(i, one)
             w == AudioOf(i, x)
  <2>1. z \in Seq(Uttered)
    <3>1. Holds(outbound, Uttered) /\ \A b \in Range(outbound) : b.messages \in Seq(Uttered)
      BY <1>2 DEF Sayings, Holds
    <3>2. outbound \in Seq(Range(outbound))
      BY <3>1 DEF Holds
    <3> QED BY <3>1, <3>2, HeldMessages
  <2> HIDE DEF z
  <2>2. x \in Seq(Uttered) /\ sending \o z = one \o x
    <3> DEFINE U == Uttered
    <3>1. one \in Seq(U) /\ q \in Seq(U) /\ z \in Seq(U)
      BY <1>3, <2>1
    <3> HIDE DEF U
    <3>2. (one \o q) \o z = one \o (q \o z) /\ q \o z \in Seq(U)
      BY ONLY <3>1, ConcatAssociative
    <3> QED BY <1>3, <3>2 DEF U
  <2> HIDE DEF x
  <2>3. AudioOf(i, one \o x) = v \o w
    BY <1>3, <2>2, AudioOfConcat
  <2>4. v \in Seq(AnyInputAudios) /\ w \in Seq(AnyInputAudios)
    BY <1>3, <2>2, UtteredAudio
  <2>5. ASSUME ~ IsClosed(ingress, i) PROVE Joins(w, Received(e, i), Received(core, i))
    <3>1. Joins(v \o w, Received(server, i), Received(core, i))
      BY <1>2, <2>2, <2>3, <2>5 DEF Follow, z
    <3>2. Joins(v, Received(server, i), Received(e, i))
      BY <1>7
    <3> HIDE DEF v, w
    <3> QED BY <2>4, <3>1, <3>2, JoinsJoined
  <2>6. AudioOf(i, sending' \o MessagesIn(outbound')) = w
    BY <1>1 DEF x, z
  <2> HIDE DEF v, w
  <2> QED BY <1>1, <1>2, <2>5, <2>6 DEF Follow
<1> QED BY <1>1, <1>2, <1>3, <1>7, <1>8 DEF VInv, Muted, Known, Sayings

LEMMA WriterFollows ==
  ASSUME VInv, Writer
  PROVE  VInv'
<1>1. CASE WriterGets
  BY <1>1, GetFollows
<1>2. CASE WriterSends
  <2>1. /\ UNCHANGED <<ingress, batches, shutting_down, outbound>>
        /\ IF Accepts(server, Head(sending)) THEN UNCHANGED <<core, connection>>
           ELSE RequestClose
    BY <1>2 DEF WriterSends, ingressVars
  <2>2. CASE Accepts(server, Head(sending)) /\ connection = "ready" /\ ~ shutting_down
    BY <1>2, <2>2, SendFollows
  <2>3. CASE Accepts(server, Head(sending)) /\ (connection # "ready" \/ shutting_down)
    BY <2>1, <2>3 DEF VInv, Muted, Idle
  <2>4. CASE ~ Accepts(server, Head(sending))
    BY <2>1, <2>4, VEnds, RequestEnds
  <2> QED BY <2>2, <2>3, <2>4
<1> QED BY <1>1, <1>2 DEF Writer

-----------------------------------------------------------------------------
(* What the server says.                                                   *)

(* A discarded queue of the core says no more than it did, and nothing of  *)
(* the input; and neither does the queue of the ingress, when all it has   *)
(* of the input lies beyond what was accepted.                             *)
LEMMA LabelledHolds ==
  ASSUME NEW bs, Labelled(bs)
  PROVE  \E M : Holds(bs, M)
<1> DEFINE M == UNION {Range(b.messages) : b \in Range(bs)}
<1>1. ASSUME NEW b \in Range(bs) PROVE b.messages \in Seq(M)
  <2>1. b.messages \in Seq(Range(b.messages)) /\ Range(b.messages) \subseteq M
    BY DEF Labelled, IsLabelled
  <2> HIDE DEF M
  <2> QED BY <2>1, SeqMonotonic
<1>2. Holds(bs, M)
  BY <1>1 DEF Labelled, Holds
<1> QED BY <1>2

LEMMA CoreDiscards ==
  ASSUME Labelled(outbound), NEW m, DiscardQueued(m)
  PROVE  /\ Labelled(outbound') /\ Silent(outbound', m.input_id)
         /\ \A i : Silent(outbound, i) => Silent(outbound', i)
         /\ Holds(outbound, Uttered) =>
              /\ Holds(outbound', Uttered)
              /\ \A i : i # m.input_id => Alike(outbound, outbound', i)
<1> DEFINE j == m.input_id
           rest == Only({b \in Range(outbound) : b.lane = "data" => b.input_id # j}, outbound)
<1>1. outbound' = rest
  BY DEF DiscardQueued
<1> HIDE DEF j
<1>2. ASSUME NEW M, Holds(outbound, M)
      PROVE  /\ Rest(outbound, rest, M) /\ Silent(rest, j)
             /\ \A i : i # j => Alike(outbound, rest, i)
  BY <1>2, WithoutInput
<1> HIDE DEF rest
<1>3. PICK M : Holds(outbound, M)
  BY LabelledHolds
<1>4. /\ Labelled(rest) /\ Silent(rest, j)
      /\ \A i : Silent(outbound, i) => Silent(rest, i)
  BY <1>2, <1>3 DEF Rest
<1>5. Holds(outbound, Uttered) =>
        Holds(rest, Uttered) /\ \A i : i # j => Alike(outbound, rest, i)
  BY <1>2 DEF Rest
<1> QED BY <1>1, <1>4, <1>5 DEF j

LEMMA IngressDiscards ==
  ASSUME Labelled(batches), IsQueue(batches), NEW m, DiscardInputAudio(m)
  PROVE  /\ Labelled(batches')
         /\ Overtaken(batches, m) => Silent(batches', m.input_id)
         /\ \A i : Silent(batches, i) => Silent(batches', i)
         /\ Holds(batches, Uttered) =>
              /\ Holds(batches', Uttered)
              /\ \A i : i # m.input_id => Alike(batches, batches', i)
<1> DEFINE j == m.input_id
           rest == WithoutClosedAudio(batches, m)
<1>1. batches' = rest
  BY DEF DiscardInputAudio
<1>2. ASSUME NEW M, Holds(batches, M)
      PROVE  /\ Rest(batches, rest, M)
             /\ Overtaken(batches, m) => Silent(rest, j)
             /\ \A i : i # j => Alike(batches, rest, i)
  BY <1>2, WithoutClosed
<1> HIDE DEF rest, j
<1>3. PICK M : Holds(batches, M)
  BY LabelledHolds
<1>4. /\ Labelled(rest)
      /\ Overtaken(batches, m) => Silent(rest, j)
      /\ \A i : Silent(batches, i) => Silent(rest, i)
  BY <1>2, <1>3 DEF Rest
<1>5. Holds(batches, Uttered) =>
        Holds(rest, Uttered) /\ \A i : i # j => Alike(batches, rest, i)
  BY <1>2 DEF Rest
<1> QED BY <1>1, <1>4, <1>5 DEF j

(* The ingress queues only what lies beyond what the core has.             *)
LEMMA CloseOvertakes ==
  ASSUME Known, Sayings, Muted, \A i \in Ids : Follow(i),
         NEW m \in AnyInputCloses, NEW e, Heard(core, m, e)
  PROVE  Overtaken(batches, m)
<1> DEFINE j == m.input_id
<1>1. j \in Ids /\ m.accepted_end_frame \in Nat /\ m.type = "input.closed"
  BY DEF AnyInputCloses
<1> HIDE DEF j
<1> SUFFICES ASSUME NEW b \in Range(batches), NEW x \in Range(b.messages), IsOf(j, x)
             PROVE  ~ (x.start_frame < m.accepted_end_frame)
  BY DEF Overtaken, j
<1>2. ~ IsClosed(ingress, j)
  BY <1>1 DEF Muted, Silent, SaysNothing
<1>3. ~ IsClosed(core, j)
  BY <1>1, <1>2 DEF Follow
<1>4. m.accepted_end_frame <= Received(core, j)
  <2>1. IsClosed(e, j) /\ Shuts(core, m, e, j)
    BY <1>1 DEF Heard, j
  <2> QED BY <1>3, <2>1 DEF Shuts
<1>5. Received(core, j) \in Nat
  <2>1. core.inputs[j] \in Inputs
    BY <1>1, Parts DEF Known, Sane, Good
  <2> QED BY <2>1 DEF Received, Inputs
<1> DEFINE q == MessagesIn(batches)
           w == AudioOf(j, q)
<1>6. Joins(w, Received(core, j), Received(ingress, j))
  BY <1>1, <1>2 DEF Follow
<1>7. q \in Seq(Uttered) /\ x \in Range(q)
  <2>1. Holds(batches, Uttered)
    BY DEF Sayings
  <2>2. q \in Seq(Uttered)
    BY <2>1, HeldMessages DEF Holds
  <2>3. x \in Range(q)
    BY <2>1, MessageOfQueue
  <2> QED BY <2>2, <2>3
<1> HIDE DEF q
<1>8. x \in Range(w) /\ w \in Seq(AnyInputAudios)
  <2>1. Range(w) = {y \in Range(q) : IsOf(j, y)}
    BY <1>7, AudioRange
  <2> QED BY <1>7, <2>1, UtteredAudio
<1> HIDE DEF w
<1>9. x.start_frame >= Received(core, j)
  BY <1>5, <1>6, <1>8, JoinsOnwards
<1>10. x.start_frame \in Nat
  <2>1. x \in AnyInputAudios
    BY <1>8, InRange
  <2> QED BY <2>1 DEF AnyInputAudios
<1> QED BY <1>1, <1>4, <1>5, <1>9, <1>10

LEMMA HearingFollows ==
  ASSUME VInv, IsQueue(batches), ReceiveAccepted
  PROVE  VInv'
<1>1. PICK m \in Sayable :
        /\ connection = "ready" /\ Accepts(core, m) /\ Accepts(ingress, m)
        /\ server' = After(server, m) /\ core' = After(core, m) /\ ingress' = After(ingress, m)
        /\ IF m.type = "input.closed" THEN DiscardInputAudio(m) /\ DiscardQueued(m)
           ELSE UNCHANGED <<batches, occupancy, outbound>>
        /\ UNCHANGED <<shutting_down, sending, connection>>
  BY DEF ReceiveAccepted
<1>2. m \in Replied /\ Accepts(server, m)
  BY SaidIsReplied DEF Sayable
<1>3. /\ m.type \notin {"input.audio", "input.start"}
      /\ m.type = "input.closed" => m \in AnyInputCloses /\ m.input_id \in Ids
  BY <1>2, RepliedTypes DEF Replied, AnyInputCloses
<1>4. Heard(ingress, m, ingress')
  BY <1>1, <1>2, RepliedHeard, ClientAssumption DEF VInv
<1>5. Known => Heard(core, m, core') /\ Heard(server, m, server')
  BY <1>1, <1>2, RepliedHeard, ClientAssumption DEF Known
<1>6. Muted
  BY DEF VInv
<1>7. m.type = "input.closed" => Overtaken(batches, m)
  <2>1. CASE shutting_down
    <3>1. batches = <<>>
      BY <1>1, <2>1 DEF VInv, Idle
    <3> QED BY <3>1 DEF Overtaken, Range
  <2>2. CASE ~ shutting_down
    BY <1>1, <1>3, <1>5, <1>6, <2>2, CloseOvertakes DEF VInv
  <2> QED BY <2>1, <2>2
<1>8. Muted'
  <2>1. CASE m.type = "input.closed"
    <3>1. /\ Labelled(batches') /\ Silent(batches', m.input_id)
          /\ \A i : Silent(batches, i) => Silent(batches', i)
      BY <1>1, <1>6, <1>7, <2>1, IngressDiscards DEF Muted
    <3>2. /\ Labelled(outbound') /\ Silent(outbound', m.input_id)
          /\ \A i : Silent(outbound, i) => Silent(outbound', i)
      BY <1>1, <1>6, <2>1, CoreDiscards DEF Muted
    <3>3. \A i \in Ids : IsClosed(ingress', i) => IsClosed(ingress, i) \/ i = m.input_id
      BY <1>4 DEF Heard, Shuts
    <3> QED BY <1>6, <3>1, <3>2, <3>3 DEF Muted
  <2>2. CASE m.type # "input.closed"
    <3>1. \A i \in Ids : IsClosed(ingress', i) => IsClosed(ingress, i)
      BY <1>4, <2>2 DEF Heard, Shuts
    <3> QED BY <1>1, <1>6, <2>2, <3>1 DEF Muted
  <2> QED BY <2>1, <2>2
<1>9. CASE shutting_down
  <2>1. Idle
    BY <1>1, <1>9 DEF VInv
  <2>2. batches' = <<>>
    <3>1. m.type = "input.closed" => batches' = WithoutClosedAudio(batches, m)
      BY <1>1 DEF DiscardInputAudio
    <3> QED BY <1>1, <2>1, <3>1, NothingToDiscard DEF Idle
  <2>3. OpenInputId(ingress') = 0
    BY <1>3, <1>4, <2>1 DEF Idle, Heard
  <2>4. Idle'
    BY <2>2, <2>3 DEF Idle, OpenInputId
  <2> QED BY <1>1, <1>4, <1>8, <1>9, <2>4 DEF VInv, Heard
<1>10. CASE ~ shutting_down
  <2>1. Known /\ Sayings /\ \A i \in Ids : Follow(i)
    BY <1>1, <1>10 DEF VInv
  <2>2. Heard(core, m, core') /\ Heard(server, m, server')
    BY <1>5, <2>1
  <2>3. /\ Holds(outbound', Uttered) /\ Holds(batches', Uttered)
        /\ \A i : (m.type = "input.closed" => i # m.input_id) =>
             Alike(outbound, outbound', i) /\ Alike(batches, batches', i)
    <3>1. CASE m.type = "input.closed"
      BY <1>1, <1>6, <2>1, <3>1, IngressDiscards, CoreDiscards DEF Muted, Sayings
    <3>2. CASE m.type # "input.closed"
      BY <1>1, <2>1, <3>2 DEF Sayings, Alike
    <3> QED BY <3>1, <3>2
  <2>4. ASSUME NEW i \in Ids PROVE Follow(i)'
    <3>1. IsClosed(core', i) => IsClosed(ingress', i)
      <4>1. Shuts(core, m, core', i) /\ Shuts(ingress, m, ingress', i)
        BY <1>4, <2>2 DEF Heard
      <4>2. m.type = "input.closed" => IsClosed(ingress', m.input_id)
        BY <1>4 DEF Heard
      <4> QED BY <2>1, <4>1, <4>2 DEF Shuts, Follow
    <3>2. ASSUME ~ IsClosed(ingress', i)
          PROVE  /\ ~ IsClosed(ingress, i)
                 /\ Alike(outbound, outbound', i) /\ Alike(batches, batches', i)
      <4>1. ~ IsClosed(ingress, i)
        BY <1>4, <3>2 DEF Heard, Shuts
      <4>2. m.type = "input.closed" => i # m.input_id
        BY <1>4, <3>2 DEF Heard
      <4> QED BY <2>3, <4>1, <4>2
    <3>3. /\ Received(core', i) = Received(core, i)
          /\ Received(server', i) = Received(server, i)
          /\ Received(ingress', i) = Received(ingress, i)
      BY <1>3, <1>4, <2>2 DEF Heard, Extends, IsOf
    <3>4. AudioOf(i, sending' \o MessagesIn(outbound'))
            = AudioOf(i, sending) \o AudioOf(i, MessagesIn(outbound'))
      <4>1. MessagesIn(outbound') \in Seq(Uttered)
        BY <2>3, HeldMessages DEF Holds
      <4> QED BY <1>1, <2>1, <4>1, AudioOfConcat DEF Sayings
    <3>5. AudioOf(i, sending \o MessagesIn(outbound))
            = AudioOf(i, sending) \o AudioOf(i, MessagesIn(outbound))
      <4>1. MessagesIn(outbound) \in Seq(Uttered)
        BY <2>1, HeldMessages DEF Holds, Sayings
      <4> QED BY <2>1, <4>1, AudioOfConcat DEF Sayings
    <3>6. ASSUME ~ IsClosed(ingress', i)
          PROVE  /\ Joins(AudioOf(i, sending' \o MessagesIn(outbound')),
                          Received(server', i), Received(core', i))
                 /\ Joins(AudioOf(i, MessagesIn(batches')),
                          Received(core', i), Received(ingress', i))
      <4>1. /\ Joins(AudioOf(i, sending \o MessagesIn(outbound)),
                     Received(server, i), Received(core, i))
            /\ Joins(AudioOf(i, MessagesIn(batches)), Received(core, i), Received(ingress, i))
        BY <2>1, <3>2, <3>6 DEF Follow
      <4>2. /\ AudioOf(i, MessagesIn(outbound')) = AudioOf(i, MessagesIn(outbound))
            /\ AudioOf(i, MessagesIn(batches')) = AudioOf(i, MessagesIn(batches))
        BY <3>2, <3>6 DEF Alike
      <4>3. AudioOf(i, sending' \o MessagesIn(outbound'))
              = AudioOf(i, sending \o MessagesIn(outbound))
        BY <3>4, <3>5, <4>2
      <4> QED BY <3>3, <4>1, <4>2, <4>3
    <3> QED BY <3>1, <3>6 DEF Follow
  <2>5. Known' /\ Sane(ingress')
    BY <1>4, <2>2 DEF Known, Heard
  <2>6. Sayings'
    BY <1>1, <2>1, <2>3 DEF Sayings
  <2> QED BY <1>1, <1>8, <1>10, <2>4, <2>5, <2>6 DEF VInv
<1> QED BY <1>9, <1>10

-----------------------------------------------------------------------------
(* The end of the connection.                                              *)

LEMMA ClosingStays ==
  ASSUME NEW d, Sane(d)
  PROVE  LET e == ClosingData(d) IN
         /\ Sane(e) /\ OpenInputId(e) = OpenInputId(d)
         /\ \A i : IsClosed(e, i) <=> IsClosed(d, i)
<1> DEFINE e == [d EXCEPT !.connection_state = "closing"]
<1>1. d \in Data /\ Good(d)
  BY DEF Sane, Good
<1>2. e \in Data /\ e.connection_state = "closing"
  BY <1>1 DEF Data, ConnectionState
<1>3. /\ e.inputs = d.inputs /\ e.responses = d.responses /\ e.conversation = d.conversation
      /\ e.input_ids = d.input_ids /\ e.response_ids = d.response_ids
      /\ e.conversation_ids = d.conversation_ids
      /\ e.ended_conversations = d.ended_conversations
      /\ e.cancelled_conversations = d.cancelled_conversations
  BY <1>1 DEF Data
<1>4. ClosingData(d) = e \/ ClosingData(d) = d
  BY DEF ClosingData
<1> HIDE DEF e
<1>5. Good(e)
  BY <1>1, <1>2, <1>3, TurnsFrame
<1>6. Sane(e)
  BY <1>2, <1>3, <1>5 DEF Sane, Fate, Fresh
<1> QED BY <1>3, <1>4, <1>6 DEF OpenInputId, IsClosed

(* An output of a cancelled conversation is interrupted for the record.    *)
LEMMA InterruptHeard ==
  ASSUME NEW d, Sane(d), d.conversation.cancel # "none", NEW m,
         m.type = "playback.interrupted", m.response_id \in Ids, PlaybackOf(m) \in Playbacks,
         Accepts(d, m)
  PROVE  Heard(d, m, After(d, m))
<1> DEFINE e == AfterPlaybackOutcome(d, m)
<1>1. d \in Data /\ Good(d) /\ d.connection_state = "ready"
  BY AcceptedIsHandled
<1>2. After(d, m) = e
  BY <1>1 DEF After
<1>3. Quiet(d, e)
  BY <1>1, PlaybackIsQuiet, ClientAssumption
<1>4. Good(e)
  <2>1. CASE d.responses[m.response_id].playback # NoPlayback
    BY <1>1, <2>1 DEF AfterPlaybackOutcome
  <2>2. CASE d.responses[m.response_id].playback = NoPlayback
    <3>1. e = Interrupted(d, m)
      BY <2>2 DEF AfterPlaybackOutcome, AccountingOnly
    <3> QED BY <1>1, <2>2, <3>1, InterruptedGood
  <2> QED BY <2>1, <2>2
<1> HIDE DEF e
<1> QED BY <1>2, <1>3, <1>4, QuietHeard

(* What prepare_shutdown says: it ends the open input.                     *)
LastWordsOf(last) ==
  /\ last \in Seq(Range(last))
  /\ \A m \in Range(last) : m.type # "input.audio"

LEMMA CancelsConversation ==
  ASSUME NEW d, Sane(d), d.connection_state = "ready",
         NEW m \in AnyConversationCancels, Live(d, m.conversation_id)
  PROVE  /\ Accepts(d, m) /\ Heard(d, m, After(d, m))
         /\ OpenInputId(After(d, m)) = 0 /\ After(d, m).conversation.cancel # "none"
<1>1. m.type = "conversation.cancel" /\ m.conversation_id \in Ids
  BY DEF AnyConversationCancels
<1>2. CanCancelConversation(d, m)
  BY <1>1, NoneIds DEF CanCancelConversation, Live, Open, Sane, Fate
<1>3. Accepts(d, m) /\ After(d, m) = AfterCancelConversation(d, m)
  BY <1>1, <1>2 DEF Accepts, CanHandle, After
<1> QED BY <1>2, <1>3, CancelConversationHeard

LEMMA ShutdownEnds ==
  ASSUME Sane(ingress), ShutdownMessages # <<>>
  PROVE  LET last == ShutdownMessages
             e == AfterAll(ingress, last)
         IN
         /\ LastWordsOf(last) /\ Sane(e) /\ OpenInputId(e) = 0
         /\ \A i \in Ids : IsClosed(e, i) => IsClosed(ingress, i)
<1> DEFINE c == ingress.conversation
           r == ingress.responses[c.response_id]
           last == ShutdownMessages
           cancel == [type |-> "conversation.cancel", conversation_id |-> c.id,
                      reason |-> "shutdown"]
           interrupt == [type |-> "playback.interrupted", conversation_id |-> c.id,
                         response_id |-> c.response_id, output_id |-> r.output.id,
                         played_frames |-> 0, reason |-> "shutdown"]
           d == After(ingress, cancel)
           S == {cancel, interrupt}
<1>1. /\ ingress.connection_state = "ready" /\ c.id # 0 /\ Live(ingress, c.id)
      /\ \/ last = <<cancel>>
         \/ last = <<cancel, interrupt>> /\ c.response_id # 0
  <2>1. last =
          IF ingress.connection_state # "ready" \/ c.id = 0 \/ ~ Live(ingress, c.id) THEN <<>>
          ELSE IF c.response_id # 0 /\ HasOutput(r) /\ r.playback = NoPlayback
               THEN <<cancel, interrupt>> ELSE <<cancel>>
    BY Zenon DEF ShutdownMessages
  <2>2. last # <<>>
    OBVIOUS
  <2> HIDE DEF last, cancel, interrupt, r
  <2> QED BY <2>1, <2>2
<1>2. c.id \in Ids /\ (c.response_id # 0 => c.response_id \in Ids)
  <2>1. c \in Conversations
    BY Parts DEF Sane, Good
  <2> QED BY <1>1, <2>1, NoneIds DEF Conversations
<1>3. cancel \in AnyConversationCancels
  BY <1>2 DEF AnyConversationCancels, ConversationCancelReason
<1>4. PlaybackOf(interrupt) \in Playbacks /\ interrupt.type = "playback.interrupted"
  BY DEF PlaybackOf, Playbacks, PlaybackInterruptReason
<1>5. cancel.type = "conversation.cancel"
  OBVIOUS
<1>6. interrupt.response_id = c.response_id /\ cancel.conversation_id = c.id
  OBVIOUS
<1> HIDE DEF cancel, interrupt, r, last
<1>7. /\ Accepts(ingress, cancel) /\ Heard(ingress, cancel, d)
      /\ OpenInputId(d) = 0 /\ d.conversation.cancel # "none"
  BY <1>1, <1>3, <1>6, CancelsConversation
<1> HIDE DEF d
<1>8. AfterAll(ingress, <<cancel>>) = d /\ AcceptsAll(ingress, <<cancel>>)
  <2>1. cancel \in Uttered
    BY <1>3 DEF Uttered
  <2> QED BY <1>7, <2>1, OneMessage DEF d
<1>9. ASSUME NEW e, e \in {d, After(d, interrupt)},
             e # d => Accepts(d, interrupt) /\ c.response_id # 0
      PROVE  /\ Sane(e) /\ OpenInputId(e) = 0
             /\ \A i \in Ids : IsClosed(e, i) => IsClosed(ingress, i)
  <2>1. /\ Sane(d) /\ \A i \in Ids : IsClosed(d, i) => IsClosed(ingress, i)
    BY <1>5, <1>7 DEF Heard, Shuts
  <2>2. CASE e = d
    BY <1>7, <2>1, <2>2
  <2>3. CASE e # d
    <3>1. Heard(d, interrupt, e)
      BY <1>2, <1>4, <1>6, <1>7, <1>9, <2>1, <2>3, InterruptHeard
    <3> QED BY <1>4, <1>7, <2>1, <3>1 DEF Heard, Shuts
  <2> QED BY <2>2, <2>3
<1>10. /\ <<cancel>> \in Seq(S) /\ interrupt \in S
       /\ <<cancel, interrupt>> = Append(<<cancel>>, interrupt)
       /\ last \in Seq(S)
  <2>1. cancel \in S /\ interrupt \in S
    OBVIOUS
  <2>2. <<cancel>> \in Seq(S) /\ <<cancel, interrupt>> \in Seq(S)
    <3> HIDE DEF S
    <3> QED BY <2>1
  <2>3. <<cancel, interrupt>> = Append(<<cancel>>, interrupt)
    OBVIOUS
  <2> HIDE DEF S
  <2> QED BY <1>1, <2>1, <2>2, <2>3
<1>11. LastWordsOf(last)
  <2>1. last \in Seq(Range(last)) /\ Range(last) \subseteq S
    BY <1>10, InRange
  <2>2. \A m \in S : m.type # "input.audio"
    BY <1>4, <1>5
  <2> QED BY <2>1, <2>2 DEF LastWordsOf
<1>12. CASE last = <<cancel>>
  BY <1>8, <1>9, <1>11, <1>12 DEF last
<1>13. CASE last = <<cancel, interrupt>> /\ c.response_id # 0
  <2> DEFINE e == AfterAll(ingress, last)
             q == <<cancel>>
  <2>1. last = Append(q, interrupt) /\ q \in Seq(S) /\ interrupt \in S
    BY <1>10, <1>13
  <2>2. AfterAll(ingress, q) = d
    BY <1>8
  <2> HIDE DEF q, S
  <2>3. e \in {d, After(d, interrupt)} /\ (e # d => Accepts(d, interrupt))
    BY <2>1, <2>2, AppendedRun
  <2> HIDE DEF e
  <2>4. Sane(e) /\ OpenInputId(e) = 0 /\ \A i \in Ids : IsClosed(e, i) => IsClosed(ingress, i)
    BY <1>9, <1>13, <2>3
  <2> QED BY <1>11, <2>4 DEF e, last
<1> QED BY <1>1, <1>12, <1>13

LEMMA EmptyIsLabelled ==
  /\ Labelled(<<>>) /\ \A i : Silent(<<>>, i)
  /\ Holds(<<>>, Uttered) /\ MessagesIn(<<>>) = <<>>
<1> DEFINE U == Uttered
           S == {}
           one == Batch(<<>>, "control", 0, 0)
<1>1. Range(<<>>) = {} /\ <<>> \in Seq(Range(<<>>))
  BY DEF Range
<1>2. Labelled(<<>>) /\ \A i : Silent(<<>>, i)
  BY <1>1 DEF Labelled, Silent
<1>3. Holds(<<>>, Uttered)
  BY <1>1 DEF Holds
<1>4. MessagesIn(<<>>) = FlattenSeq(<<>>)
  <2>1. [k \in DOMAIN <<>> |-> <<>>[k].messages] = <<>>
    OBVIOUS
  <2> QED BY <2>1, Zenon DEF MessagesIn
<1>5. FlattenSeq(<<>>) = <<>>
  BY FlatOfNone
<1> QED BY <1>2, <1>3, <1>4, <1>5

LEMMA LastWordsAreSilent ==
  ASSUME NEW last, LastWordsOf(last)
  PROVE  LET bs == <<Batch(last, "control", 0, 0)>> IN
         Labelled(bs) /\ \A i : Silent(bs, i)
<1> DEFINE b == Batch(last, "control", 0, 0)
<1>1. b.messages = last /\ b.lane = "control"
  BY DEF Batch
<1> HIDE DEF b
<1>2. IsLabelled(b) /\ \A i : SaysNothing(b, i)
  BY <1>1 DEF IsLabelled, LastWordsOf, SaysNothing, IsOf
<1>3. Append(<<>>, b) = <<b>>
  OBVIOUS
<1>4. Labelled(<<b>>) /\ \A i : Silent(<<b>>, i)
  BY <1>2, <1>3, EmptyIsLabelled, LabelledAppended
<1> QED BY <1>4 DEF b

LEMMA CloseFollows ==
  ASSUME VInv, Close
  PROVE  VInv'
<1> DEFINE last == ShutdownMessages
           e == AfterAll(ingress, last)
<1>1. CASE connection # "ready"
  BY <1>1, VStands DEF Close, ingressVars, coreVars
<1>2. CASE connection = "ready" /\ last = <<>>
  <2>1. /\ connection' = "closing" /\ ingress' = ClosingData(ingress)
        /\ UNCHANGED <<batches, outbound>>
    BY <1>2 DEF Close, RequestClose
  <2>2. Sane(ingress') /\ \A i : IsClosed(ingress', i) <=> IsClosed(ingress, i)
    BY <2>1, ClosingStays DEF VInv
  <2>3. Muted'
    BY <2>1, <2>2 DEF VInv, Muted
  <2> QED BY <2>1, <2>2, <2>3 DEF VInv
<1>3. CASE connection = "ready" /\ last # <<>>
  <2>1. /\ shutting_down' /\ ingress' = e /\ batches' = <<>>
        /\ \/ outbound' = <<Batch(last, "control", 0, 0)>>
           \/ outbound' = outbound
    BY <1>3 DEF Close, coreVars
  <2>2. /\ LastWordsOf(last) /\ Sane(e) /\ OpenInputId(e) = 0
        /\ \A i \in Ids : IsClosed(e, i) => IsClosed(ingress, i)
    BY <1>3, ShutdownEnds DEF VInv
  <2>3. Labelled(batches') /\ \A i : Silent(batches', i)
    BY <2>1, EmptyIsLabelled
  <2> HIDE DEF last, e
  <2>4. Labelled(outbound') /\ \A i : Silent(outbound, i) => Silent(outbound', i)
    BY <2>1, <2>2, LastWordsAreSilent DEF VInv, Muted
  <2>5. Muted'
    BY <2>1, <2>2, <2>3, <2>4 DEF VInv, Muted
  <2>6. Idle'
    BY <2>1, <2>2 DEF Idle
  <2> QED BY <2>1, <2>2, <2>5, <2>6 DEF VInv
<1> QED BY <1>1, <1>2, <1>3

LEMMA GoesOnFollows ==
  ASSUME VInv, CloseGoesOn
  PROVE  VInv'
<1>1. connection' # "ready" /\ ingress' = ClosingData(ingress) /\ UNCHANGED <<batches, outbound>>
  BY RequestEnds DEF CloseGoesOn, CloseCore
<1>2. Sane(ingress') /\ \A i : IsClosed(ingress', i) <=> IsClosed(ingress, i)
  BY <1>1, ClosingStays DEF VInv
<1>3. Muted'
  BY <1>1, <1>2 DEF VInv, Muted
<1> QED BY <1>1, <1>2, <1>3 DEF VInv

(* A fresh validator knows no input.                                       *)
LEMMA NewDataKnowsNothing ==
  ASSUME NEW s \in ConnectionState
  PROVE  LET d == NewData(s) IN
         /\ Good(d) /\ Fate(d) /\ Fresh(d) /\ d.connection_state = s
         /\ d.client_hello = {} /\ d.server_hello = "none"
         /\ \A i \in Ids : ~ IsClosed(d, i) /\ Received(d, i) = 0
<1> DEFINE d == NewData(s)
<1>1. Good(d) /\ d.inputs = [i \in Ids |-> NoInput] /\ d.conversation = NoConversation
  BY NewDataGood, NewDataParts
<1>2. /\ d.connection_state = s /\ d.client_hello = {} /\ d.server_hello = "none"
      /\ d.ended_conversations = [c \in Ids |-> "none"]
      /\ d.cancelled_conversations = [c \in Ids |-> "none"]
  BY DEF NewData
<1> HIDE DEF d
<1>3. /\ NoInput.received = 0 /\ NoInput.terminal = NoTerminal /\ NoTerminal.kind # "closed"
      /\ NoConversation.id = 0
  BY DEF NoInput, NoTerminal, NoConversation
<1>4. Fate(d) /\ Fresh(d)
  BY <1>1, <1>2, <1>3 DEF Fate, Fresh
<1>5. \A i \in Ids : ~ IsClosed(d, i) /\ Received(d, i) = 0
  BY <1>1, <1>3 DEF IsClosed, Received
<1> QED BY <1>1, <1>2, <1>4, <1>5 DEF d

LEMMA EndsFollow ==
  ASSUME VInv, ConnectionEnds
  PROVE  VInv'
<1>1. /\ connection' = "closed" /\ ingress' = NewData("disconnected")
      /\ batches' = <<>> /\ outbound' = <<>>
  BY DEF ConnectionEnds
<1>2. Sane(ingress') /\ \A i \in Ids : ~ IsClosed(ingress', i)
  BY <1>1, NewDataKnowsNothing DEF ConnectionState, Sane
<1>3. Muted'
  BY <1>1, <1>2, EmptyIsLabelled DEF Muted
<1> QED BY <1>1, <1>2, <1>3 DEF VInv

LEMMA NextFollows ==
  ASSUME IInv, VInv, [Next]_vars
  PROVE  VInv'
<1>1. IsQueue(batches) /\ IsPreRoll(pre_roll)
  BY DEF IInv, QueueCounted
<1>2. CASE Threads
  <2>1. CASE Submit
    BY <1>1, <2>1, SubmitFollows
  <2>2. CASE AbortInput \/ CancelConversation \/ ReportPlayback
    BY <2>2, CallFollows
  <2>3. CASE Deliver
    BY <2>3, VStands DEF Deliver, coreVars
  <2> QED BY <1>2, <2>1, <2>2, <2>3 DEF Threads
<1>3. CASE Handoff
  BY <1>3, HandoffFollows
<1>4. CASE Writer
  BY <1>4, WriterFollows
<1>5. CASE ReceiveRejected
  <2>1. connection' # "ready" /\ UNCHANGED <<ingress, batches, outbound>>
    BY <1>5 DEF ReceiveRejected, ingressVars
  <2> QED BY <2>1, VEnds
<1>6. CASE ReceiveAccepted
  BY <1>1, <1>6, HearingFollows
<1>7. CASE LoseConnection
  BY <1>7, RequestEnds, VEnds DEF LoseConnection, ingressVars
<1>8. CASE ConnectionEnds
  BY <1>8, EndsFollow
<1>9. CASE Closing
  <2>1. CASE Close
    BY <2>1, CloseFollows
  <2>2. CASE CloseGoesOn
    BY <2>2, GoesOnFollows
  <2>3. CASE CloseReturns
    BY <2>3, VStands DEF CloseReturns, ingressVars, coreVars
  <2> QED BY <1>9, <2>1, <2>2, <2>3 DEF Closing
<1>10. CASE UNCHANGED vars
  BY <1>10, VStands DEF vars, ingressVars, coreVars
<1> QED BY <1>2, <1>3, <1>4, <1>5, <1>6, <1>7, <1>8, <1>9, <1>10 DEF Next

(* The hellos make it ready.                                               *)
LEMMA HelloStep ==
  ASSUME NEW d, Good(d), Fate(d), Fresh(d), d.connection_state = "handshaking",
         NEW m \in ClientHellos \cup ServerHellos, CanAcceptHello(d, m)
  PROVE  LET e == After(d, m) IN
         /\ Accepts(d, m) /\ Good(e) /\ Fate(e) /\ Fresh(e) /\ e.inputs = d.inputs
         /\ m.type = "client.hello" =>
              /\ e.connection_state = "handshaking"
              /\ e.client_hello = m.output_formats /\ e.server_hello = d.server_hello
         /\ m.type = "server.hello" => e.connection_state = "ready"
<1> DEFINE e == AfterHello(d, m)
<1>1. Accepts(d, m) /\ After(d, m) = e
  BY DEF Accepts, After
<1>2. Good(e)
  BY HelloGood
<1>3. m.type \in {"client.hello", "server.hello"}
  BY DEF ClientHellos, ServerHellos
<1>4. /\ e.inputs = d.inputs /\ e.conversation = d.conversation
      /\ e.conversation_ids = d.conversation_ids
      /\ e.ended_conversations = d.ended_conversations
      /\ e.cancelled_conversations = d.cancelled_conversations
      /\ m.type = "client.hello" =>
           /\ e.connection_state = "handshaking"
           /\ e.client_hello = m.output_formats /\ e.server_hello = d.server_hello
      /\ m.type = "server.hello" => e.connection_state = "ready"
  <2>1. d \in Data
    BY DEF Good
  <2>2. CASE m.type = "client.hello"
    BY <2>1, <2>2 DEF AfterHello, Data
  <2>3. CASE m.type = "server.hello"
    BY <2>1, <2>3 DEF AfterHello, Data
  <2> QED BY <1>3, <2>2, <2>3
<1> HIDE DEF e
<1>5. Fate(e) /\ Fresh(e)
  BY <1>4 DEF Fate, Fresh
<1> QED BY <1>1, <1>2, <1>4, <1>5

LEMMA HandshakenIs ==
  /\ Sane(Handshaken)
  /\ \A i \in Ids : ~ IsClosed(Handshaken, i) /\ Received(Handshaken, i) = 0
<1> DEFINE format == CHOOSE f \in Formats : TRUE
           hello == [type |-> "client.hello", output_formats |-> Formats]
           answer == [type |-> "server.hello", output_format |-> format]
           S == {hello, answer}
           one == <<hello>>
           two == <<hello, answer>>
           d == NewData("handshaking")
           e == After(d, hello)
           g == After(e, answer)
<1>1. Formats # {} /\ format \in Formats
  <2>1. Formats # {}
    BY ClientAssumption
  <2> QED BY <2>1
<1>2. hello \in ClientHellos /\ answer \in ServerHellos
  <2>1. answer \in ServerHellos
    BY <1>1 DEF ServerHellos
  <2>2. Formats \in (SUBSET Formats) \ {{}}
    BY <1>1
  <2>3. hello \in ClientHellos
    BY <2>2, Zenon DEF ClientHellos
  <2> QED BY <2>1, <2>3
<1>3. /\ hello.type = "client.hello" /\ hello.output_formats = Formats
      /\ answer.type = "server.hello" /\ answer.output_format = format
  OBVIOUS
<1>4. hello \in S /\ answer \in S
  OBVIOUS
<1> HIDE DEF format, hello, answer, S
<1>5. <<>> \in Seq(S) /\ one = Append(<<>>, hello) /\ one \in Seq(S) /\ two = Append(one, answer)
  BY <1>4
<1>6. Handshaken = AfterAll(d, two)
  BY Zenon DEF Handshaken, hello, answer, format
<1> HIDE DEF one, two, d
<1>7. /\ Good(d) /\ Fate(d) /\ Fresh(d) /\ d.connection_state = "handshaking"
      /\ d.client_hello = {} /\ d.server_hello = "none"
      /\ \A i \in Ids : ~ IsClosed(d, i) /\ Received(d, i) = 0
  BY NewDataKnowsNothing DEF d, ConnectionState
<1>8. /\ Accepts(d, hello) /\ Good(e) /\ Fate(e) /\ Fresh(e) /\ e.inputs = d.inputs
      /\ e.connection_state = "handshaking" /\ e.client_hello = Formats
      /\ e.server_hello = "none"
  <2>1. CanAcceptHello(d, hello)
    BY <1>3, <1>7 DEF CanAcceptHello
  <2> QED BY <1>2, <1>3, <1>7, <2>1, HelloStep
<1> HIDE DEF e
<1>9. /\ Accepts(e, answer) /\ Good(g) /\ Fate(g) /\ Fresh(g) /\ g.inputs = e.inputs
      /\ g.connection_state = "ready"
  <2>1. CanAcceptHello(e, answer)
    BY <1>1, <1>3, <1>8 DEF CanAcceptHello
  <2> QED BY <1>2, <1>3, <1>8, <2>1, HelloStep
<1> HIDE DEF g
<1>10. Run(d, one) = [ok |-> TRUE, data |-> e]
  <2>1. Run(d, one) = RunStep(Started(d), hello)
    BY <1>4, <1>5, RunOfNone, RunOfAppend
  <2> QED BY <1>8, <2>1 DEF RunStep, Started, e
<1>11. Run(d, two) = [ok |-> TRUE, data |-> g]
  <2>1. Run(d, two) = RunStep(Run(d, one), answer)
    BY <1>4, <1>5, RunOfAppend
  <2> QED BY <1>9, <1>10, <2>1 DEF RunStep, g
<1>12. Handshaken = g
  BY <1>6, <1>11 DEF AfterAll
<1>13. g.inputs = d.inputs
  BY <1>8, <1>9
<1> QED BY <1>7, <1>9, <1>12, <1>13 DEF Sane, IsClosed, Received

LEMMA InitFollows == Init => VInv
<1> SUFFICES ASSUME Init PROVE VInv
  OBVIOUS
<1>1. /\ ingress = Handshaken /\ core = Handshaken /\ server = Handshaken
      /\ batches = <<>> /\ outbound = <<>> /\ sending = <<>>
  BY DEF Init
<1>2. ~ shutting_down
  BY DEF Init
<1>3. Muted
  BY <1>1, EmptyIsLabelled DEF Muted
<1>4. Known /\ Sane(ingress)
  BY <1>1, HandshakenIs DEF Known
<1>5. Sayings
  <2> DEFINE U == Uttered
  <2>1. <<>> \in Seq(U)
    OBVIOUS
  <2> QED BY <1>1, <2>1, EmptyIsLabelled DEF Sayings
<1>6. \A i \in Ids : Follow(i)
  <2>1. <<>> \o MessagesIn(<<>>) = <<>> /\ MessagesIn(<<>>) = <<>>
    BY EmptyIsLabelled
  <2>2. \A i \in Ids : AudioOf(i, <<>>) = <<>>
    BY AudioOfNone
  <2> QED BY <1>1, <2>1, <2>2, JoinsNothing, HandshakenIs DEF Follow
<1> QED BY <1>2, <1>3, <1>4, <1>5, <1>6 DEF VInv

-----------------------------------------------------------------------------
(* Theorems.                                                               *)

(* Every reachable state is counted and every input followed.              *)
LEMMA AlwaysFollows == Spec => [](IInv /\ VInv)
<1>1. Init => IInv /\ VInv
  BY Initially, InitFollows
<1>2. IInv /\ VInv /\ [Next]_vars => IInv' /\ VInv'
  BY NextKeeps, NextFollows
<1> QED BY <1>1, <1>2, PTL DEF Spec

(* Whatever the server said and whenever it was heard, no audio of an      *)
(* input whose close was received waits in either queue.                   *)
THEOREM ClosedStaysSilent == Spec => []ClosedInputIsSilent
<1>1. VInv => ClosedInputIsSilent
  <2> SUFFICES ASSUME VInv, NEW i \in Ids, IsClosed(ingress, i)
               PROVE  AudioOf(i, Unsent) = <<>>
    BY DEF ClosedInputIsSilent, IsClosed
  <2>1. /\ Labelled(outbound) /\ Silent(outbound, i)
        /\ Labelled(batches) /\ Silent(batches, i)
    BY DEF VInv, Muted
  <2> DEFINE both == outbound \o batches
             S == Range(outbound) \cup Range(batches)
  <2>2. both \in Seq(Range(both)) /\ Range(both) = S
    <3>1. outbound \in Seq(S) /\ batches \in Seq(S)
      <4> DEFINE A == Range(outbound)
                 B == Range(batches)
      <4>1. outbound \in Seq(A) /\ batches \in Seq(B)
        BY <2>1 DEF Labelled
      <4>2. A \subseteq S /\ B \subseteq S
        OBVIOUS
      <4> HIDE DEF A, B, S
      <4> QED BY <4>1, <4>2, SeqMonotonic
    <3>2. both \in Seq(S)
      <4> HIDE DEF S
      <4> QED BY <3>1
    <3>3. Range(both) = S
      BY <3>1, RangeConcatenation
    <3> HIDE DEF both, S
    <3> QED BY <3>2, <3>3
  <2>3. Labelled(both) /\ Silent(both, i)
    BY <2>1, <2>2 DEF Labelled, Silent
  <2> HIDE DEF both
  <2>4. AudioOf(i, MessagesIn(both)) = <<>>
    BY <2>3, SilentIsEmpty
  <2> QED BY <2>4 DEF Unsent, both
<1> QED BY <1>1, AlwaysFollows, PTL

(* The audio of the open input, from the server's position over the writer *)
(* and both queues to what the application was told, has no gap and no     *)
(* overlap, for any chunks, any bounds and any messages of the server.     *)
THEOREM NoGap == Spec => []Gapless
<1>1. VInv => Gapless
  <2> SUFFICES ASSUME VInv, connection = "ready", OpenInputId(ingress) # 0
               PROVE  LET i == OpenInputId(ingress) IN
                      Joins(AudioOf(i, sending \o Unsent),
                            Received(server, i), Received(ingress, i))
    BY DEF Gapless, Received
  <2> DEFINE i == OpenInputId(ingress)
             U == Uttered
             x == MessagesIn(outbound)
             y == MessagesIn(batches)
             near == sending \o x
  <2>1. i \in Ids /\ ~ IsClosed(ingress, i)
    BY OpenInputIs DEF VInv
  <2>2. Sayings /\ Follow(i)
    BY <2>1 DEF VInv, Idle
  <2>3. /\ x \in Seq(U) /\ y \in Seq(U) /\ sending \in Seq(U)
        /\ MessagesIn(outbound \o batches) = x \o y
    BY <2>2, HoldsJoined DEF Sayings
  <2>4. /\ Joins(AudioOf(i, near), Received(server, i), Received(core, i))
        /\ Joins(AudioOf(i, y), Received(core, i), Received(ingress, i))
    BY <2>1, <2>2 DEF Follow
  <2> HIDE DEF i, U, x, y
  <2>5. near \in Seq(U) /\ sending \o (x \o y) = near \o y
    BY <2>3
  <2> HIDE DEF near
  <2>6. AudioOf(i, near \o y) = AudioOf(i, near) \o AudioOf(i, y)
    BY <2>3, <2>5, AudioOfConcat
  <2>7. AudioOf(i, near) \in Seq(AnyInputAudios) /\ AudioOf(i, y) \in Seq(AnyInputAudios)
    BY <2>3, <2>5, UtteredAudio DEF U
  <2>8. Joins(AudioOf(i, near) \o AudioOf(i, y), Received(server, i), Received(ingress, i))
    BY <2>4, <2>7, JoinsJoined
  <2>9. sending \o Unsent = near \o y
    BY <2>3, <2>5 DEF Unsent
  <2> QED BY <2>6, <2>8, <2>9 DEF i
<1> QED BY <1>1, AlwaysFollows, PTL
=============================================================================
