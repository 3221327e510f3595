------------------------------- MODULE Queues -------------------------------
(***************************************************************************)
(* What both ends ask of the batches and events they hold: the total that  *)
(* an occupancy counter stands for, and what is left when some of them are *)
(* discarded, in order.  Recursive functions over a sequence, so that      *)
(* proofs can follow them element by element.                              *)
(***************************************************************************)
EXTENDS Integers, Sequences

SumOf(numbers) ==
  LET sum[k \in 0..Len(numbers)] == IF k = 0 THEN 0 ELSE sum[k - 1] + numbers[k]
  IN sum[Len(numbers)]

Only(elements, s) ==
  LET kept[k \in 0..Len(s)] ==
        IF k = 0 THEN <<>>
        ELSE IF s[k] \in elements THEN Append(kept[k - 1], s[k]) ELSE kept[k - 1]
  IN kept[Len(s)]
=============================================================================
