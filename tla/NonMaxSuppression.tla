-------------------------- MODULE NonMaxSuppression --------------------------
(***************************************************************************)
(* nonMaxSuppression: from scored bounding boxes, keep those that do not   *)
(* overlap too much with a better one, best first, and no more than        *)
(* maxBoxes of them.  Each step is one iteration of its loop; predictions  *)
(* are numbered from 1.                                                    *)
(***************************************************************************)
EXTENDS Integers, Sequences, FiniteSets

CONSTANTS
  Rects,           \* the bounding boxes: [minX, minY, width, height]
  Scores,          \* the scores a prediction can have
  Classes,         \* the class indices a prediction can have
  MaxPredictions,  \* bound: predictions in the array
  IouThreshold,    \* the fraction iouThreshold, as <<numerator, denominator>>
  MaxBoxes         \* maxBoxes

ASSUME SuppressionAssumption ==
  /\ Rects \subseteq [minX : Int, minY : Int, width : Nat, height : Nat]
  /\ Scores \subseteq Int
  /\ MaxPredictions \in Nat
  /\ IouThreshold \in Int \X (Nat \ {0})
  /\ MaxBoxes \in Int

VARIABLES
  predictions,    \* the array of NMSPredictions
  sortedIndices,  \* the indices looked at, sorted by score, from high to low
  i,              \* the loop's next position in sortedIndices
  selected        \* the indices kept so far

suppressionVars == <<predictions, sortedIndices, i, selected>>

Predictions == [classIndex : Classes, score : Scores, rect : Rects]

-----------------------------------------------------------------------------
Larger(m, n)  == IF m > n THEN m ELSE n
Smaller(m, n) == IF m < n THEN m ELSE n

(* The length two intervals have in common.                                *)
Common(min1, len1, min2, len2) ==
  Larger(Smaller(min1 + len1, min2 + len2) - Larger(min1, min2), 0)

Area(r) == r.width * r.height

Intersection(a, b) ==
  Common(a.minX, a.width, b.minX, b.width) * Common(a.minY, a.height, b.minY, b.height)

(* Intersection over union, as a fraction.                                 *)
IOU(a, b) ==
  IF Area(a) <= 0 \/ Area(b) <= 0
    THEN <<0, 1>>
    ELSE <<Intersection(a, b), Area(a) + Area(b) - Intersection(a, b)>>

Exceeds(f, g) == f[1] * g[2] > g[1] * f[2]

(* Predictions p and q overlap more than the threshold amount.             *)
Overlaps(p, q) ==
  Exceeds(IOU(predictions[p].rect, predictions[q].rect), IouThreshold)

(* The results that sorted, which need not be stable, can have on a set of *)
(* indices: each of them once, by score, from high to low.                 *)
SortedByScore(indices) ==
  {s \in [1 .. Cardinality(indices) -> indices] :
     \A j, k \in 1 .. Cardinality(indices) :
       j < k => s[j] # s[k] /\ predictions[s[j]].score >= predictions[s[k]].score}

(* The call, looking at the predictions of a set.                          *)
Call(indices) ==
  /\ sortedIndices \in SortedByScore(indices)
  /\ i = 1
  /\ selected = <<>>

(* Mutant: one box too many.                                               *)
FinishedLate == i > Len(sortedIndices) \/ Len(selected) > MaxBoxes

Finished == i > Len(sortedIndices) \/ Len(selected) >= MaxBoxes

-----------------------------------------------------------------------------
(* The overload without indices looks at all the predictions.              *)
SuppressionInit ==
  /\ predictions \in UNION {[1 .. n -> Predictions] : n \in 0 .. MaxPredictions}
  /\ Call(DOMAIN predictions)

(* Mutants: only the box selected last is compared; the boxes passed over  *)
(* are compared as well.                                                   *)
ConsiderAgainstLast ==
  /\ ~Finished
  /\ i' = i + 1
  /\ selected' = IF selected # <<>> /\ Overlaps(sortedIndices[i], selected[Len(selected)])
                   THEN selected
                   ELSE Append(selected, sortedIndices[i])
  /\ UNCHANGED <<predictions, sortedIndices>>

ConsiderAgainstAll ==
  /\ ~Finished
  /\ i' = i + 1
  /\ selected' = IF \E j \in 1 .. i - 1 : Overlaps(sortedIndices[i], sortedIndices[j])
                   THEN selected
                   ELSE Append(selected, sortedIndices[i])
  /\ UNCHANGED <<predictions, sortedIndices>>

(* One iteration: the next best box is selected unless it overlaps one     *)
(* that is already.                                                        *)
Consider ==
  /\ ~Finished
  /\ i' = i + 1
  /\ selected' = IF \E j \in 1 .. Len(selected) : Overlaps(sortedIndices[i], selected[j])
                   THEN selected
                   ELSE Append(selected, sortedIndices[i])
  /\ UNCHANGED <<predictions, sortedIndices>>

SuppressionSpec == SuppressionInit /\ [][Consider]_suppressionVars

-----------------------------------------------------------------------------
SuppressionTypeOK ==
  /\ predictions \in Seq(Predictions)
  /\ sortedIndices \in Seq(DOMAIN predictions)
  /\ i \in 1 .. Len(sortedIndices) + 1
  /\ selected \in Seq(DOMAIN predictions)

Score(p) == predictions[p].score

(* No two selected boxes overlap more than the threshold.                  *)
SelectedApart ==
  \A j, k \in 1 .. Len(selected) : j # k => ~Overlaps(selected[j], selected[k])

(* A box is passed over only for one that is selected, scores at least as  *)
(* high and overlaps it: one suppressed box never suppresses another.      *)
SuppressedForCause ==
  \A j \in 1 .. i - 1 :
    \E k \in 1 .. Len(selected) :
      \/ selected[k] = sortedIndices[j]
      \/ /\ Overlaps(sortedIndices[j], selected[k])
         /\ Score(selected[k]) >= Score(sortedIndices[j])

(* The boxes that the cap leaves out score no higher than any selected     *)
(* one, and the selected ones stand in the order of their scores.          *)
BestKept ==
  /\ Len(selected) <= Larger(MaxBoxes, 0)
  /\ \A j, k \in 1 .. Len(selected) : j < k => Score(selected[j]) >= Score(selected[k])
  /\ \A j \in 1 .. Len(selected), k \in i .. Len(sortedIndices) :
       Score(selected[j]) >= Score(sortedIndices[k])

=============================================================================
