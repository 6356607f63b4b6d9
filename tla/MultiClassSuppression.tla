------------------------ MODULE MultiClassSuppression ------------------------
(***************************************************************************)
(* nonMaxSuppressionMultiClass: the best boxes of each class, chosen by    *)
(* nonMaxSuppression from the ones that score over a threshold, and then   *)
(* the best of all of those.                                               *)
(***************************************************************************)
EXTENDS NonMaxSuppression

CONSTANTS
  NumClasses,      \* numClasses
  ScoreThreshold,  \* scoreThreshold
  MaxTotal         \* maxTotal

ASSUME MultiClassAssumption ==
  NumClasses \in Nat /\ ScoreThreshold \in Int /\ MaxTotal \in Nat

VARIABLES
  c,              \* the class looked at, or the next one
  selectedBoxes,  \* the survivors of the classes before it
  result,         \* what the function returns
  phase           \* "filter" between two classes, "suppress", or "returned"

classVars == <<c, selectedBoxes, result, phase>>
multiVars == <<predictions, sortedIndices, i, selected,
               c, selectedBoxes, result, phase>>

FilteredBoxes(class) ==
  {p \in DOMAIN predictions :
     predictions[p].classIndex = class /\ Score(p) > ScoreThreshold}

-----------------------------------------------------------------------------
MultiInit ==
  /\ predictions \in UNION {[1 .. n -> Predictions] : n \in 0 .. MaxPredictions}
  /\ Call({})
  /\ c = 0
  /\ selectedBoxes = <<>>
  /\ result = <<>>
  /\ phase = "filter"

(* The class's boxes over the threshold, given to nonMaxSuppression.       *)
CallForClass ==
  /\ phase = "filter"
  /\ c < NumClasses
  /\ sortedIndices' \in SortedByScore(FilteredBoxes(c))
  /\ i' = 1
  /\ selected' = <<>>
  /\ phase' = "suppress"
  /\ UNCHANGED <<predictions, c, selectedBoxes, result>>

ConsiderForClass ==
  /\ phase = "suppress"
  /\ Consider
  /\ UNCHANGED classVars

AppendSurvivors ==
  /\ phase = "suppress"
  /\ Finished
  /\ selectedBoxes' = selectedBoxes \o selected
  /\ c' = c + 1
  /\ phase' = "filter"
  /\ UNCHANGED <<predictions, sortedIndices, i, selected, result>>

(* Mutant: the survivors are returned class by class.                      *)
KeepFirst ==
  /\ phase = "filter"
  /\ c = NumClasses
  /\ result' = SubSeq(selectedBoxes, 1, Smaller(MaxTotal, Len(selectedBoxes)))
  /\ phase' = "returned"
  /\ UNCHANGED <<predictions, sortedIndices, i, selected, c, selectedBoxes>>

(* The survivors of all classes are sorted, and the first maxTotal kept.   *)
KeepBest ==
  /\ phase = "filter"
  /\ c = NumClasses
  /\ \E s \in SortedByScore({selectedBoxes[k] : k \in 1 .. Len(selectedBoxes)}) :
       result' = SubSeq(s, 1, Smaller(MaxTotal, Len(s)))
  /\ phase' = "returned"
  /\ UNCHANGED <<predictions, sortedIndices, i, selected, c, selectedBoxes>>

MultiNext == CallForClass \/ ConsiderForClass \/ AppendSurvivors \/ KeepBest

MultiSpec == MultiInit /\ [][MultiNext]_multiVars

-----------------------------------------------------------------------------
MultiTypeOK ==
  /\ SuppressionTypeOK
  /\ c \in 0 .. NumClasses
  /\ selectedBoxes \in Seq(DOMAIN predictions)
  /\ result \in Seq(DOMAIN predictions)
  /\ phase \in {"filter", "suppress", "returned"}

ClassOf(p) == predictions[p].classIndex
Returned   == {result[k] : k \in 1 .. Len(result)}

(* The result is in the order of the scores, within maxTotal, and no two   *)
(* of its boxes that are of one class overlap more than the threshold; it  *)
(* takes the boxes of a class from that class's own suppression only.      *)
ResultApart ==
  /\ Len(result) <= MaxTotal
  /\ \A j, k \in 1 .. Len(result) : j < k =>
       /\ Score(result[j]) >= Score(result[k])
       /\ result[j] # result[k]
       /\ ClassOf(result[j]) = ClassOf(result[k]) => ~Overlaps(result[j], result[k])

(* A box over the score threshold is left out of the result only for a     *)
(* reason the result itself shows: a better box of its class that overlaps *)
(* it, maxPerClass boxes of its class that are no worse, or a full result  *)
(* of boxes that are no worse.                                             *)
LeftOutForCause ==
  phase = "returned" =>
    \A class \in 0 .. NumClasses - 1 : \A p \in FilteredBoxes(class) \ Returned :
      LET better == {q \in Returned : Score(q) >= Score(p)}
          peers  == {q \in better : ClassOf(q) = class}
      IN \/ \E q \in peers : Overlaps(p, q)
         \/ Cardinality(peers) >= MaxBoxes
         \/ Cardinality(better) >= MaxTotal

=============================================================================
