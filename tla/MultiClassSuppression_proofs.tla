-------------------- MODULE MultiClassSuppression_proofs --------------------
(***************************************************************************)
(* Proofs about nonMaxSuppression and nonMaxSuppressionMultiClass, for any *)
(* boxes, scores, classes, thresholds and caps.                            *)
(*                                                                         *)
(* First the loop over the boxes.  Its inductive invariant adds to the     *)
(* properties what the loop relies on: the indices are sorted, and the     *)
(* selected ones are among those already looked at.  Then the loop over    *)
(* the classes: the boxes it returns are apart, and every box it leaves    *)
(* out is explained by those it returns.                                   *)
(***************************************************************************)
EXTENDS MultiClassSuppression, FiniteSetTheorems, TLAPS

SortedDown ==
  \A j, k \in 1 .. Len(sortedIndices) :
    j < k => Score(sortedIndices[j]) >= Score(sortedIndices[k])

SelectedSeen ==
  \A j \in 1 .. Len(selected) :
    \E k \in 1 .. i - 1 : selected[j] = sortedIndices[k]

SuppressionInv ==
  /\ SuppressionTypeOK
  /\ SortedDown
  /\ SelectedSeen
  /\ SelectedApart
  /\ SuppressedForCause
  /\ BestKept

-----------------------------------------------------------------------------
(* Overlap does not depend on which box comes first, so the loop may test  *)
(* each pair once.                                                         *)
LEMMA CommonSymmetric ==
  ASSUME NEW m1 \in Int, NEW l1 \in Int, NEW m2 \in Int, NEW l2 \in Int
  PROVE  /\ Common(m1, l1, m2, l2) = Common(m2, l2, m1, l1)
         /\ Common(m1, l1, m2, l2) \in Int
BY DEF Common, Larger, Smaller

LEMMA IOUSymmetric ==
  ASSUME NEW a \in Rects, NEW b \in Rects
  PROVE  IOU(a, b) = IOU(b, a)
<1>1. /\ a.minX \in Int /\ a.minY \in Int /\ a.width \in Int /\ a.height \in Int
      /\ b.minX \in Int /\ b.minY \in Int /\ b.width \in Int /\ b.height \in Int
  BY SuppressionAssumption
<1>2. Intersection(a, b) = Intersection(b, a) /\ Intersection(a, b) \in Int
  <2>1. /\ Common(a.minX, a.width, b.minX, b.width) = Common(b.minX, b.width, a.minX, a.width)
        /\ Common(a.minX, a.width, b.minX, b.width) \in Int
    BY <1>1, CommonSymmetric
  <2>2. /\ Common(a.minY, a.height, b.minY, b.height) = Common(b.minY, b.height, a.minY, a.height)
        /\ Common(a.minY, a.height, b.minY, b.height) \in Int
    BY <1>1, CommonSymmetric
  <2>3. QED
    BY <2>1, <2>2 DEF Intersection
<1>3. Area(a) \in Int /\ Area(b) \in Int
  BY <1>1 DEF Area
<1>4. Area(a) + Area(b) - Intersection(a, b) = Area(b) + Area(a) - Intersection(b, a)
  BY <1>2, <1>3
<1>5. QED
  BY <1>2, <1>4 DEF IOU

LEMMA OverlapsSymmetric ==
  ASSUME predictions \in Seq(Predictions),
         NEW p \in DOMAIN predictions, NEW q \in DOMAIN predictions
  PROVE  Overlaps(p, q) <=> Overlaps(q, p)
<1>1. \A r \in Predictions : r.rect \in Rects
  BY DEF Predictions
<1>2. predictions[p].rect \in Rects /\ predictions[q].rect \in Rects
  BY <1>1
<1>3. QED
  BY <1>2, IOUSymmetric DEF Overlaps

(* What a sorted call of nonMaxSuppression begins with.                    *)
LEMMA SortedFacts ==
  ASSUME NEW indices, IsFiniteSet(indices), NEW s \in SortedByScore(indices)
  PROVE  /\ s \in Seq(indices)
         /\ \A j, k \in 1 .. Len(s) : j < k => Score(s[j]) >= Score(s[k])
<1>1. Cardinality(indices) \in Nat
  BY FS_CardinalityType
<1>2. s \in [1 .. Cardinality(indices) -> indices]
  BY DEF SortedByScore
<1>3. s \in Seq(indices) /\ Len(s) = Cardinality(indices)
  BY <1>1, <1>2
<1>4. QED
  BY <1>3 DEF SortedByScore, Score

LEMMA CallStart ==
  ASSUME predictions \in Seq(Predictions), Call(DOMAIN predictions)
  PROVE  SuppressionInv
<1>1. IsFiniteSet(DOMAIN predictions)
  BY FS_Interval
<1>2. sortedIndices \in Seq(DOMAIN predictions) /\ SortedDown
  BY <1>1, SortedFacts DEF Call, SortedDown
<1>3. i = 1 /\ selected = <<>>
  BY DEF Call
<1>4. SuppressionTypeOK
  BY <1>2, <1>3 DEF SuppressionTypeOK
<1>5. SelectedSeen /\ SelectedApart /\ SuppressedForCause
  BY <1>3 DEF SelectedSeen, SelectedApart, SuppressedForCause
<1>6. BestKept
  BY <1>3, SuppressionAssumption DEF BestKept, Larger
<1>7. QED
  BY <1>2, <1>4, <1>5, <1>6 DEF SuppressionInv

-----------------------------------------------------------------------------
(* One iteration: the box at i joins the selected ones, or is passed over. *)
LEMMA ConsiderStep == SuppressionInv /\ [Consider]_suppressionVars => SuppressionInv'
<1> SUFFICES ASSUME SuppressionInv, [Consider]_suppressionVars PROVE SuppressionInv'
  OBVIOUS
<1>1. CASE UNCHANGED suppressionVars
  BY <1>1 DEF suppressionVars, SuppressionInv, SuppressionTypeOK, SortedDown,
              SelectedSeen, SelectedApart, SuppressedForCause, BestKept, Score, Overlaps
<1>2. CASE Consider
  <2> DEFINE a == sortedIndices[i]
             n == Len(selected)
             m == Len(sortedIndices)
  <2>1. /\ predictions \in Seq(Predictions) /\ sortedIndices \in Seq(DOMAIN predictions)
        /\ selected \in Seq(DOMAIN predictions)
    BY DEF SuppressionInv, SuppressionTypeOK
  <2>2. n \in Nat /\ m \in Nat /\ i \in 1 .. m /\ a \in DOMAIN predictions
    BY <1>2, <2>1 DEF SuppressionInv, SuppressionTypeOK, Consider, Finished
  <2>3. i \in Nat /\ 1 <= i /\ i <= m
    BY <2>2
  <2>4. i' = i + 1 /\ sortedIndices' = sortedIndices
    BY <1>2 DEF Consider
  <2>5. (\A p, q : (Overlaps(p, q))' <=> Overlaps(p, q)) /\ \A p : (Score(p))' = Score(p)
    BY <1>2 DEF Consider, Overlaps, Score
  <2>6. SortedDown'
    BY <2>4, <2>5 DEF SuppressionInv, SortedDown
  <2>7. \A j \in 1 .. n : Score(selected[j]) >= Score(a)
    BY <2>2 DEF SuppressionInv, BestKept
  <2>8. \A k \in i + 1 .. m : Score(a) >= Score(sortedIndices[k])
    BY <2>2 DEF SuppressionInv, SortedDown
  <2>9. CASE selected' = selected /\ \E j \in 1 .. n : Overlaps(a, selected[j])
    <3>1. selected' = selected
      BY <2>9
    <3>2. SuppressionTypeOK'
      BY <1>2, <2>1, <2>2, <2>4, <3>1 DEF SuppressionTypeOK, Consider
    <3>3. SelectedSeen'
      BY <2>3, <2>4, <3>1 DEF SuppressionInv, SelectedSeen
    <3>4. SelectedApart'
      BY <2>5, <3>1 DEF SuppressionInv, SelectedApart
    <3>5. SuppressedForCause'
      <4>1. \A j \in 1 .. i - 1 :
              \E k \in 1 .. n :
                \/ selected[k] = sortedIndices[j]
                \/ /\ Overlaps(sortedIndices[j], selected[k])
                   /\ Score(selected[k]) >= Score(sortedIndices[j])
        BY DEF SuppressionInv, SuppressedForCause
      <4>2. \E k \in 1 .. n : Overlaps(a, selected[k]) /\ Score(selected[k]) >= Score(a)
        BY <2>7, <2>9
      <4>3. \A j \in 1 .. i : j = i \/ j \in 1 .. i - 1
        BY <2>3
      <4>4. (i + 1) - 1 = i
        BY <2>3
      <4>5. QED
        BY <2>4, <2>5, <3>1, <4>1, <4>2, <4>3, <4>4, Zenon DEF SuppressedForCause
    <3>6. BestKept'
      <4>1. \A k \in i + 1 .. m : k \in i .. m
        BY <2>2
      <4>2. QED
        BY <2>4, <2>5, <3>1, <4>1 DEF SuppressionInv, BestKept
    <3>7. QED
      BY <2>6, <3>2, <3>3, <3>4, <3>5, <3>6 DEF SuppressionInv
  <2>10. CASE selected' = Append(selected, a) /\ ~\E j \in 1 .. n : Overlaps(a, selected[j])
    <3>1. \A j \in 1 .. n : selected[j] \in DOMAIN predictions
      BY <2>1
    <3>2. /\ \A j \in 1 .. n : ~Overlaps(a, selected[j]) /\ ~Overlaps(selected[j], a)
      BY <2>1, <2>2, <2>10, <3>1, OverlapsSymmetric
    <3> HIDE DEF a
    <3>3. /\ selected' \in Seq(DOMAIN predictions)
          /\ Len(selected') = n + 1
          /\ selected'[n + 1] = a
          /\ \A j \in 1 .. n : selected'[j] = selected[j]
      BY <2>1, <2>2, <2>10
    <3> HIDE DEF n, m
    <3>4. \A j \in 1 .. n + 1 : j \in 1 .. n \/ j = n + 1
      BY <2>2
    <3>5. SuppressionTypeOK'
      BY <1>2, <2>1, <2>2, <2>4, <3>3 DEF SuppressionTypeOK, Consider, m
    <3>6. SelectedSeen'
      <4>1. \A j \in 1 .. n : \E k \in 1 .. i - 1 : selected[j] = sortedIndices[k]
        BY DEF SuppressionInv, SelectedSeen, n
      <4>2. \A k : k \in 1 .. i - 1 => k \in 1 .. i' - 1
        BY <2>3, <2>4
      <4>3. i \in 1 .. i' - 1
        BY <2>3, <2>4
      <4>4. \A j \in 1 .. n + 1 : \E k \in 1 .. i' - 1 : selected'[j] = sortedIndices[k]
        <5> TAKE j \in 1 .. n + 1
        <5>1. CASE j \in 1 .. n
          BY <3>3, <4>1, <4>2, <5>1
        <5>2. CASE j = n + 1
          BY <3>3, <4>3, <5>2 DEF a
        <5>3. QED
          BY <3>4, <5>1, <5>2
      <4>5. QED
        BY <2>4, <3>3, <4>4 DEF SelectedSeen
    <3>7. SelectedApart'
      <4>1. \A j, k \in 1 .. n : j # k => ~Overlaps(selected[j], selected[k])
        BY DEF SuppressionInv, SelectedApart, n
      <4>2. \A j, k \in 1 .. n + 1 : j # k => ~Overlaps(selected'[j], selected'[k])
        <5> TAKE j, k \in 1 .. n + 1
        <5>1. CASE j \in 1 .. n /\ k \in 1 .. n
          BY <3>3, <4>1, <5>1
        <5>2. CASE j = n + 1 /\ k \in 1 .. n
          BY <3>2, <3>3, <5>2
        <5>3. CASE k = n + 1 /\ j \in 1 .. n
          BY <3>2, <3>3, <5>3
        <5>4. CASE j = n + 1 /\ k = n + 1
          BY <5>4
        <5>5. QED
          BY <3>4, <5>1, <5>2, <5>3, <5>4
      <4>3. QED
        BY <2>5, <3>3, <4>2 DEF SelectedApart
    <3>8. SuppressedForCause'
      <4> DEFINE Cause(j, p) == \/ p = sortedIndices[j]
                                \/ /\ Overlaps(sortedIndices[j], p)
                                   /\ Score(p) >= Score(sortedIndices[j])
      <4>1. \A j \in 1 .. i - 1 : \E k \in 1 .. n : Cause(j, selected[k])
        BY DEF SuppressionInv, SuppressedForCause, n
      <4>2. Cause(i, a)
        BY DEF a
      <4> HIDE DEF Cause
      <4>3. n + 1 \in 1 .. n + 1 /\ \A k \in 1 .. n : k \in 1 .. n + 1
        BY <2>2
      <4>4. \A j \in 1 .. i' - 1 : j = i \/ j \in 1 .. i - 1
        BY <2>3, <2>4
      <4>5. \A j \in 1 .. i' - 1 : \E k \in 1 .. n + 1 : Cause(j, selected'[k])
        BY <3>3, <4>1, <4>2, <4>3, <4>4, Zenon
      <4>6. QED
        BY <2>4, <2>5, <3>3, <4>5 DEF SuppressedForCause, Cause
    <3>9. BestKept'
      <4>1. Len(selected') <= Larger(MaxBoxes, 0)
        BY <1>2, <2>2, <3>3, SuppressionAssumption DEF Consider, Finished, Larger, n
      <4>2. \A j, k \in 1 .. n + 1 : j < k => Score(selected'[j]) >= Score(selected'[k])
        <5> SUFFICES ASSUME NEW j \in 1 .. n + 1, NEW k \in 1 .. n + 1, j < k
                     PROVE  Score(selected'[j]) >= Score(selected'[k])
          OBVIOUS
        <5>1. j \in 1 .. n
          BY <2>2
        <5>2. CASE k \in 1 .. n
          <6>1. Score(selected[j]) >= Score(selected[k])
            BY <5>1, <5>2 DEF SuppressionInv, BestKept, n
          <6>2. QED
            BY <3>3, <5>1, <5>2, <6>1
        <5>3. CASE k = n + 1
          BY <2>7, <3>3, <5>1, <5>3
        <5>4. QED
          BY <3>4, <5>2, <5>3
      <4>3. \A j \in 1 .. n + 1, k \in i + 1 .. m : Score(selected'[j]) >= Score(sortedIndices[k])
        <5> SUFFICES ASSUME NEW j \in 1 .. n + 1, NEW k \in i + 1 .. m
                     PROVE  Score(selected'[j]) >= Score(sortedIndices[k])
          OBVIOUS
        <5>1. CASE j \in 1 .. n
          <6>1. k \in i .. m
            BY <2>2
          <6>2. Score(selected[j]) >= Score(sortedIndices[k])
            BY <5>1, <6>1 DEF SuppressionInv, BestKept, n, m
          <6>3. QED
            BY <3>3, <5>1, <6>2
        <5>2. CASE j = n + 1
          BY <2>8, <3>3, <5>2
        <5>3. QED
          BY <3>4, <5>1, <5>2
      <4>4. QED
        BY <2>4, <2>5, <3>3, <4>1, <4>2, <4>3 DEF BestKept, m
    <3>10. QED
      BY <2>6, <3>5, <3>6, <3>7, <3>8, <3>9 DEF SuppressionInv
  <2>11. QED
    BY <1>2, <2>9, <2>10 DEF Consider
<1>3. QED
  BY <1>1, <1>2

(* The inductive invariant of the loop of nonMaxSuppression.               *)
THEOREM SuppressionInvariance == SuppressionSpec => []SuppressionInv
<1>1. SuppressionInit => SuppressionInv
  <2> SUFFICES ASSUME SuppressionInit PROVE SuppressionInv
    OBVIOUS
  <2>1. predictions \in Seq(Predictions)
    BY DEF SuppressionInit
  <2>2. QED
    BY <2>1, CallStart DEF SuppressionInit
<1>2. QED
  BY <1>1, ConsiderStep, PTL DEF SuppressionSpec

(* No two boxes that nonMaxSuppression selects overlap too much.           *)
THEOREM SelectionApart == SuppressionSpec => []SelectedApart
<1>1. SuppressionInv => SelectedApart
  BY DEF SuppressionInv
<1>2. QED
  BY <1>1, SuppressionInvariance, PTL

(* It passes over a box only for a selected one that is no worse.          *)
THEOREM SuppressionHasCause == SuppressionSpec => []SuppressedForCause
<1>1. SuppressionInv => SuppressedForCause
  BY DEF SuppressionInv
<1>2. QED
  BY <1>1, SuppressionInvariance, PTL

(* The boxes its cap leaves out are no better than those it selects.       *)
THEOREM SelectionIsBest == SuppressionSpec => []BestKept
<1>1. SuppressionInv => BestKept
  BY DEF SuppressionInv
<1>2. QED
  BY <1>1, SuppressionInvariance, PTL

-----------------------------------------------------------------------------
(***************************************************************************)
(* The loop over the classes.                                              *)
(***************************************************************************)
(* The members of an array, and that it names none of them twice.          *)
Members(s) == {s[k] : k \in 1 .. Len(s)}
Once(s) == \A j, k \in 1 .. Len(s) : j < k => s[j] # s[k]

(* In a class, the loop looks at the boxes of that class over the          *)
(* threshold, at each of them once.                                        *)
LooksAtClass ==
  phase = "suppress" =>
    /\ c < NumClasses
    /\ Members(sortedIndices) = FilteredBoxes(c)
LooksOnce == Once(sortedIndices) /\ Once(selected)

(* The survivors of the classes done are of those classes, and apart.      *)
SurvivorsApart ==
  /\ \A p \in Members(selectedBoxes) : ClassOf(p) \in 0 .. c - 1
  /\ \A p, q \in Members(selectedBoxes) :
       p # q /\ ClassOf(p) = ClassOf(q) => ~Overlaps(p, q)

(* Among the boxes kept, those of a class that are no worse than p; and    *)
(* that p is kept, or is not for a reason that those show.                 *)
Peers(kept, class, p) == {q \in kept : ClassOf(q) = class /\ Score(q) >= Score(p)}
Answered(kept, class, p) ==
  \/ p \in kept
  \/ \E q \in Peers(kept, class, p) : Overlaps(p, q)
  \/ Cardinality(Peers(kept, class, p)) >= MaxBoxes

SurvivorsForCause ==
  \A class \in 0 .. c - 1 : \A p \in FilteredBoxes(class) :
    Answered(Members(selectedBoxes), class, p)

NothingYet == phase # "returned" => result = <<>>

MultiInv ==
  /\ MultiTypeOK /\ SuppressionInv
  /\ LooksAtClass /\ LooksOnce
  /\ SurvivorsApart /\ SurvivorsForCause
  /\ NothingYet /\ ResultApart /\ LeftOutForCause

-----------------------------------------------------------------------------
(* A sorted array of a finite set has each of its members once.            *)
LEMMA SortedIsWhole ==
  ASSUME NEW indices, IsFiniteSet(indices), NEW s \in SortedByScore(indices)
  PROVE  Members(s) = indices /\ Once(s)
<1> DEFINE n == Cardinality(indices)
<1>1. n \in Nat
  BY FS_CardinalityType
<1>2. s \in [1 .. n -> indices] /\ s \in Seq(indices) /\ Len(s) = n
  BY <1>1 DEF SortedByScore
<1>3. \A j, k \in 1 .. n : j < k => s[j] # s[k]
  BY DEF SortedByScore
<1> HIDE DEF n
<1>4. \A j, k \in 1 .. n : s[j] = s[k] => j = k
  <2> SUFFICES ASSUME NEW j \in 1 .. n, NEW k \in 1 .. n, j # k PROVE s[j] # s[k]
    OBVIOUS
  <2>1. j < k \/ k < j
    BY <1>1
  <2> QED
    BY <1>3, <2>1
<1>5. s \in Injection(1 .. n, indices)
  BY <1>2, <1>4 DEF Injection, IsInjective
<1>6. Cardinality(1 .. n) = n
  BY <1>1, FS_Interval
<1>7. s \in Surjection(1 .. n, indices)
  BY <1>5, <1>6, FS_Injection DEF n
<1>8. \A p \in indices : \E k \in 1 .. n : s[k] = p
  BY <1>7 DEF Surjection
<1> QED
  BY <1>2, <1>3, <1>8 DEF Members, Once

(* An array without repetitions has as many members as places.             *)
LEMMA CountOnce ==
  ASSUME NEW S, NEW s \in Seq(S), Once(s)
  PROVE  IsFiniteSet(Members(s)) /\ Cardinality(Members(s)) = Len(s)
<1> DEFINE n == Len(s)
<1>1. n \in Nat /\ s \in [1 .. n -> Members(s)]
  BY DEF Members
<1>2. \A j, k \in 1 .. n : s[j] = s[k] => j = k
  <2> SUFFICES ASSUME NEW j \in 1 .. n, NEW k \in 1 .. n, j # k PROVE s[j] # s[k]
    OBVIOUS
  <2>1. j < k \/ k < j
    BY <1>1
  <2> QED
    BY <2>1 DEF Once
<1>3. \A p \in Members(s) : \E k \in 1 .. n : s[k] = p
  BY DEF Members
<1> HIDE DEF n
<1>4. s \in Injection(1 .. n, Members(s)) /\ s \in Surjection(1 .. n, Members(s))
  BY <1>1, <1>2, <1>3 DEF Injection, IsInjective, Surjection
<1>5. IsFiniteSet(1 .. n) /\ Cardinality(1 .. n) = n
  BY <1>1, FS_Interval
<1> QED
  BY <1>4, <1>5, FS_Surjection DEF n

(* The boxes of a class are finitely many.                                 *)
LEMMA FilteredFinite ==
  ASSUME predictions \in Seq(Predictions), NEW class
  PROVE  IsFiniteSet(FilteredBoxes(class)) /\ FilteredBoxes(class) \subseteq DOMAIN predictions
<1>1. IsFiniteSet(DOMAIN predictions)
  BY FS_Interval
<1>2. FilteredBoxes(class) \subseteq DOMAIN predictions
  BY DEF FilteredBoxes
<1> QED
  BY <1>1, <1>2, FS_Subset

LEMMA MembersFinite ==
  ASSUME predictions \in Seq(Predictions), NEW s \in Seq(DOMAIN predictions)
  PROVE  IsFiniteSet(Members(s)) /\ Members(s) \subseteq DOMAIN predictions
<1>1. IsFiniteSet(DOMAIN predictions)
  BY FS_Interval
<1>2. Members(s) \subseteq DOMAIN predictions
  BY DEF Members
<1> QED
  BY <1>1, <1>2, FS_Subset

LEMMA ScoresAreNumbers ==
  ASSUME predictions \in Seq(Predictions), NEW p \in DOMAIN predictions
  PROVE  Score(p) \in Int
<1>1. \A r \in Predictions : r.score \in Int
  BY SuppressionAssumption DEF Predictions
<1>2. predictions[p] \in Predictions
  OBVIOUS
<1> QED
  BY <1>1, <1>2 DEF Score

-----------------------------------------------------------------------------
LEMMA MultiInitInv == MultiInit => MultiInv
<1> SUFFICES ASSUME MultiInit PROVE MultiInv
  OBVIOUS
<1>1. predictions \in Seq(Predictions)
  BY DEF MultiInit
<1>2. IsFiniteSet({}) /\ Cardinality({}) = 0
  BY FS_EmptySet
<1>3. sortedIndices = <<>> /\ i = 1 /\ selected = <<>>
  <2>1. sortedIndices \in SortedByScore({}) /\ i = 1 /\ selected = <<>>
    BY DEF MultiInit, Call
  <2>2. Members(sortedIndices) = {} /\ sortedIndices \in Seq({})
    BY <1>2, <2>1, SortedIsWhole, SortedFacts
  <2>3. Len(sortedIndices) = 0
    BY <2>2 DEF Members
  <2> QED
    BY <2>1, <2>2, <2>3
<1>4. c = 0 /\ selectedBoxes = <<>> /\ result = <<>> /\ phase = "filter"
  BY DEF MultiInit
<1>5. SuppressionTypeOK
  BY <1>1, <1>3 DEF SuppressionTypeOK
<1>6. MultiTypeOK
  BY <1>4, <1>5, MultiClassAssumption DEF MultiTypeOK
<1>7. SuppressionInv
  BY <1>3, <1>5, SuppressionAssumption
     DEF SuppressionInv, SortedDown, SelectedSeen, SelectedApart, SuppressedForCause,
         BestKept, Larger
<1>8. LooksAtClass /\ LooksOnce
  BY <1>3, <1>4 DEF LooksAtClass, LooksOnce, Once
<1>9. SurvivorsApart /\ SurvivorsForCause
  BY <1>4 DEF SurvivorsApart, SurvivorsForCause, Members
<1>10. NothingYet /\ ResultApart /\ LeftOutForCause
  BY <1>4, MultiClassAssumption DEF NothingYet, ResultApart, LeftOutForCause
<1> QED
  BY <1>6, <1>7, <1>8, <1>9, <1>10 DEF MultiInv

(* nonMaxSuppression is called with the boxes of the next class.           *)
LEMMA CallForClassInv == ASSUME MultiInv, CallForClass PROVE MultiInv'
<1>1. /\ phase = "filter" /\ c < NumClasses
      /\ sortedIndices' \in SortedByScore(FilteredBoxes(c))
      /\ i' = 1 /\ selected' = <<>> /\ phase' = "suppress"
      /\ UNCHANGED <<predictions, c, selectedBoxes, result>>
  BY DEF CallForClass
<1>2. predictions \in Seq(Predictions)
  BY DEF MultiInv, MultiTypeOK, SuppressionTypeOK
<1>3. /\ IsFiniteSet(FilteredBoxes(c)) /\ FilteredBoxes(c) \subseteq DOMAIN predictions
      /\ FilteredBoxes(c)' = FilteredBoxes(c)
  BY <1>1, <1>2, FilteredFinite DEF FilteredBoxes, Score
<1>4. /\ sortedIndices' \in Seq(FilteredBoxes(c))
      /\ \A j, k \in 1 .. Len(sortedIndices') :
           j < k => Score(sortedIndices'[j]) >= Score(sortedIndices'[k])
      /\ Members(sortedIndices') = FilteredBoxes(c)
      /\ Once(sortedIndices')
  BY <1>1, <1>3, SortedFacts, SortedIsWhole
<1>5. SuppressionTypeOK'
  BY <1>1, <1>2, <1>3, <1>4 DEF SuppressionTypeOK
<1>6. MultiTypeOK'
  BY <1>1, <1>5 DEF MultiInv, MultiTypeOK
<1>7. SortedDown'
  BY <1>1, <1>4 DEF SortedDown, Score
<1>8. SuppressionInv'
  BY <1>1, <1>5, <1>7, SuppressionAssumption
     DEF SuppressionInv, SelectedSeen, SelectedApart, SuppressedForCause, BestKept, Larger
<1>9. LooksAtClass'
  BY <1>1, <1>3, <1>4 DEF LooksAtClass, Members
<1>10. LooksOnce'
  BY <1>1, <1>4 DEF LooksOnce, Once
<1>11. SurvivorsApart' /\ SurvivorsForCause'
  BY <1>1 DEF MultiInv, SurvivorsApart, SurvivorsForCause, Members, Answered, Peers,
              FilteredBoxes, ClassOf, Score, Overlaps
<1>12. NothingYet' /\ ResultApart' /\ LeftOutForCause'
  BY <1>1 DEF MultiInv, NothingYet, ResultApart, LeftOutForCause, ClassOf, Score, Overlaps
<1> QED
  BY <1>6, <1>8, <1>9, <1>10, <1>11, <1>12 DEF MultiInv

(* An iteration of nonMaxSuppression.                                      *)
LEMMA ConsiderForClassInv == ASSUME MultiInv, ConsiderForClass PROVE MultiInv'
<1>1. /\ phase = "suppress" /\ Consider /\ UNCHANGED <<c, selectedBoxes, result, phase>>
      /\ UNCHANGED <<predictions, sortedIndices>>
  BY DEF ConsiderForClass, classVars, Consider
<1>2. SuppressionInv'
  BY <1>1, ConsiderStep DEF MultiInv
<1>3. MultiTypeOK'
  BY <1>1, <1>2 DEF MultiInv, MultiTypeOK, SuppressionInv
<1>4. LooksAtClass'
  BY <1>1 DEF MultiInv, LooksAtClass, Members, FilteredBoxes, Score
<1>5. LooksOnce'
  <2> DEFINE n == Len(selected)
  <2>1. /\ Once(sortedIndices) /\ Once(selected)
        /\ selected \in Seq(DOMAIN predictions) /\ sortedIndices \in Seq(DOMAIN predictions)
    BY DEF MultiInv, LooksOnce, SuppressionInv, SuppressionTypeOK
  <2>2. \/ selected' = selected
        \/ selected' = Append(selected, sortedIndices[i])
    BY <1>1 DEF Consider
  <2>3. i \in Nat /\ 1 <= i /\ i <= Len(sortedIndices)
    BY <1>1, <2>1 DEF MultiInv, SuppressionInv, SuppressionTypeOK, Consider, Finished
  <2>4. \A j \in 1 .. n : selected[j] # sortedIndices[i]
    <3> SUFFICES ASSUME NEW j \in 1 .. n PROVE selected[j] # sortedIndices[i]
      OBVIOUS
    <3>1. PICK k \in 1 .. i - 1 : selected[j] = sortedIndices[k]
      BY DEF MultiInv, SuppressionInv, SelectedSeen
    <3>2. k \in 1 .. Len(sortedIndices) /\ i \in 1 .. Len(sortedIndices) /\ k < i
      BY <2>3, <2>1
    <3> QED
      BY <2>1, <3>1, <3>2 DEF Once
  <2>5. Once(selected')
    <3>1. CASE selected' = selected
      BY <2>1, <3>1
    <3>2. CASE selected' = Append(selected, sortedIndices[i])
      <4>1. /\ n \in Nat /\ Len(selected') = n + 1 /\ selected'[n + 1] = sortedIndices[i]
            /\ \A j \in 1 .. n : selected'[j] = selected[j]
        BY <2>1, <2>3, <3>2
      <4>2. \A j, k \in 1 .. n : j < k => selected[j] # selected[k]
        BY <2>1 DEF Once
      <4> HIDE DEF n
      <4>3. ASSUME NEW j \in 1 .. n + 1, NEW k \in 1 .. n + 1, j < k
            PROVE  selected'[j] # selected'[k]
        <5>1. j \in 1 .. n /\ (k \in 1 .. n \/ k = n + 1)
          BY <4>1, <4>3
        <5> QED
          BY <2>4, <4>1, <4>2, <4>3, <5>1 DEF n
      <4> QED
        BY <4>1, <4>3 DEF Once
    <3> QED
      BY <2>2, <3>1, <3>2
  <2> QED
    BY <1>1, <2>1, <2>5 DEF LooksOnce, Once
<1>6. SurvivorsApart' /\ SurvivorsForCause'
  BY <1>1 DEF MultiInv, SurvivorsApart, SurvivorsForCause, Members, Answered, Peers,
              FilteredBoxes, ClassOf, Score, Overlaps
<1>7. NothingYet' /\ ResultApart' /\ LeftOutForCause'
  BY <1>1 DEF MultiInv, NothingYet, ResultApart, LeftOutForCause, ClassOf, Score, Overlaps
<1> QED
  BY <1>2, <1>3, <1>4, <1>5, <1>6, <1>7 DEF MultiInv

-----------------------------------------------------------------------------
(* What the loop over a class ends with answers for all of its boxes.      *)
LEMMA ClassAnswered ==
  ASSUME MultiInv, phase = "suppress", Finished, NEW p \in FilteredBoxes(c)
  PROVE  Answered(Members(selected), c, p)
<1>1. /\ predictions \in Seq(Predictions) /\ selected \in Seq(DOMAIN predictions)
      /\ sortedIndices \in Seq(DOMAIN predictions) /\ i \in 1 .. Len(sortedIndices) + 1
  BY DEF MultiInv, SuppressionInv, SuppressionTypeOK
<1>2. /\ Members(sortedIndices) = FilteredBoxes(c)
      /\ \A k \in 1 .. Len(sortedIndices) : sortedIndices[k] \in FilteredBoxes(c)
  BY DEF MultiInv, LooksAtClass, Members
<1>3. PICK j \in 1 .. Len(sortedIndices) : sortedIndices[j] = p
  BY <1>2 DEF Members
<1>4. \A k \in 1 .. Len(selected) : selected[k] \in Members(selected) /\ ClassOf(selected[k]) = c
  <2> SUFFICES ASSUME NEW k \in 1 .. Len(selected)
               PROVE  selected[k] \in Members(selected) /\ ClassOf(selected[k]) = c
    OBVIOUS
  <2>1. PICK l \in 1 .. i - 1 : selected[k] = sortedIndices[l]
    BY DEF MultiInv, SuppressionInv, SelectedSeen
  <2>2. selected[k] \in FilteredBoxes(c)
    BY <1>1, <1>2, <2>1
  <2> QED
    BY <2>2 DEF Members, FilteredBoxes, ClassOf
<1>5. CASE j \in 1 .. i - 1
  <2>1. PICK k \in 1 .. Len(selected) :
          \/ selected[k] = p
          \/ Overlaps(p, selected[k]) /\ Score(selected[k]) >= Score(p)
    BY <1>3, <1>5 DEF MultiInv, SuppressionInv, SuppressedForCause
  <2> QED
    BY <1>4, <2>1 DEF Answered, Peers
<1>6. CASE j \in i .. Len(sortedIndices)
  <2>1. Len(selected) >= MaxBoxes
    BY <1>1, <1>6 DEF Finished
  <2>2. \A k \in 1 .. Len(selected) : Score(selected[k]) >= Score(p)
    BY <1>3, <1>6 DEF MultiInv, SuppressionInv, BestKept
  <2>3. Peers(Members(selected), c, p) = Members(selected)
    BY <1>4, <2>2 DEF Peers, Members
  <2>4. Cardinality(Members(selected)) = Len(selected)
    BY <1>1, CountOnce DEF MultiInv, LooksOnce
  <2> QED
    BY <2>1, <2>3, <2>4 DEF Answered
<1> QED
  BY <1>1, <1>5, <1>6

(* More boxes kept answer for no fewer.                                    *)
LEMMA AnsweredByMore ==
  ASSUME NEW kept, NEW more, IsFiniteSet(more), kept \subseteq more,
         NEW class, NEW p, Answered(kept, class, p)
  PROVE  Answered(more, class, p)
<1>1. Peers(kept, class, p) \subseteq Peers(more, class, p)
  BY DEF Peers
<1>2. IsFiniteSet(Peers(more, class, p))
  <2>1. Peers(more, class, p) \subseteq more
    BY DEF Peers
  <2> QED
    BY <2>1, FS_Subset
<1>3. /\ IsFiniteSet(Peers(kept, class, p))
      /\ Cardinality(Peers(kept, class, p)) <= Cardinality(Peers(more, class, p))
  BY <1>1, <1>2, FS_Subset
<1>4. /\ Cardinality(Peers(kept, class, p)) \in Nat
      /\ Cardinality(Peers(more, class, p)) \in Nat
  BY <1>2, <1>3, FS_CardinalityType
<1>5. CASE p \in kept
  BY <1>5 DEF Answered
<1>6. CASE \E q \in Peers(kept, class, p) : Overlaps(p, q)
  BY <1>1, <1>6 DEF Answered
<1>7. CASE Cardinality(Peers(kept, class, p)) >= MaxBoxes
  BY <1>3, <1>4, <1>7, SuppressionAssumption DEF Answered
<1> QED
  BY <1>5, <1>6, <1>7 DEF Answered

LEMMA AppendSurvivorsInv == ASSUME MultiInv, AppendSurvivors PROVE MultiInv'
<1>1. /\ phase = "suppress" /\ Finished
      /\ selectedBoxes' = selectedBoxes \o selected
      /\ c' = c + 1 /\ phase' = "filter"
      /\ UNCHANGED <<predictions, sortedIndices, i, selected, result>>
  BY DEF AppendSurvivors
<1>2. /\ predictions \in Seq(Predictions) /\ selected \in Seq(DOMAIN predictions)
      /\ selectedBoxes \in Seq(DOMAIN predictions)
      /\ c \in Nat /\ c < NumClasses /\ NumClasses \in Nat
  BY <1>1, MultiClassAssumption
     DEF MultiInv, MultiTypeOK, SuppressionTypeOK, LooksAtClass
<1>3. Members(selectedBoxes') = Members(selectedBoxes) \cup Members(selected)
  <2> DEFINE n == Len(selectedBoxes)
             m == Len(selected)
  <2>1. /\ n \in Nat /\ m \in Nat /\ Len(selectedBoxes') = n + m
        /\ \A k \in 1 .. n : selectedBoxes'[k] = selectedBoxes[k]
        /\ \A k \in 1 .. m : selectedBoxes'[n + k] = selected[k]
    BY <1>1, <1>2
  <2> HIDE DEF n, m
  <2>2. \A k \in 1 .. n + m : k \in 1 .. n \/ (k - n \in 1 .. m /\ n + (k - n) = k)
    BY <2>1
  <2>3. (\A k \in 1 .. n : k \in 1 .. n + m) /\ \A k \in 1 .. m : n + k \in 1 .. n + m
    BY <2>1
  <2>4. Members(selectedBoxes') \subseteq Members(selectedBoxes) \cup Members(selected)
    <3> SUFFICES ASSUME NEW k \in 1 .. n + m
                 PROVE  selectedBoxes'[k] \in Members(selectedBoxes) \cup Members(selected)
      BY <2>1 DEF Members
    <3>1. CASE k \in 1 .. n
      BY <2>1, <3>1 DEF Members, n
    <3>2. CASE k - n \in 1 .. m /\ n + (k - n) = k
      <4>1. selectedBoxes'[k] = selected[k - n]
        BY <2>1, <3>2
      <4> QED
        BY <3>2, <4>1 DEF Members, m
    <3> QED
      BY <2>2, <3>1, <3>2
  <2>5. Members(selectedBoxes) \subseteq Members(selectedBoxes')
    BY <2>1, <2>3 DEF Members, n
  <2>6. Members(selected) \subseteq Members(selectedBoxes')
    BY <2>1, <2>3 DEF Members, m
  <2> QED
    BY <2>4, <2>5, <2>6
<1>4. MultiTypeOK'
  BY <1>1, <1>2 DEF MultiInv, MultiTypeOK, SuppressionTypeOK
<1>5. SuppressionInv'
  BY <1>1 DEF MultiInv, SuppressionInv, SuppressionTypeOK, SortedDown,
              SelectedSeen, SelectedApart, SuppressedForCause, BestKept, Score, Overlaps
<1>6. LooksAtClass' /\ LooksOnce'
  BY <1>1 DEF MultiInv, LooksAtClass, LooksOnce, Once
<1>7. /\ (\A p, q : Overlaps(p, q)' <=> Overlaps(p, q)) /\ (\A p : ClassOf(p)' = ClassOf(p))
      /\ (\A p : Score(p)' = Score(p))
      /\ \A class : FilteredBoxes(class)' = FilteredBoxes(class)
  BY <1>1 DEF Overlaps, ClassOf, Score, FilteredBoxes
<1>8. \A p \in Members(selected) : ClassOf(p) = c
  <2> SUFFICES ASSUME NEW k \in 1 .. Len(selected) PROVE ClassOf(selected[k]) = c
    BY DEF Members
  <2>1. PICK l \in 1 .. i - 1 : selected[k] = sortedIndices[l]
    BY DEF MultiInv, SuppressionInv, SelectedSeen
  <2>2. l \in 1 .. Len(sortedIndices)
    BY <2>1 DEF MultiInv, SuppressionInv, SuppressionTypeOK
  <2> QED
    BY <1>1, <2>1, <2>2 DEF MultiInv, LooksAtClass, Members, FilteredBoxes, ClassOf
<1>9. SurvivorsApart'
  <2>1. \A p \in Members(selectedBoxes) : ClassOf(p) \in 0 .. c - 1
    BY DEF MultiInv, SurvivorsApart
  <2>2. \A p \in Members(selectedBoxes') : ClassOf(p) \in 0 .. c' - 1
    BY <1>1, <1>2, <1>3, <1>8, <2>1
  <2>3. \A p \in Members(selectedBoxes), q \in Members(selected) : ClassOf(p) # ClassOf(q)
    BY <1>2, <1>8, <2>1
  <2>4. \A p, q \in Members(selected) : p # q => ~Overlaps(p, q)
    BY DEF MultiInv, SuppressionInv, SelectedApart, Members
  <2>5. \A p, q \in Members(selectedBoxes) : p # q /\ ClassOf(p) = ClassOf(q) => ~Overlaps(p, q)
    BY DEF MultiInv, SurvivorsApart
  <2>6. \A p, q \in Members(selectedBoxes') : p # q /\ ClassOf(p) = ClassOf(q) => ~Overlaps(p, q)
    BY <1>3, <2>3, <2>4, <2>5
  <2> QED
    BY <1>7, <2>2, <2>6 DEF SurvivorsApart, Members
<1>10. SurvivorsForCause'
  <2>1. IsFiniteSet(Members(selectedBoxes'))
    <3>1. selectedBoxes' \in Seq(DOMAIN predictions)
      BY <1>1, <1>2
    <3> QED
      BY <1>2, <3>1, MembersFinite
  <2>2. ASSUME NEW class \in 0 .. c' - 1, NEW p \in FilteredBoxes(class)
        PROVE  Answered(Members(selectedBoxes'), class, p)
    <3>1. CASE class \in 0 .. c - 1
      <4>1. Answered(Members(selectedBoxes), class, p)
        BY <3>1 DEF MultiInv, SurvivorsForCause
      <4> QED
        BY <1>3, <2>1, <4>1, AnsweredByMore
    <3>2. CASE class = c
      <4>1. Answered(Members(selected), class, p)
        BY <1>1, <3>2, ClassAnswered
      <4> QED
        BY <1>3, <2>1, <4>1, AnsweredByMore
    <3> QED
      BY <1>1, <1>2, <3>1, <3>2
  <2>3. \A class, p : Answered(Members(selectedBoxes), class, p)'
                        <=> Answered(Members(selectedBoxes'), class, p)
    BY <1>7 DEF Answered, Peers, Members
  <2> QED
    BY <1>7, <2>2, <2>3 DEF SurvivorsForCause
<1>11. NothingYet' /\ ResultApart' /\ LeftOutForCause'
  BY <1>1, <1>7 DEF MultiInv, NothingYet, ResultApart, LeftOutForCause
<1> QED
  BY <1>4, <1>5, <1>6, <1>9, <1>10, <1>11 DEF MultiInv

-----------------------------------------------------------------------------
(* The best of the survivors: apart since the survivors are, and a         *)
(* survivor that is not among them is no better than any, of maxTotal.     *)
LEMMA KeepBestInv == ASSUME MultiInv, KeepBest PROVE MultiInv'
<1> DEFINE survivors == Members(selectedBoxes)
<1>1. /\ phase = "filter" /\ c = NumClasses /\ phase' = "returned"
      /\ UNCHANGED <<predictions, sortedIndices, i, selected, c, selectedBoxes>>
      /\ \E s \in SortedByScore(survivors) :
           result' = SubSeq(s, 1, Smaller(MaxTotal, Len(s)))
  BY DEF KeepBest, Members
<1>2. PICK s \in SortedByScore(survivors) :
           result' = SubSeq(s, 1, Smaller(MaxTotal, Len(s)))
  BY <1>1
<1>3. /\ predictions \in Seq(Predictions)
      /\ IsFiniteSet(survivors) /\ survivors \subseteq DOMAIN predictions
  BY MembersFinite DEF MultiInv, MultiTypeOK, SuppressionTypeOK
<1>4. /\ s \in Seq(survivors) /\ Members(s) = survivors /\ Once(s)
      /\ \A j, k \in 1 .. Len(s) : j < k => Score(s[j]) >= Score(s[k])
  BY <1>3, SortedFacts, SortedIsWhole
<1> DEFINE total == Len(result')
<1>5. /\ total \in Nat /\ total <= MaxTotal /\ total <= Len(s)
      /\ total < Len(s) => total = MaxTotal
      /\ result' \in Seq(survivors)
      /\ \A k \in 1 .. total : result'[k] = s[k]
  BY <1>2, <1>4, MultiClassAssumption DEF Smaller
<1> HIDE DEF total, survivors
<1>6. /\ (\A p, q : Overlaps(p, q)' <=> Overlaps(p, q)) /\ (\A p : ClassOf(p)' = ClassOf(p))
      /\ (\A p : Score(p)' = Score(p))
      /\ \A class : FilteredBoxes(class)' = FilteredBoxes(class)
  BY <1>1 DEF Overlaps, ClassOf, Score, FilteredBoxes
<1>7. Once(result') /\ \A k \in 1 .. total : k \in 1 .. Len(s)
  BY <1>4, <1>5 DEF Once, total
<1>8. MultiTypeOK'
  <2>1. result' \in Seq(DOMAIN predictions)
    BY <1>3, <1>5
  <2> QED
    BY <1>1, <2>1 DEF MultiInv, MultiTypeOK, SuppressionTypeOK
<1>9. SuppressionInv'
  BY <1>1 DEF MultiInv, SuppressionInv, SuppressionTypeOK, SortedDown,
              SelectedSeen, SelectedApart, SuppressedForCause, BestKept, Score, Overlaps
<1>10. LooksAtClass' /\ LooksOnce' /\ NothingYet'
  BY <1>1 DEF MultiInv, LooksAtClass, LooksOnce, Once, NothingYet
<1>11. SurvivorsApart' /\ SurvivorsForCause'
  BY <1>1 DEF MultiInv, SurvivorsApart, SurvivorsForCause, Members, Answered, Peers,
              FilteredBoxes, ClassOf, Score, Overlaps
<1>12. ResultApart'
  <2>1. ASSUME NEW j \in 1 .. total, NEW k \in 1 .. total, j < k
        PROVE  /\ Score(result'[j]) >= Score(result'[k])
               /\ result'[j] # result'[k]
               /\ ClassOf(result'[j]) = ClassOf(result'[k]) => ~Overlaps(result'[j], result'[k])
    <3>1. Score(result'[j]) >= Score(result'[k])
      BY <1>4, <1>5, <1>7, <2>1
    <3>2. result'[j] # result'[k]
      BY <1>7, <2>1 DEF Once, total
    <3>3. result'[j] \in survivors /\ result'[k] \in survivors
      BY <1>5 DEF total
    <3> QED
      BY <3>1, <3>2, <3>3 DEF MultiInv, SurvivorsApart, survivors
  <2> QED
    BY <1>5, <1>6, <2>1 DEF ResultApart, total
<1>13. /\ Returned' = Members(result') /\ Returned' \subseteq survivors
       /\ IsFiniteSet(Returned') /\ Cardinality(Returned') = total
  <2>1. Returned' = Members(result')
    BY DEF Returned, Members
  <2>2. Members(result') \subseteq survivors
    BY <1>5 DEF Members, total
  <2>3. IsFiniteSet(Members(result')) /\ Cardinality(Members(result')) = total
    BY <1>5, <1>7, CountOnce DEF total
  <2> QED
    BY <2>1, <2>2, <2>3
<1>14. ASSUME NEW q \in survivors, q \notin Returned'
       PROVE  total = MaxTotal /\ \A r \in Returned' : Score(r) >= Score(q)
  <2>1. PICK j \in 1 .. Len(s) : s[j] = q
    BY <1>4 DEF Members
  <2>2. j \notin 1 .. total
    BY <1>5, <1>13, <1>14, <2>1 DEF Members, total
  <2>3. total < j /\ total < Len(s)
    BY <1>4, <1>5, <2>2
  <2>4. \A k \in 1 .. total : Score(result'[k]) >= Score(q)
    <3> SUFFICES ASSUME NEW k \in 1 .. total PROVE Score(result'[k]) >= Score(q)
      OBVIOUS
    <3>1. k < j /\ k \in 1 .. Len(s)
      BY <1>4, <1>5, <1>7, <2>3
    <3> QED
      BY <1>4, <1>5, <2>1, <3>1
  <2> QED
    BY <1>5, <1>13, <2>3, <2>4 DEF Members, total
<1>15. LeftOutForCause'
  <2>1. ASSUME NEW class \in 0 .. NumClasses - 1, NEW p \in FilteredBoxes(class) \ Returned'
        PROVE  LET better == {q \in Returned' : Score(q) >= Score(p)}
                   peers  == {q \in better : ClassOf(q) = class}
               IN \/ \E q \in peers : Overlaps(p, q)
                  \/ Cardinality(peers) >= MaxBoxes
                  \/ Cardinality(better) >= MaxTotal
    <3> DEFINE better == {q \in Returned' : Score(q) >= Score(p)}
               peers  == {q \in better : ClassOf(q) = class}
    <3>1. p \in DOMAIN predictions /\ p \notin Returned'
      BY <2>1 DEF FilteredBoxes
    <3>2. ASSUME NEW q \in survivors, q \notin Returned', Score(q) >= Score(p)
          PROVE  Cardinality(better) >= MaxTotal
      <4>1. total = MaxTotal /\ \A r \in Returned' : Score(r) >= Score(q)
        BY <1>14, <3>2
      <4>2. /\ Score(q) \in Int /\ Score(p) \in Int
            /\ \A r \in Returned' : Score(r) \in Int
        BY <1>3, <1>13, <3>1, <3>2, ScoresAreNumbers
      <4>3. better = Returned'
        BY <3>2, <4>1, <4>2
      <4> QED
        BY <1>5, <1>13, <4>1, <4>3
    <3>3. Answered(survivors, class, p)
      BY <1>1 DEF MultiInv, SurvivorsForCause, survivors
    <3>4. CASE p \in survivors
      <4>1. Score(p) >= Score(p)
        BY <1>3, <3>1, ScoresAreNumbers
      <4> QED
        BY <3>1, <3>2, <3>4, <4>1
    <3>5. CASE \E q \in Peers(survivors, class, p) : Overlaps(p, q)
      <4>1. PICK q \in survivors : ClassOf(q) = class /\ Score(q) >= Score(p) /\ Overlaps(p, q)
        BY <3>5 DEF Peers
      <4>2. CASE q \in Returned'
        BY <4>1, <4>2
      <4>3. CASE q \notin Returned'
        BY <3>2, <4>1, <4>3
      <4> QED
        BY <4>2, <4>3
    <3>6. CASE Cardinality(Peers(survivors, class, p)) >= MaxBoxes
      <4>1. CASE Peers(survivors, class, p) \subseteq Returned'
        <5>1. Peers(survivors, class, p) \subseteq peers /\ peers \subseteq Returned'
          BY <4>1 DEF Peers
        <5>2. /\ IsFiniteSet(peers)
              /\ IsFiniteSet(Peers(survivors, class, p))
              /\ Cardinality(Peers(survivors, class, p)) <= Cardinality(peers)
          BY <1>13, <5>1, FS_Subset
        <5>3. /\ Cardinality(peers) \in Nat
              /\ Cardinality(Peers(survivors, class, p)) \in Nat
          BY <5>2, FS_CardinalityType
        <5>4. Cardinality(peers) >= MaxBoxes
          BY <3>6, <5>2, <5>3, SuppressionAssumption
        <5> QED
          BY <5>4
      <4>2. CASE ~(Peers(survivors, class, p) \subseteq Returned')
        <5>1. PICK q \in survivors : Score(q) >= Score(p) /\ q \notin Returned'
          BY <4>2 DEF Peers
        <5> QED
          BY <3>2, <5>1
      <4> QED
        BY <4>1, <4>2
    <3> QED
      BY <3>3, <3>4, <3>5, <3>6 DEF Answered
  <2> QED
    BY <1>6, <2>1 DEF LeftOutForCause
<1> QED
  BY <1>8, <1>9, <1>10, <1>11, <1>12, <1>15 DEF MultiInv

-----------------------------------------------------------------------------
LEMMA MultiNextInv == MultiInv /\ [MultiNext]_multiVars => MultiInv'
<1> SUFFICES ASSUME MultiInv, [MultiNext]_multiVars PROVE MultiInv'
  OBVIOUS
<1>1. CASE UNCHANGED multiVars
  <2>1. UNCHANGED <<predictions, sortedIndices, i, selected, c, selectedBoxes, result, phase>>
    BY <1>1 DEF multiVars
  <2>2. MultiTypeOK'
    BY <2>1 DEF MultiInv, MultiTypeOK, SuppressionTypeOK
  <2>3. SuppressionInv'
    BY <2>1 DEF MultiInv, SuppressionInv, SuppressionTypeOK, SortedDown,
                SelectedSeen, SelectedApart, SuppressedForCause, BestKept, Score, Overlaps
  <2>4. LooksAtClass' /\ LooksOnce' /\ NothingYet'
    BY <2>1 DEF MultiInv, LooksAtClass, LooksOnce, Once, Members, NothingYet, FilteredBoxes, Score
  <2>5. SurvivorsApart' /\ SurvivorsForCause'
    BY <2>1 DEF MultiInv, SurvivorsApart, SurvivorsForCause, Members, Answered, Peers,
                FilteredBoxes, ClassOf, Score, Overlaps
  <2>6. ResultApart' /\ LeftOutForCause'
    BY <2>1 DEF MultiInv, ResultApart, LeftOutForCause, Returned, FilteredBoxes, ClassOf,
                Score, Overlaps
  <2> QED
    BY <2>2, <2>3, <2>4, <2>5, <2>6 DEF MultiInv
<1>2. CASE MultiNext
  BY <1>2, CallForClassInv, ConsiderForClassInv, AppendSurvivorsInv, KeepBestInv DEF MultiNext
<1> QED
  BY <1>1, <1>2

(* The inductive invariant of the loop over the classes around it.         *)
THEOREM MultiInvariance == MultiSpec => []MultiInv
BY MultiInitInv, MultiNextInv, PTL DEF MultiSpec

(* No two boxes that the function returns for one class overlap too much,  *)
(* and they come best first, within maxTotal.                              *)
THEOREM ReturnedApart == MultiSpec => []ResultApart
<1>1. MultiInv => ResultApart
  BY DEF MultiInv
<1> QED
  BY <1>1, MultiInvariance, PTL

(* A box over the score threshold is missing from what the function        *)
(* returns only for a reason that what it returns shows.                   *)
THEOREM MissingForCause == MultiSpec => []LeftOutForCause
<1>1. MultiInv => LeftOutForCause
  BY DEF MultiInv
<1> QED
  BY <1>1, MultiInvariance, PTL

(* Within each class nonMaxSuppression keeps what it promises.             *)
THEOREM EachClassSuppressed ==
  MultiSpec => [](SelectedApart /\ SuppressedForCause /\ BestKept)
<1>1. MultiInv => SelectedApart /\ SuppressedForCause /\ BestKept
  BY DEF MultiInv, SuppressionInv
<1> QED
  BY <1>1, MultiInvariance, PTL
=============================================================================
