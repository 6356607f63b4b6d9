--------------------------- MODULE EditScene_proofs ---------------------------
(***************************************************************************)
(* Proofs about the editor, for any number of templates, faces, stamps and *)
(* slider ticks, and any screen.                                           *)
(***************************************************************************)
EXTENDS EditScene, SequenceTheorems, WellFoundedInduction, TLAPS

Stamps == [center : Int, scale : Sizes]

(* The types that SizesFollowSlider rests on.                              *)
SizeTypes ==
  /\ mode \in {AutoMode, ManualMode}
  /\ slider \in 0 .. SliderMax
  /\ sizeRatio \in Sizes
  /\ stamps \in Seq(Stamps)
  /\ touch \in Int

EditInv == SizeTypes /\ SizesFollowSlider

-----------------------------------------------------------------------------
(* The picture is drawn by every handler that changes what it is drawn of. *)
THEOREM PictureStaysFresh == EditSpec => []PictureFresh
<1>1. EditInit => PictureFresh
  BY DEF EditInit, PictureFresh
<1>2. ASSUME PictureFresh, [EditNext]_editVars PROVE PictureFresh'
  <2>1. CASE ChangeSize
    BY <1>2, <2>1 DEF ChangeSize, PictureFresh
  <2>2. CASE DidSelectItem
    BY <1>2, <2>2 DEF DidSelectItem, PictureFresh
  <2>3. CASE SetAutoMode \/ SetManualMode \/ TouchBegan \/ TouchesMoved \/ TouchEnded
    BY <1>2, <2>3 DEF SetAutoMode, SetManualMode, TouchBegan, TouchesMoved, TouchEnded,
                      PictureFresh
  <2>4. CASE UNCHANGED editVars
    BY <1>2, <2>4 DEF editVars, PictureFresh
  <2>5. QED
    BY <1>2, <2>1, <2>2, <2>3, <2>4 DEF EditNext
<1>3. QED
  BY <1>1, <1>2, PTL DEF EditSpec

-----------------------------------------------------------------------------
(* The scales of the stamps, and what the handlers do to them.             *)
LEMMA SizeOpeInSizes ==
  /\ \A v \in 0 .. SliderMax : SizeOpe(v) \in Sizes
  /\ Middle \in 0 .. SliderMax
  /\ SizeOpe(Middle) \in Sizes
<1>1. SliderMax \in Nat
  BY EditAssumption
<1>2. \A v \in 0 .. SliderMax : SizeOpe(v) \in Sizes
  BY <1>1 DEF SizeOpe, Sizes
<1>3. Middle \in 0 .. SliderMax
  BY <1>1 DEF Middle
<1>4. QED
  BY <1>2, <1>3

LEMMA NewStampType == NewStamp \in Stamps /\ NewStamp.scale = SizeOpe(Middle)
<1>1. ImageTop + ImageSize \div 2 \in Int
  BY EditAssumption
<1>2. QED
  BY <1>1, SizeOpeInSizes DEF NewStamp, Stamps

(* A drag keeps the number of the stamps and the size of each.             *)
LEMMA FollowKeepsSizes ==
  ASSUME stamps \in Seq(Stamps), NEW carried, NEW delta \in Int, Follow(carried, delta)
  PROVE  /\ stamps' \in Seq(Stamps)
         /\ Len(stamps') = Len(stamps)
         /\ \A j \in 1 .. Len(stamps) : stamps'[j].scale = stamps[j].scale
<1> DEFINE New(j) == IF j \in carried THEN [stamps[j] EXCEPT !.center = @ + delta]
                                      ELSE stamps[j]
           n == Len(stamps)
<1>1. n \in Nat /\ DOMAIN stamps = 1 .. n
  OBVIOUS
<1>2. stamps' = [j \in 1 .. n |-> New(j)]
  BY <1>1 DEF Follow
<1>3. \A j \in 1 .. n : New(j) \in Stamps /\ New(j).scale = stamps[j].scale
  <2> TAKE j \in 1 .. n
  <2>1. PICK s \in Stamps : s = stamps[j]
    OBVIOUS
  <2>2. s.center + delta \in Int
    BY DEF Stamps
  <2>3. [s EXCEPT !.center = @ + delta] \in Stamps
        /\ [s EXCEPT !.center = @ + delta].scale = s.scale
    BY <2>2 DEF Stamps
  <2>4. QED
    BY <2>1, <2>3
<1> HIDE DEF New
<1>4. stamps' \in Seq(Stamps) /\ Len(stamps') = n
  BY <1>1, <1>2, <1>3
<1>5. QED
  BY <1>2, <1>3, <1>4

(* A slide in manual mode gives all the stamps one size.                   *)
LEMMA ResizeGivesOneSize ==
  ASSUME stamps \in Seq(Stamps), NEW size \in Sizes,
         stamps' = [j \in DOMAIN stamps |-> [stamps[j] EXCEPT !.scale = size]]
  PROVE  /\ stamps' \in Seq(Stamps)
         /\ Len(stamps') = Len(stamps)
         /\ \A j \in 1 .. Len(stamps) : stamps'[j].scale = size
<1> DEFINE New(j) == [stamps[j] EXCEPT !.scale = size]
           n == Len(stamps)
<1>1. n \in Nat /\ DOMAIN stamps = 1 .. n
  OBVIOUS
<1>2. stamps' = [j \in 1 .. n |-> New(j)]
  BY <1>1
<1>3. \A j \in 1 .. n : New(j) \in Stamps /\ New(j).scale = size
  <2> TAKE j \in 1 .. n
  <2>1. PICK s \in Stamps : s = stamps[j]
    OBVIOUS
  <2>2. [s EXCEPT !.scale = size] \in Stamps /\ [s EXCEPT !.scale = size].scale = size
    BY DEF Stamps
  <2>3. QED
    BY <2>1, <2>2
<1> HIDE DEF New
<1>4. stamps' \in Seq(Stamps) /\ Len(stamps') = n
  BY <1>1, <1>2, <1>3
<1>5. QED
  BY <1>2, <1>3, <1>4

-----------------------------------------------------------------------------
(* SizesFollowSlider's second conjunct: the first k stamps have one size,  *)
(* which the slider tells in manual mode, and the later ones the original. *)
Resized(k, size) ==
  /\ \A j \in 1 .. Len(stamps) :
       stamps[j].scale = IF j <= k THEN size ELSE SizeOpe(Middle)
  /\ mode = ManualMode /\ slider # Middle /\ k > 0 => size = SizeOpe(slider)

LEMMA ResizedDef ==
  SizesFollowSlider <=>
    /\ mode = AutoMode /\ slider # Middle => sizeRatio = SizeOpe(slider)
    /\ \E k \in 0 .. Len(stamps), size \in Sizes : Resized(k, size)
BY DEF SizesFollowSlider, Resized

LEMMA EditStart == EditInit => EditInv
<1> SUFFICES ASSUME EditInit PROVE EditInv
  OBVIOUS
<1>1. SizeTypes
  BY SizeOpeInSizes, EditAssumption DEF EditInit, SizeTypes, NoTouch
<1>2. Resized(0, SizeOpe(Middle)) /\ Len(stamps) = 0
  BY DEF EditInit, Resized
<1>3. SizesFollowSlider
  BY <1>2, SizeOpeInSizes, ResizedDef DEF EditInit
<1>4. QED
  BY <1>1, <1>3 DEF EditInv

(* A step that leaves the sizes and the slider alone keeps EditInv.        *)
LEMMA SizesKept ==
  ASSUME EditInv, UNCHANGED <<mode, slider, sizeRatio>>, touch' \in Int,
         stamps' \in Seq(Stamps), Len(stamps') = Len(stamps),
         \A j \in 1 .. Len(stamps) : stamps'[j].scale = stamps[j].scale
  PROVE  EditInv'
<1>1. SizeTypes'
  BY DEF EditInv, SizeTypes
<1>2. PICK k \in 0 .. Len(stamps), size \in Sizes : Resized(k, size)
  BY ResizedDef DEF EditInv
<1>3. (Resized(k, size))'
  BY <1>2 DEF Resized
<1>4. SizesFollowSlider'
  BY <1>2, <1>3 DEF EditInv, SizesFollowSlider, Resized
<1>5. QED
  BY <1>1, <1>4 DEF EditInv

(* A button of a mode puts the slider back to its middle.                  *)
LEMMA MiddleKept ==
  ASSUME EditInv, UNCHANGED <<sizeRatio, stamps, touch>>, mode' \in {AutoMode, ManualMode},
         slider' = Middle
  PROVE  EditInv'
<1>1. SizeTypes'
  BY SizeOpeInSizes DEF EditInv, SizeTypes
<1>2. PICK k \in 0 .. Len(stamps), size \in Sizes : Resized(k, size)
  BY ResizedDef DEF EditInv
<1>3. (Resized(k, size))'
  BY <1>2 DEF Resized
<1>4. SizesFollowSlider'
  BY <1>2, <1>3 DEF SizesFollowSlider, Resized
<1>5. QED
  BY <1>1, <1>4 DEF EditInv

LEMMA EditStep == EditInv /\ [EditNext]_editVars => EditInv'
<1> SUFFICES ASSUME EditInv, [EditNext]_editVars PROVE EditInv'
  OBVIOUS
<1>0. SizeTypes /\ AutoMode # ManualMode
  BY DEF EditInv, AutoMode, ManualMode
<1>1. CASE SetAutoMode \/ SetManualMode
  BY <1>1, MiddleKept DEF SetAutoMode, SetManualMode
<1>2. CASE ChangeSize /\ mode = AutoMode
  <2>1. /\ slider' \in 0 .. SliderMax /\ sizeRatio' = SizeOpe(slider')
        /\ UNCHANGED <<mode, stamps, touch>>
    BY <1>0, <1>2 DEF ChangeSize
  <2>2. SizeTypes'
    BY <1>0, <2>1, SizeOpeInSizes DEF SizeTypes
  <2>3. PICK k \in 0 .. Len(stamps), size \in Sizes : Resized(k, size)
    BY ResizedDef DEF EditInv
  <2>4. (Resized(k, size))'
    BY <1>0, <1>2, <2>1, <2>3 DEF Resized
  <2>5. SizesFollowSlider'
    BY <2>1, <2>3, <2>4 DEF SizesFollowSlider, Resized
  <2>6. QED
    BY <2>2, <2>5 DEF EditInv
<1>3. CASE ChangeSize /\ mode # AutoMode
  <2>1. /\ slider' \in 0 .. SliderMax /\ UNCHANGED <<mode, sizeRatio, touch>>
        /\ stamps' = [j \in DOMAIN stamps |->
                        [stamps[j] EXCEPT !.scale = SizeOpe(slider')]]
    BY <1>3 DEF ChangeSize
  <2>2. PICK size \in Sizes : size = SizeOpe(slider')
    BY <2>1, SizeOpeInSizes
  <2>3. PICK n \in Nat : n = Len(stamps)
    BY <1>0 DEF SizeTypes
  <2>4. stamps' = [j \in DOMAIN stamps |-> [stamps[j] EXCEPT !.scale = size]]
    BY <2>1, <2>2
  <2>5. /\ stamps' \in Seq(Stamps) /\ Len(stamps') = n
        /\ \A j \in 1 .. n : stamps'[j].scale = size
    BY <1>0, <2>3, <2>4, ResizeGivesOneSize DEF SizeTypes
  <2>6. SizeTypes'
    BY <1>0, <2>1, <2>5 DEF SizeTypes
  <2>7. (Resized(n, size))'
    BY <2>2, <2>5 DEF Resized
  <2>8. mode' # AutoMode /\ n \in 0 .. Len(stamps')
    BY <1>3, <2>1, <2>5
  <2>9. SizesFollowSlider'
    BY <2>7, <2>8 DEF SizesFollowSlider, Resized
  <2>10. QED
    BY <2>6, <2>9 DEF EditInv
<1>4. CASE DidSelectItem
  <2>1. UNCHANGED <<mode, slider, sizeRatio, touch>>
    BY <1>4 DEF DidSelectItem
  <2>2. CASE stamps' = stamps
    BY <1>0, <2>1, <2>2, SizesKept DEF SizeTypes
  <2>3. CASE stamps' = Append(stamps, NewStamp)
    <3> DEFINE n == Len(stamps)
    <3>1. /\ n \in Nat /\ Len(stamps') = n + 1 /\ stamps' \in Seq(Stamps)
          /\ stamps'[n + 1].scale = SizeOpe(Middle)
          /\ \A j \in 1 .. n : stamps'[j] = stamps[j]
      BY <1>0, <2>3, NewStampType DEF SizeTypes
    <3>2. SizeTypes'
      BY <1>0, <2>1, <3>1 DEF SizeTypes
    <3>3. PICK k \in 0 .. n, size \in Sizes : Resized(k, size)
      BY ResizedDef DEF EditInv
    <3>4. k \in 0 .. n + 1 /\ ~(n + 1 <= k)
      BY <3>1, <3>3
    <3>5. \A j \in 1 .. n + 1 : j \in 1 .. n \/ j = n + 1
      BY <3>1
    <3>6. \A j \in 1 .. n + 1 :
            stamps'[j].scale = IF j <= k THEN size ELSE SizeOpe(Middle)
      <4> TAKE j \in 1 .. n + 1
      <4>1. CASE j \in 1 .. n
        BY <3>1, <3>3, <4>1 DEF Resized
      <4>2. CASE j = n + 1
        BY <3>1, <3>4, <4>2
      <4>3. QED
        BY <3>5, <4>1, <4>2
    <3>7. mode' = ManualMode /\ slider' # Middle /\ k > 0 => size = SizeOpe(slider')
      BY <2>1, <3>3 DEF Resized
    <3>8. mode' = AutoMode /\ slider' # Middle => sizeRatio' = SizeOpe(slider')
      BY <2>1 DEF EditInv, SizesFollowSlider
    <3> HIDE DEF n
    <3>9. SizesFollowSlider'
      BY <3>1, <3>3, <3>4, <3>6, <3>7, <3>8 DEF SizesFollowSlider, Middle, SizeOpe
    <3>10. QED
      BY <3>2, <3>9 DEF EditInv
  <2>4. QED
    BY <1>4, <2>2, <2>3 DEF DidSelectItem
<1>5. CASE TouchesMoved
  <2>1. /\ UNCHANGED <<mode, slider, sizeRatio>>
        /\ touch' \in OnScreen
        /\ Follow(held', touch' - touch)
    BY <1>5 DEF TouchesMoved
  <2>2. touch' \in Int
    BY <2>1, EditAssumption DEF OnScreen
  <2>3. QED
    BY <1>0, <2>1, <2>2, SizesKept, FollowKeepsSizes DEF SizeTypes
<1>6. CASE TouchBegan \/ TouchEnded
  <2>1. UNCHANGED <<mode, slider, sizeRatio, stamps>>
    BY <1>6 DEF TouchBegan, TouchEnded
  <2>2. touch' \in Int
    BY <1>6, EditAssumption DEF TouchBegan, TouchEnded, NoTouch
  <2>3. QED
    BY <1>0, <2>1, <2>2, SizesKept DEF SizeTypes
<1>7. CASE UNCHANGED editVars
  BY <1>0, <1>7, SizesKept DEF editVars, SizeTypes
<1>8. QED
  BY <1>1, <1>2, <1>3, <1>4, <1>5, <1>6, <1>7 DEF EditNext

(* The inductive invariant of the sizes and the slider.                    *)
THEOREM EditInvariance == EditSpec => []EditInv
BY EditStart, EditStep, PTL DEF EditSpec

(* The slider off its middle tells the size of what it resizes, across any *)
(* changes of mode.                                                        *)
THEOREM SliderTellsSizes == EditSpec => []SizesFollowSlider
<1>1. EditInv => SizesFollowSlider
  BY DEF EditInv
<1>2. QED
  BY <1>1, EditInvariance, PTL

(* The handlers of a mode leave the other mode's work alone.               *)
THEOREM ModesStayApart == EditSpec => ModesApart
<1> DEFINE Apart == /\ mode = ManualMode => UNCHANGED <<picture, sizeRatio, selectedHige>>
                    /\ mode = AutoMode => [j \in DOMAIN stamps' |-> stamps'[j].scale]
                                        = [j \in DOMAIN stamps |-> stamps[j].scale]
<1>1. ASSUME EditInv, [EditNext]_editVars PROVE Apart
  <2>0. AutoMode # ManualMode /\ stamps \in Seq(Stamps) /\ touch \in Int
    BY <1>1 DEF AutoMode, ManualMode, EditInv, SizeTypes
  <2>1. CASE ChangeSize
    BY <2>0, <2>1 DEF ChangeSize
  <2>2. CASE DidSelectItem
    BY <2>0, <2>2 DEF DidSelectItem
  <2>3. CASE TouchesMoved
    <3>1. /\ UNCHANGED <<picture, sizeRatio, selectedHige>> /\ touch' \in Int
          /\ Follow(held', touch' - touch)
      BY <2>3, EditAssumption DEF TouchesMoved, OnScreen
    <3>2. /\ stamps' \in Seq(Stamps) /\ Len(stamps') = Len(stamps)
          /\ \A j \in 1 .. Len(stamps) : stamps'[j].scale = stamps[j].scale
      BY <2>0, <3>1, FollowKeepsSizes
    <3>3. DOMAIN stamps' = 1 .. Len(stamps) /\ DOMAIN stamps = 1 .. Len(stamps)
      BY <2>0, <3>2
    <3>4. QED
      BY <3>1, <3>2, <3>3
  <2>4. CASE SetAutoMode \/ SetManualMode \/ TouchBegan \/ TouchEnded
    BY <2>4 DEF SetAutoMode, SetManualMode, TouchBegan, TouchEnded
  <2>5. CASE UNCHANGED editVars
    BY <2>5 DEF editVars
  <2>6. QED
    BY <1>1, <2>1, <2>2, <2>3, <2>4, <2>5 DEF EditNext
<1>2. EditInv /\ [EditNext]_editVars =>
        [/\ mode = ManualMode => UNCHANGED <<picture, sizeRatio, selectedHige>>
         /\ mode = AutoMode =>
              [i \in DOMAIN stamps' |-> stamps'[i].scale]
                = [i \in DOMAIN stamps |-> stamps[i].scale]
        ]_editVars
  BY <1>1
<1> HIDE DEF Apart
<1>3. QED
  BY <1>2, EditInvariance, PTL DEF EditSpec, ModesApart
-----------------------------------------------------------------------------
(* What the stamp's frame has to do with the finger that carries it.       *)
LEMMA RadiusBound ==
  ASSUME NEW stamp \in Stamps
  PROVE  Radius(stamp) \in Nat /\ Radius(stamp) <= MaxRadius
<1> DEFINE area == StampRadius * stamp.scale
           most == StampRadius * (2 * SliderMax)
<1>1. SliderMax \in Nat \ {0} /\ StampRadius \in Nat
  BY EditAssumption
<1>2. stamp.scale \in Nat /\ stamp.scale <= 2 * SliderMax
  BY <1>1 DEF Stamps, Sizes
<1>3. area \in Nat /\ most \in Nat
  BY <1>1, <1>2
<1>4. area <= most
  BY <1>1, <1>2
<1>5. most = MaxRadius * SliderMax /\ MaxRadius \in Nat
  BY <1>1 DEF MaxRadius
<1> HIDE DEF area, most
<1>6. PICK r \in Nat : r = area \div SliderMax
  BY <1>1, <1>3
<1>7. r * SliderMax <= area
  BY <1>1, <1>3, <1>6
<1>8. r <= MaxRadius
  <2>1. SUFFICES ASSUME r >= MaxRadius + 1 PROVE FALSE
    BY <1>5, <1>6
  <2>2. r * SliderMax >= (MaxRadius + 1) * SliderMax
    BY <1>1, <1>5, <2>1
  <2>3. (MaxRadius + 1) * SliderMax = MaxRadius * SliderMax + SliderMax
    BY <1>1, <1>5
  <2>4. QED
    BY <1>1, <1>3, <1>4, <1>5, <1>7, <2>2, <2>3
<1>9. QED
  BY <1>6, <1>8 DEF Radius, area

(* A stamp within a finger's reach.                                        *)
Reached(stamp) ==
  \E x \in OnScreen : x - MaxRadius <= stamp.center /\ stamp.center <= x + MaxRadius

LEMMA CarriedReached ==
  ASSUME NEW stamp \in Stamps, NEW from \in Int, NEW to \in OnScreen,
         Contains1D(stamp, from)
  PROVE  /\ Reached([stamp EXCEPT !.center = @ + (to - from)])
         /\ Contains1D([stamp EXCEPT !.center = @ + (to - from)], to)
<1> DEFINE moved == [stamp EXCEPT !.center = @ + (to - from)]
<1>1. to \in Int /\ MaxRadius \in Nat
  BY EditAssumption DEF OnScreen, MaxRadius
<1>2. stamp.center \in Int /\ moved.center = stamp.center + (to - from)
      /\ moved.scale = stamp.scale
  BY DEF Stamps
<1>3. Radius(moved) = Radius(stamp)
  BY <1>2 DEF Radius
<1>4. PICK r \in Nat : r = Radius(stamp) /\ r <= MaxRadius
  BY RadiusBound
<1>5. stamp.center - r <= from /\ from < stamp.center + r
  BY <1>4 DEF Contains1D
<1> HIDE DEF moved
<1>6. moved.center - r <= to /\ to < moved.center + r
  BY <1>1, <1>2, <1>4, <1>5
<1>7. Contains1D(moved, to)
  BY <1>3, <1>4, <1>6 DEF Contains1D
<1>8. moved.center \in Int
  BY <1>1, <1>2
<1>9. to - MaxRadius <= moved.center /\ moved.center <= to + MaxRadius
  BY <1>1, <1>4, <1>6, <1>8
<1>10. QED
  BY <1>7, <1>9 DEF Reached, moved

LEMMA NewStampReached == Reached(NewStamp)
<1>1. /\ ImageTop \in Nat /\ ImageSize \in Nat /\ ScreenSize \in Nat /\ MaxRadius \in Nat
      /\ ImageTop + (ImageTop + ImageSize \div 2) <= ScreenSize
  BY EditAssumption DEF MaxRadius
<1>2. PICK half \in Nat : half = ImageSize \div 2
  BY <1>1
<1>3. NewStamp.center = ImageTop + half /\ NewStamp.center \in OnScreen
  BY <1>1, <1>2 DEF NewStamp, OnScreen
<1>4. QED
  BY <1>1, <1>3 DEF Reached
-----------------------------------------------------------------------------
(* The stamps a finger holds are stamps under it, and every centre is in   *)
(* some finger's reach.                                                    *)
HeldUnder == held \subseteq Under(touch)

StampsHeld ==
  /\ touch = NoTouch => held = {}
  /\ HeldUnder
  /\ \A i \in 1 .. Len(stamps) : Reached(stamps[i])

HeldInv == SizeTypes /\ StampsHeld

LEMMA HeldStart == EditInit => StampsHeld
BY DEF EditInit, StampsHeld, HeldUnder

(* A step that moves no stamp keeps them in reach.                         *)
LEMMA ReachKept ==
  ASSUME SizeTypes, StampsHeld, stamps' \in Seq(Stamps), Len(stamps') = Len(stamps),
         \A i \in 1 .. Len(stamps) : stamps'[i].center = stamps[i].center
  PROVE  \A i \in 1 .. Len(stamps') : Reached(stamps'[i])
BY DEF StampsHeld, Reached

LEMMA HeldStep == HeldInv /\ [EditNext]_editVars => StampsHeld'
<1> SUFFICES ASSUME HeldInv, [EditNext]_editVars PROVE StampsHeld'
  OBVIOUS
<1>0. SizeTypes /\ StampsHeld /\ stamps \in Seq(Stamps) /\ touch \in Int
  BY DEF HeldInv, SizeTypes
<1>1. PICK n \in Nat : n = Len(stamps) /\ DOMAIN stamps = 1 .. n
  BY <1>0
<1>2. ASSUME UNCHANGED stamps, held' = {} \/ (held' = held /\ touch' = touch),
             touch' = NoTouch => held' = {}
      PROVE  StampsHeld'
  <2>1. HeldUnder'
    BY <1>0, <1>2 DEF StampsHeld, HeldUnder, Under
  <2>2. \A i \in 1 .. Len(stamps') : Reached(stamps'[i])
    BY <1>0, <1>2 DEF StampsHeld
  <2>3. QED
    BY <1>2, <2>1, <2>2 DEF StampsHeld, Reached
<1>3. CASE UNCHANGED <<stamps, held, touch>>
  BY <1>0, <1>2, <1>3 DEF StampsHeld
<1>4. CASE TouchBegan \/ TouchEnded
  BY <1>2, <1>4 DEF TouchBegan, TouchEnded
<1>5. CASE ChangeSize /\ mode # AutoMode
  <2>1. /\ held' = {} /\ UNCHANGED touch /\ slider' \in 0 .. SliderMax
        /\ stamps' = [i \in DOMAIN stamps |->
                        [stamps[i] EXCEPT !.scale = SizeOpe(slider')]]
    BY <1>5 DEF ChangeSize
  <2>2. PICK size \in Sizes : size = SizeOpe(slider')
    BY <2>1, SizeOpeInSizes
  <2>3. stamps' = [i \in DOMAIN stamps |-> [stamps[i] EXCEPT !.scale = size]]
    BY <2>1, <2>2
  <2>4. stamps' \in Seq(Stamps) /\ Len(stamps') = n
    BY <1>0, <1>1, <2>3, ResizeGivesOneSize
  <2>5. \A i \in 1 .. n : stamps'[i].center = stamps[i].center
    <3> TAKE i \in 1 .. n
    <3>1. stamps[i] \in Stamps /\ stamps'[i] = [stamps[i] EXCEPT !.scale = size]
      BY <1>0, <1>1, <2>3
    <3>2. QED
      BY <3>1 DEF Stamps
  <2>6. \A i \in 1 .. Len(stamps') : Reached(stamps'[i])
    BY <1>0, <1>1, <2>4, <2>5, ReachKept
  <2>7. QED
    BY <2>1, <2>6 DEF StampsHeld, HeldUnder, Reached
<1>6. CASE DidSelectItem /\ mode # AutoMode
  <2>1. stamps' = Append(stamps, NewStamp) /\ UNCHANGED <<touch, held>>
    BY <1>6 DEF DidSelectItem
  <2>2. /\ stamps' \in Seq(Stamps) /\ Len(stamps') = n + 1
        /\ stamps'[n + 1] = NewStamp
        /\ \A i \in 1 .. n : stamps'[i] = stamps[i]
    BY <1>0, <1>1, <2>1, NewStampType
  <2>3. HeldUnder'
    BY <1>0, <1>1, <2>1, <2>2 DEF StampsHeld, HeldUnder, Under, Contains1D, Radius
  <2>4. \A i \in 1 .. n + 1 : i \in 1 .. n \/ i = n + 1
    BY <1>1
  <2>5. \A i \in 1 .. Len(stamps') : Reached(stamps'[i])
    BY <1>0, <1>1, <2>2, <2>4, NewStampReached DEF StampsHeld
  <2>6. QED
    BY <1>0, <2>1, <2>3, <2>5 DEF StampsHeld, Reached
<1>7. CASE TouchesMoved
  <2>1. /\ touch' \in OnScreen /\ held' = Under(touch) /\ Follow(held', touch' - touch)
    BY <1>7 DEF TouchesMoved
  <2>2. touch' \in Int /\ touch' # NoTouch
    BY <2>1, EditAssumption DEF OnScreen, NoTouch
  <2>3. stamps' \in Seq(Stamps) /\ Len(stamps') = n
    BY <1>0, <1>1, <2>1, <2>2, FollowKeepsSizes
  <2>4. \A i \in 1 .. n : stamps[i] \in Stamps
    BY <1>0, <1>1
  <2>5. \A i \in 1 .. n :
          stamps'[i] = IF i \in Under(touch)
                       THEN [stamps[i] EXCEPT !.center = @ + (touch' - touch)]
                       ELSE stamps[i]
    BY <1>1, <2>1 DEF Follow
  <2>6. \A i \in Under(touch) : i \in 1 .. n /\ Contains1D(stamps[i], touch)
    BY <1>1 DEF Under
  <2>7. \A i \in Under(touch) :
          Reached(stamps'[i]) /\ Contains1D(stamps'[i], touch')
    <3> TAKE i \in Under(touch)
    <3>1. PICK stamp \in Stamps : stamp = stamps[i]
      BY <2>4, <2>6
    <3>2. PICK to \in OnScreen : to = touch'
      BY <2>1
    <3>3. stamps'[i] = [stamp EXCEPT !.center = @ + (to - touch)]
      BY <2>5, <2>6, <3>1, <3>2
    <3>4. Contains1D(stamp, touch)
      BY <2>6, <3>1
    <3>5. QED
      BY <1>0, <3>2, <3>3, <3>4, CarriedReached
  <2>8. \A i \in 1 .. n : Reached(stamps'[i])
    BY <1>0, <1>1, <2>5, <2>7 DEF StampsHeld
  <2>9. HeldUnder'
    BY <2>1, <2>3, <2>6, <2>7 DEF HeldUnder, Under, Contains1D, Radius
  <2>10. QED
    BY <2>2, <2>3, <2>8, <2>9 DEF StampsHeld, Reached
<1>8. UNCHANGED <<stamps, held, touch>>
      \/ TouchBegan \/ TouchEnded \/ TouchesMoved
      \/ (ChangeSize /\ mode # AutoMode) \/ (DidSelectItem /\ mode # AutoMode)
  BY DEF EditNext, editVars, SetAutoMode, SetManualMode, ChangeSize, DidSelectItem
<1>9. QED
  BY <1>3, <1>4, <1>5, <1>6, <1>7, <1>8

(* The inductive invariant of the drags (touchesMoved): what a finger      *)
(* holds is under it, and every stamp within reach of one.                 *)
THEOREM HeldInvariance == EditSpec => []HeldInv
<1>1. EditInv => SizeTypes
  BY DEF EditInv
<1>2. EditInit => StampsHeld
  BY HeldStart
<1>3. SizeTypes /\ StampsHeld /\ [EditNext]_editVars => StampsHeld'
  BY HeldStep DEF HeldInv
<1>4. QED
  BY <1>1, <1>2, <1>3, EditInvariance, PTL DEF EditSpec, HeldInv

(* A drag never loses a stamp it has hold of, unless a slide resizes it.   *)
THEOREM DragsKeepHold == EditSpec => DragKeepsHold
<1>1. HeldInv /\ [EditNext]_editVars => [TouchesMoved => held \subseteq held']_editVars
  BY DEF HeldInv, StampsHeld, HeldUnder, TouchesMoved
<1>2. QED
  BY <1>1, HeldInvariance, PTL DEF EditSpec, DragKeepsHold

-----------------------------------------------------------------------------
(* imageView's subviews: n stamps, each of them somewhere, once.           *)
Stacked(views, n) ==
  /\ views \in Seq(1 .. n)
  /\ Len(views) = n
  /\ \A i \in 1 .. n : \E p \in 1 .. n : views[p] = i
  /\ \A p, q \in 1 .. n : views[p] = views[q] => p = q

(* A stamp added again leaves its place for the front, and those above it  *)
(* move down.                                                              *)
MovedToFront(new, views, at, n) ==
  /\ new \in Seq(1 .. n)
  /\ Len(new) = n
  /\ new[n] = views[at]
  /\ \A p \in 1 .. at - 1 : new[p] = views[p]
  /\ \A p \in at .. n - 1 : new[p] = views[p + 1]

LEMMA AddedPlaces ==
  ASSUME NEW n \in Nat, NEW views, Stacked(views, n), NEW i \in 1 .. n
  PROVE  \E at \in 1 .. n : views[at] = i /\ MovedToFront(AddSubview(views, i), views, at, n)
<1> DEFINE places == {p \in DOMAIN views : views[p] = i}
           at == CHOOSE p \in places : TRUE
           rest == RemoveAt(views, at)
<1>0. views \in Seq(1 .. n) /\ Len(views) = n /\ DOMAIN views = 1 .. n
  BY DEF Stacked
<1>1. places # {}
  BY <1>0 DEF Stacked
<1>2. at \in 1 .. n /\ views[at] = i
  BY <1>0, <1>1
<1>3. AddSubview(views, i) = Append(rest, i)
  BY <1>1 DEF AddSubview
<1> DEFINE before == SubSeq(views, 1, at - 1)
           after  == SubSeq(views, at + 1, n)
<1> HIDE DEF places, at
<1>4. /\ before \in Seq(1 .. n) /\ Len(before) = at - 1
      /\ \A p \in 1 .. at - 1 : before[p] = views[p]
  BY <1>0, <1>2
<1>5. /\ after \in Seq(1 .. n) /\ Len(after) = n - at
      /\ \A p \in 1 .. n - at : after[p] = views[at + p]
  BY <1>0, <1>2
<1> HIDE DEF before, after
<1>6. rest = before \o after
  BY <1>0 DEF RemoveAt, before, after
<1>7. /\ rest \in Seq(1 .. n) /\ Len(rest) = n - 1
      /\ \A p \in 1 .. at - 1 : rest[p] = views[p]
      /\ \A p \in at .. n - 1 : rest[p] = views[p + 1]
  <2>1. rest \in Seq(1 .. n) /\ Len(rest) = n - 1
    <3>1. \A S : before \in Seq(S) /\ after \in Seq(S)
                 => rest \in Seq(S) /\ Len(rest) = Len(before) + Len(after)
      BY <1>6
    <3>2. (at - 1) + (n - at) = n - 1
      BY <1>2
    <3>3. QED
      BY <1>4, <1>5, <3>1, <3>2, Zenon
  <2>2. \A p \in 1 .. at - 1 : rest[p] = views[p]
    BY <1>2, <1>4, <1>5, <1>6
  <2>3. \A p \in at .. n - 1 : rest[p] = views[p + 1]
    <3> TAKE p \in at .. n - 1
    <3>1. rest[p] = after[p - (at - 1)]
      BY <1>2, <1>4, <1>5, <1>6
    <3>2. p - (at - 1) \in 1 .. n - at /\ at + (p - (at - 1)) = p + 1
      BY <1>2
    <3>3. QED
      BY <1>5, <3>1, <3>2
  <2>4. QED
    BY <2>1, <2>2, <2>3
<1> HIDE DEF rest
<1>8. /\ Append(rest, i) \in Seq(1 .. n) /\ Len(Append(rest, i)) = n
      /\ Append(rest, i)[n] = i
      /\ \A p \in 1 .. n - 1 : Append(rest, i)[p] = rest[p]
  BY <1>7
<1>9. \A p \in 1 .. at - 1 : p \in 1 .. n - 1
  BY <1>2
<1>10. \A p \in at .. n - 1 : p \in 1 .. n - 1
  BY <1>2
<1> DEFINE new == Append(rest, i)
<1>11. MovedToFront(new, views, at, n)
  BY <1>2, <1>7, <1>8, <1>9, <1>10 DEF MovedToFront
<1> HIDE DEF new
<1>12. MovedToFront(AddSubview(views, i), views, at, n)
  BY <1>3, <1>11 DEF new
<1>13. QED
  BY <1>2, <1>12

LEMMA AddedAgain ==
  ASSUME NEW n \in Nat, NEW views, Stacked(views, n), NEW i \in 1 .. n
  PROVE  Stacked(AddSubview(views, i), n)
<1> DEFINE new == AddSubview(views, i)
<1> HIDE DEF new
<1>0. PICK at \in 1 .. n : views[at] = i /\ MovedToFront(new, views, at, n)
  BY AddedPlaces DEF new
<1>1. /\ views[at] = i
      /\ new \in Seq(1 .. n) /\ Len(new) = n /\ new[n] = i
      /\ \A p \in 1 .. at - 1 : new[p] = views[p]
      /\ \A p \in at .. n - 1 : new[p] = views[p + 1]
  BY <1>0 DEF MovedToFront
<1>2. n \in 1 .. n /\ \A p, q \in 1 .. n : views[p] = views[q] => p = q
  BY DEF Stacked
<1>3. \A p \in 1 .. n : p \in 1 .. at - 1 \/ p \in at .. n - 1 \/ p = n
  OBVIOUS
<1>4. \A p \in 1 .. at - 1 : p \in 1 .. n /\ p # at
  OBVIOUS
<1>5. \A p \in at .. n - 1 : p + 1 \in 1 .. n /\ p + 1 # at /\ p \in 1 .. n
  OBVIOUS
<1>6. ASSUME NEW j \in 1 .. n PROVE \E p \in 1 .. n : new[p] = j
  <2>1. PICK p \in 1 .. n : views[p] = j
    BY DEF Stacked
  <2>2. CASE p \in 1 .. at - 1
    BY <1>1, <2>1, <2>2
  <2>3. CASE p = at
    BY <1>1, <1>2, <2>1, <2>3
  <2>4. CASE p \in at + 1 .. n
    <3>1. p - 1 \in at .. n - 1 /\ (p - 1) + 1 = p
      BY <2>4
    <3>2. new[p - 1] = j /\ p - 1 \in 1 .. n
      BY <1>1, <1>5, <2>1, <3>1
    <3>3. QED
      BY <3>2
  <2>5. p \in 1 .. at - 1 \/ p = at \/ p \in at + 1 .. n
    BY <2>1
  <2>6. QED
    BY <2>2, <2>3, <2>4, <2>5
<1>7. ASSUME NEW p \in 1 .. n, NEW q \in 1 .. n, new[p] = new[q] PROVE p = q
  <2>1. CASE p \in 1 .. at - 1 /\ q \in 1 .. at - 1
    BY <1>1, <1>2, <1>4, <1>7, <2>1
  <2>2. CASE p \in at .. n - 1 /\ q \in at .. n - 1
    <3>1. p + 1 = q + 1
      BY <1>1, <1>2, <1>5, <1>7, <2>2
    <3>2. QED
      BY <3>1
  <2>3. CASE p \in 1 .. at - 1 /\ q \in at .. n - 1
    <3>1. p = q + 1
      BY <1>1, <1>2, <1>4, <1>5, <1>7, <2>3
    <3>2. QED
      BY <2>3, <3>1
  <2>4. CASE p \in at .. n - 1 /\ q \in 1 .. at - 1
    <3>1. q = p + 1
      BY <1>1, <1>2, <1>4, <1>5, <1>7, <2>4
    <3>2. QED
      BY <2>4, <3>1
  <2>5. \A r \in 1 .. n : r # n => new[r] # i
    BY <1>1, <1>2, <1>3, <1>4, <1>5
  <2>6. CASE p = n \/ q = n
    BY <1>1, <1>7, <2>5, <2>6
  <2>7. QED
    BY <1>3, <2>1, <2>2, <2>3, <2>4, <2>6
<1>8. QED
  BY <1>1, <1>6, <1>7 DEF Stacked, new

(* A new one comes on top of the others.                                   *)
LEMMA AddedNew ==
  ASSUME NEW n \in Nat, NEW views, Stacked(views, n)
  PROVE  Stacked(AddSubview(views, n + 1), n + 1)
<1>0. views \in Seq(1 .. n) /\ Len(views) = n /\ DOMAIN views = 1 .. n
  BY DEF Stacked
<1>1. {p \in DOMAIN views : views[p] = n + 1} = {}
  BY <1>0
<1>2. AddSubview(views, n + 1) = Append(views, n + 1)
  BY <1>1 DEF AddSubview
<1>3. views \in Seq(1 .. n + 1)
  BY <1>0
<1>4. /\ Append(views, n + 1) \in Seq(1 .. n + 1) /\ Len(Append(views, n + 1)) = n + 1
      /\ Append(views, n + 1)[n + 1] = n + 1
      /\ \A p \in 1 .. n : Append(views, n + 1)[p] = views[p]
  BY <1>0, <1>3
<1>5. \A j \in 1 .. n + 1 : j \in 1 .. n \/ j = n + 1
  OBVIOUS
<1>6. ASSUME NEW j \in 1 .. n + 1
      PROVE  \E p \in 1 .. n + 1 : Append(views, n + 1)[p] = j
  <2>1. CASE j = n + 1
    BY <1>4, <2>1
  <2>2. CASE j \in 1 .. n
    <3>1. PICK p \in 1 .. n : views[p] = j
      BY <2>2 DEF Stacked
    <3>2. p \in 1 .. n + 1
      BY <3>1
    <3>3. QED
      BY <1>4, <3>1, <3>2
  <2>3. QED
    BY <1>5, <2>1, <2>2
<1>7. ASSUME NEW p \in 1 .. n + 1, NEW q \in 1 .. n + 1,
             Append(views, n + 1)[p] = Append(views, n + 1)[q]
      PROVE  p = q
  <2>1. \A r \in 1 .. n : Append(views, n + 1)[r] \in 1 .. n /\ n + 1 \notin 1 .. n
    BY <1>0, <1>4
  <2>2. CASE p \in 1 .. n /\ q \in 1 .. n
    BY <1>4, <1>7, <2>2 DEF Stacked
  <2>3. CASE p = n + 1 \/ q = n + 1
    BY <1>4, <1>5, <1>7, <2>1, <2>3
  <2>4. QED
    BY <1>5, <2>2, <2>3
<1> DEFINE new == Append(views, n + 1)
<1>8. /\ new \in Seq(1 .. n + 1) /\ Len(new) = n + 1
      /\ \A j \in 1 .. n + 1 : \E p \in 1 .. n + 1 : new[p] = j
      /\ \A p, q \in 1 .. n + 1 : new[p] = new[q] => p = q
  BY <1>4, <1>6, <1>7
<1>9. AddSubview(views, n + 1) = new
  BY <1>2
<1> HIDE DEF new
<1>10. QED
  BY <1>8, <1>9 DEF Stacked

(* The order of the subviews after one of them has been added again.       *)
LEMMA AddedInFront ==
  ASSUME NEW n \in Nat, NEW views, Stacked(views, n), NEW k \in 1 .. n,
         NEW i \in 1 .. n, NEW j \in 1 .. n
  PROVE  Behind(AddSubview(views, k), i, j) <=>
           i # k /\ (j = k \/ Behind(views, i, j))
<1> DEFINE new == AddSubview(views, k)
<1> HIDE DEF new
<1>1. PICK at \in 1 .. n : views[at] = k /\ MovedToFront(new, views, at, n)
  BY AddedPlaces DEF new
<1>2. /\ new \in Seq(1 .. n) /\ Len(new) = n /\ new[n] = k
      /\ \A p \in 1 .. at - 1 : new[p] = views[p]
      /\ \A p \in at .. n - 1 : new[p] = views[p + 1]
  BY <1>1 DEF MovedToFront
<1>3. /\ Len(views) = n /\ n \in 1 .. n
      /\ \A p, q \in 1 .. n : views[p] = views[q] => p = q
  BY DEF Stacked
<1> DEFINE old(p) == IF p < at THEN p ELSE p + 1
<1>4. \A p \in 1 .. n : p # n => old(p) \in 1 .. n /\ old(p) # at /\ new[p] = views[old(p)]
  BY <1>2
<1>5. \A p \in 1 .. n : p # n => new[p] # k
  BY <1>1, <1>3, <1>4
<1>6. ASSUME Behind(new, i, j) PROVE i # k /\ (j = k \/ Behind(views, i, j))
  <2>1. PICK p \in 1 .. n, q \in 1 .. n : p < q /\ new[p] = i /\ new[q] = j
    BY <1>2, <1>6 DEF Behind
  <2>2. i # k
    BY <1>5, <2>1
  <2>3. CASE q = n
    BY <1>2, <2>1, <2>2, <2>3
  <2>4. CASE q # n
    <3>1. old(p) < old(q) /\ p # n
      BY <2>1, <2>4
    <3>2. views[old(p)] = i /\ views[old(q)] = j /\ old(p) \in 1 .. n /\ old(q) \in 1 .. n
      BY <1>4, <2>1, <2>4, <3>1
    <3> HIDE DEF old
    <3>3. QED
      BY <1>3, <2>2, <3>1, <3>2 DEF Behind
  <2>5. QED
    BY <2>3, <2>4
<1>7. ASSUME i # k, j = k \/ Behind(views, i, j) PROVE Behind(new, i, j)
  <2> DEFINE now(p) == IF p < at THEN p ELSE p - 1
  <2>1. \A p \in 1 .. n : p # at => now(p) \in 1 .. n /\ now(p) < n /\ new[now(p)] = views[p]
    <3> TAKE p \in 1 .. n
    <3>1. CASE p < at
      <4>1. p \in 1 .. at - 1
        BY <3>1
      <4>2. QED
        BY <1>2, <3>1, <4>1
    <3>2. CASE p > at
      <4>1. p - 1 \in at .. n - 1 /\ (p - 1) + 1 = p
        BY <3>2
      <4>2. new[p - 1] = views[p]
        BY <1>2, <4>1
      <4>3. QED
        BY <3>2, <4>1, <4>2
    <3>3. QED
      BY <3>1, <3>2
  <2>2. CASE j = k
    <3>1. PICK p \in 1 .. n : views[p] = i
      BY DEF Stacked
    <3>2. p # at
      BY <1>1, <1>7, <3>1
    <3>3. now(p) \in 1 .. n /\ now(p) < n /\ new[now(p)] = i
      BY <2>1, <3>1, <3>2
    <3> HIDE DEF now
    <3>4. QED
      BY <1>2, <1>3, <2>2, <3>3 DEF Behind
  <2>3. CASE j # k /\ Behind(views, i, j)
    <3>1. PICK p \in 1 .. n, q \in 1 .. n : p < q /\ views[p] = i /\ views[q] = j
      BY <1>3, <2>3 DEF Behind
    <3>2. p # at /\ q # at
      BY <1>1, <1>7, <2>3, <3>1
    <3>3. now(p) < now(q)
      BY <3>1, <3>2
    <3>4. /\ now(p) \in 1 .. n /\ now(q) \in 1 .. n
          /\ new[now(p)] = i /\ new[now(q)] = j
      BY <2>1, <3>1, <3>2
    <3> HIDE DEF now
    <3>5. QED
      BY <1>2, <3>3, <3>4 DEF Behind
  <2>4. QED
    BY <1>7, <2>2, <2>3
<1>8. QED
  BY <1>6, <1>7 DEF new

(* A set of numbers has a least one.                                       *)
LEMMA LeastNumber ==
  ASSUME NEW T \in SUBSET Nat, T # {}
  PROVE  \E m \in T : \A k \in T : m <= k
<1>1. PICK m \in T : \A k \in T : <<k, m>> \notin OpToRel(<, Nat)
  BY WFMin, NatLessThanWellFounded
<1>2. ASSUME NEW k \in T PROVE ~(k < m)
  BY <1>1 DEF OpToRel
<1>3. QED
  BY <1>2

(* The loop of touchesMoved, after i stamps.                               *)
LoopOf(f, last, views, raised) ==
  f = [i \in 0 .. last |->
         CASE i = 0        -> views
           [] i \in raised -> AddSubview(f[i - 1], i)
           [] OTHER        -> f[i - 1]]

(* It runs from the first stamp to any other: a longer run begins as a     *)
(* shorter one.                                                            *)
LEMMA LoopRuns ==
  ASSUME NEW n \in Nat, NEW views, NEW raised \in SUBSET (1 .. n)
  PROVE  \E f : LoopOf(f, n, views, raised)
<1> DEFINE stuck == {m \in Nat : ~ \E f : LoopOf(f, m, views, raised)}
<1>1. SUFFICES ASSUME stuck # {} PROVE FALSE
  OBVIOUS
<1>2. PICK m \in stuck : \A k \in stuck : m <= k
  BY <1>1, LeastNumber
<1>3. m \in Nat /\ ~ \E f : LoopOf(f, m, views, raised)
  BY <1>2
<1>4. CASE m = 0
  <2> DEFINE f == [i \in 0 .. 0 |-> views]
  <2>1. f = [i \in 0 .. m |->
               CASE i = 0        -> views
                 [] i \in raised -> AddSubview(f[i - 1], i)
                 [] OTHER        -> f[i - 1]]
    BY <1>4
  <2> HIDE DEF f
  <2>2. QED
    BY <1>3, <2>1 DEF LoopOf
<1>5. CASE m # 0
  <2>1. m - 1 \in Nat /\ ~(m <= m - 1)
    BY <1>3, <1>5
  <2>2. PICK f : LoopOf(f, m - 1, views, raised)
    BY <1>2, <2>1
  <2> DEFINE g == [i \in 0 .. m |->
                     CASE i = 0        -> views
                       [] i \in raised -> AddSubview(f[i - 1], i)
                       [] OTHER        -> f[i - 1]]
  <2>3. \A i \in 0 .. m - 1 : g[i] = f[i]
    <3> TAKE i \in 0 .. m - 1
    <3>1. i \in 0 .. m
      BY <1>3
    <3>2. f[i] = CASE i = 0        -> views
                   [] i \in raised -> AddSubview(f[i - 1], i)
                   [] OTHER        -> f[i - 1]
      BY <2>2 DEF LoopOf
    <3>3. QED
      BY <3>1, <3>2
  <2>4. \A i \in 0 .. m : i = 0 \/ g[i - 1] = f[i - 1]
    <3> TAKE i \in 0 .. m
    <3>1. i = 0 \/ i - 1 \in 0 .. m - 1
      BY <1>3
    <3>2. QED
      BY <2>3, <3>1
  <2>5. LoopOf(g, m, views, raised)
    <3> DEFINE After(h, i) == CASE i = 0        -> views
                               [] i \in raised -> AddSubview(h[i - 1], i)
                               [] OTHER        -> h[i - 1]
    <3>1. g = [i \in 0 .. m |-> After(f, i)]
      OBVIOUS
    <3> HIDE DEF g
    <3>2. \A i \in 0 .. m : After(f, i) = After(g, i)
      <4> TAKE i \in 0 .. m
      <4>1. CASE i = 0
        BY <4>1
      <4>2. CASE i # 0
        <5>1. g[i - 1] = f[i - 1]
          BY <2>4, <4>2
        <5>2. QED
          BY <4>2, <5>1
      <4>3. QED
        BY <4>1, <4>2
    <3> HIDE DEF After
    <3>3. g = [i \in 0 .. m |-> After(g, i)]
      BY <3>1, <3>2
    <3>4. QED
      BY <3>3 DEF LoopOf, After
  <2>6. QED
    BY <1>3, <2>5
<1>6. QED
  BY <1>4, <1>5

(* Once the loop has raised some stamps they are in front, in the order of *)
(* their numbers, and the others behind them in the order they had.        *)
InFront(new, views, raised, n) ==
  \A i, j \in 1 .. n :
    Behind(new, i, j) <=>
      \/ i \notin raised /\ j \in raised
      \/ {i, j} \subseteq raised /\ i < j
      \/ i \notin raised /\ j \notin raised /\ Behind(views, i, j)

LEMMA RaisesNext ==
  ASSUME NEW n \in Nat, NEW views, NEW raised \in SUBSET (1 .. n), NEW k \in 1 .. n,
         NEW now, Stacked(now, n), InFront(now, views, raised, n),
         \A i \in raised : i < k
  PROVE  InFront(AddSubview(now, k), views, raised \cup {k}, n)
<1> SUFFICES ASSUME NEW i \in 1 .. n, NEW j \in 1 .. n
    PROVE  Behind(AddSubview(now, k), i, j) <=>
             \/ i \notin raised \cup {k} /\ j \in raised \cup {k}
             \/ {i, j} \subseteq raised \cup {k} /\ i < j
             \/ i \notin raised \cup {k} /\ j \notin raised \cup {k}
                /\ Behind(views, i, j)
  BY DEF InFront
<1>1. Behind(AddSubview(now, k), i, j) <=> i # k /\ (j = k \/ Behind(now, i, j))
  BY AddedInFront
<1>2. Behind(now, i, j) <=>
        \/ i \notin raised /\ j \in raised
        \/ {i, j} \subseteq raised /\ i < j
        \/ i \notin raised /\ j \notin raised /\ Behind(views, i, j)
  BY DEF InFront
<1>3. k \notin raised
  OBVIOUS
<1>4. CASE i = k
  BY <1>1, <1>3, <1>4
<1>5. CASE i # k /\ j = k
  BY <1>1, <1>3, <1>5
<1>6. CASE i # k /\ j # k
  BY <1>1, <1>2, <1>6
<1>7. QED
  BY <1>4, <1>5, <1>6

LEMMA RaiseOrders ==
  ASSUME NEW n \in Nat, Len(stamps) = n, NEW views, Stacked(views, n),
         NEW raised \in SUBSET (1 .. n)
  PROVE  /\ Stacked(Raise(views, raised), n)
         /\ InFront(Raise(views, raised), views, raised, n)
<1> DEFINE upTo == CHOOSE f : LoopOf(f, n, views, raised)
           Upto(i) == raised \cap (1 .. i)
           Fine(i) == Stacked(upTo[i], n) /\ InFront(upTo[i], views, Upto(i), n)
<1>1. Raise(views, raised) = upTo[n]
  BY DEF Raise, LoopOf
<1>2. LoopOf(upTo, n, views, raised)
  BY LoopRuns
<1> HIDE DEF upTo
<1>3. \A i \in 0 .. n : upTo[i] = CASE i = 0        -> views
                                    [] i \in raised -> AddSubview(upTo[i - 1], i)
                                    [] OTHER        -> upTo[i - 1]
  BY <1>2 DEF LoopOf
<1> DEFINE broken == {i \in 0 .. n : ~Fine(i)}
<1>4. broken = {}
  <2>1. SUFFICES ASSUME broken # {} PROVE FALSE
    OBVIOUS
  <2>2. broken \in SUBSET Nat
    OBVIOUS
  <2> HIDE DEF Fine
  <2>3. PICK i \in broken : \A k \in broken : i <= k
    BY <2>1, <2>2, LeastNumber
  <2>4. i \in 0 .. n /\ ~Fine(i)
    BY <2>3
  <2>5. CASE i = 0
    <3>1. upTo[0] = views
      BY <1>3, <2>4, <2>5
    <3>2. Upto(0) = {}
      OBVIOUS
    <3>3. InFront(views, views, {}, n)
      BY DEF InFront
    <3>4. QED
      BY <2>4, <2>5, <3>1, <3>2, <3>3 DEF Fine
  <2>6. CASE i # 0
    <3>1. i - 1 \in 0 .. n /\ ~(i <= i - 1) /\ i \in 1 .. n
      BY <2>4, <2>6
    <3>2. Fine(i - 1)
      BY <2>3, <3>1
    <3>3. Stacked(upTo[i - 1], n) /\ InFront(upTo[i - 1], views, Upto(i - 1), n)
      BY <3>2 DEF Fine
    <3> HIDE DEF Upto
    <3>4. CASE i \in raised
      <4>1. upTo[i] = AddSubview(upTo[i - 1], i)
        BY <1>3, <2>4, <2>6, <3>4
      <4>2. Upto(i) = Upto(i - 1) \cup {i}
        BY <3>1, <3>4 DEF Upto
      <4>3. Upto(i - 1) \in SUBSET (1 .. n) /\ \A k \in Upto(i - 1) : k < i
        BY <3>1 DEF Upto
      <4>4. Stacked(upTo[i], n)
        BY <3>1, <3>3, <4>1, AddedAgain
      <4>5. InFront(AddSubview(upTo[i - 1], i), views, Upto(i - 1) \cup {i}, n)
        BY <3>1, <3>3, <4>3, RaisesNext
      <4>6. QED
        BY <2>4, <4>1, <4>2, <4>4, <4>5 DEF Fine
    <3>5. CASE i \notin raised
      <4>1. upTo[i] = upTo[i - 1]
        BY <1>3, <2>4, <2>6, <3>5
      <4>2. Upto(i) = Upto(i - 1)
        BY <3>1, <3>5 DEF Upto
      <4>3. QED
        BY <2>4, <3>3, <4>1, <4>2 DEF Fine
    <3>6. QED
      BY <3>4, <3>5
  <2>7. QED
    BY <2>5, <2>6
<1>5. n \in 0 .. n
  OBVIOUS
<1>6. Upto(n) = raised
  OBVIOUS
<1> HIDE DEF Upto
<1>7. QED
  BY <1>1, <1>4, <1>5, <1>6

-----------------------------------------------------------------------------
(* imageView's subviews are the stamps placed so far.                      *)
StampsShown == Stacked(subviews, Len(stamps))

StackInv == HeldInv /\ StampsShown

LEMMA StackStep == StackInv /\ [EditNext]_editVars => StampsShown'
<1> SUFFICES ASSUME StackInv, [EditNext]_editVars PROVE StampsShown'
  OBVIOUS
<1>0. stamps \in Seq(Stamps) /\ touch \in Int /\ Stacked(subviews, Len(stamps))
  BY DEF StackInv, HeldInv, SizeTypes, StampsShown
<1>1. PICK n \in Nat : n = Len(stamps) /\ DOMAIN stamps = 1 .. n
  BY <1>0
<1>2. CASE UNCHANGED <<stamps, subviews>>
  BY <1>0, <1>2 DEF StampsShown
<1>3. CASE ChangeSize /\ mode # AutoMode
  <2>1. /\ UNCHANGED subviews
        /\ stamps' = [i \in DOMAIN stamps |->
                        [stamps[i] EXCEPT !.scale = SizeOpe(slider')]]
    BY <1>3 DEF ChangeSize
  <2>2. Len(stamps') = n
    BY <1>1, <2>1
  <2>3. QED
    BY <1>0, <1>1, <2>1, <2>2 DEF StampsShown
<1>4. CASE DidSelectItem /\ mode # AutoMode
  <2>1. /\ stamps' = Append(stamps, NewStamp)
        /\ subviews' = AddSubview(subviews, Len(stamps'))
    BY <1>4 DEF DidSelectItem
  <2>2. Len(stamps') = n + 1
    BY <1>0, <1>1, <2>1, NewStampType
  <2>3. Stacked(AddSubview(subviews, n + 1), n + 1)
    BY <1>0, <1>1, AddedNew
  <2>4. QED
    BY <2>1, <2>2, <2>3 DEF StampsShown
<1>5. CASE TouchesMoved
  <2>1. /\ touch' \in OnScreen /\ held' = Under(touch) /\ Follow(held', touch' - touch)
        /\ subviews' = Raise(subviews, held')
    BY <1>5 DEF TouchesMoved
  <2>2. touch' \in Int
    BY <2>1, EditAssumption DEF OnScreen
  <2>3. Len(stamps') = n
    BY <1>0, <1>1, <2>1, <2>2, FollowKeepsSizes
  <2>4. PICK raised \in SUBSET (1 .. n) : raised = held'
    BY <1>1, <2>1 DEF Under
  <2>5. Stacked(Raise(subviews, raised), n)
    BY <1>0, <1>1, RaiseOrders
  <2>6. QED
    BY <2>1, <2>3, <2>4, <2>5 DEF StampsShown
<1>6. \/ UNCHANGED <<stamps, subviews>>
      \/ TouchesMoved
      \/ ChangeSize /\ mode # AutoMode
      \/ DidSelectItem /\ mode # AutoMode
  BY DEF EditNext, editVars, SetAutoMode, SetManualMode, ChangeSize, DidSelectItem,
         TouchBegan, TouchEnded
<1>7. QED
  BY <1>2, <1>3, <1>4, <1>5, <1>6

(* With it, imageView's subviews are the stamps of manualStampViews, each  *)
(* of them once.                                                           *)
THEOREM StackInvariance == EditSpec => []StackInv
<1>1. EditInit => StampsShown
  BY DEF EditInit, StampsShown, Stacked
<1>2. HeldInv /\ StampsShown /\ [EditNext]_editVars => StampsShown'
  BY StackStep DEF StackInv
<1>3. QED
  BY <1>1, <1>2, HeldInvariance, PTL DEF EditSpec, StackInv

(* No stamp is lost: each is in imageView, once, and in a finger's reach.  *)
THEOREM StampsStayKept == EditSpec => []StampsKept
<1>1. ASSUME StackInv PROVE StampsStacked
  <2>1. stamps \in Seq(Stamps) /\ Stacked(subviews, Len(stamps))
    BY <1>1 DEF StackInv, HeldInv, SizeTypes, StampsShown
  <2>2. PICK n \in Nat : n = Len(stamps)
    BY <2>1
  <2>3. subviews \in Seq(1 .. n) /\ Len(subviews) = n /\ DOMAIN subviews = 1 .. n
    BY <2>1, <2>2 DEF Stacked
  <2>4. ToSet(subviews) \subseteq 1 .. n
    BY <2>3 DEF ToSet
  <2>5. 1 .. n \subseteq ToSet(subviews)
    BY <2>1, <2>2, <2>3 DEF ToSet, Stacked
  <2>6. QED
    BY <2>2, <2>3, <2>4, <2>5 DEF StampsStacked
<1>2. StackInv => StampsKept
  BY <1>1 DEF StackInv, HeldInv, StampsHeld, StampsKept, StampsInReach, Reached
<1>3. QED
  BY <1>2, StackInvariance, PTL

(* A move brings the stamps it carries to the front, in the order they     *)
(* were placed, and leaves the others in theirs.                           *)
THEOREM StampsRaisedInOrder == EditSpec => RaisedInOrder
<1> DEFINE InOrder ==
      touch # NoTouch /\ touch' # NoTouch /\ touch' # touch =>
        \A i, j \in 1 .. Len(stamps) :
          Behind(subviews', i, j) <=>
            \/ i \notin held' /\ j \in held'
            \/ {i, j} \subseteq held' /\ i < j
            \/ i \notin held' /\ j \notin held' /\ Behind(subviews, i, j)
<1>1. ASSUME StackInv, TouchesMoved PROVE InOrder
  <2>1. PICK n \in Nat : n = Len(stamps) /\ Stacked(subviews, n)
    BY <1>1 DEF StackInv, HeldInv, SizeTypes, StampsShown
  <2>2. held' = Under(touch) /\ subviews' = Raise(subviews, held')
    BY <1>1 DEF TouchesMoved
  <2>3. PICK raised \in SUBSET (1 .. n) : raised = held'
    BY <2>1, <2>2 DEF Under
  <2>4. InFront(Raise(subviews, raised), subviews, raised, n)
    BY <2>1, RaiseOrders
  <2>5. InFront(subviews', subviews, held', n)
    BY <2>2, <2>3, <2>4
  <2>6. QED
    BY <2>1, <2>5 DEF InFront
<1>2. [EditNext]_editVars /\ ~TouchesMoved
        => touch' = touch \/ touch = NoTouch \/ touch' = NoTouch
  BY DEF EditNext, editVars, SetAutoMode, SetManualMode, ChangeSize, DidSelectItem,
         TouchBegan, TouchEnded
<1>3. StackInv /\ [EditNext]_editVars => [InOrder]_editVars
  BY <1>1, <1>2
<1> HIDE DEF InOrder
<1>4. EditSpec => [][InOrder]_editVars
  BY <1>3, StackInvariance, PTL DEF EditSpec
<1>5. QED
  BY <1>4 DEF RaisedInOrder, InOrder
-----------------------------------------------------------------------------
(* What EditTypeOK says beside the types above.                            *)
OtherTypes ==
  /\ autoImageRect \in Seq(1 .. MaxFaces)
  /\ selectedHige \in Higes
  /\ Len(stamps) <= MaxStamps
  /\ touch \in OnScreen \cup {NoTouch}

LEMMA OtherTypesStart == EditInit => OtherTypes
<1> SUFFICES ASSUME EditInit PROVE OtherTypes
  OBVIOUS
<1>1. PICK n \in 0 .. MaxFaces : autoImageRect = [i \in 1 .. n |-> i]
  BY DEF EditInit, FoundRects
<1>2. MaxFaces \in Nat /\ MaxStamps \in Nat /\ HigeCount \in Nat \ {0}
  BY EditAssumption
<1>3. autoImageRect \in Seq(1 .. MaxFaces)
  BY <1>1, <1>2
<1>4. QED
  BY <1>2, <1>3 DEF EditInit, OtherTypes, Higes

LEMMA OtherTypesStep == SizeTypes /\ OtherTypes /\ [EditNext]_editVars => OtherTypes'
<1> SUFFICES ASSUME SizeTypes, OtherTypes, [EditNext]_editVars PROVE OtherTypes'
  OBVIOUS
<1>0. stamps \in Seq(Stamps) /\ MaxStamps \in Nat
  BY EditAssumption DEF SizeTypes
<1>1. autoImageRect' = autoImageRect
  BY DEF EditNext, editVars, SetAutoMode, SetManualMode, ChangeSize, DidSelectItem,
         TouchBegan, TouchesMoved, TouchEnded
<1>2. selectedHige' \in Higes
  BY DEF EditNext, editVars, SetAutoMode, SetManualMode, ChangeSize, DidSelectItem,
         TouchBegan, TouchesMoved, TouchEnded, OtherTypes
<1>3. \A x \in 0 .. ImageSize : x \in OnScreen
  BY EditAssumption DEF OnScreen
<1>4. touch' \in OnScreen \cup {NoTouch}
  BY <1>3 DEF EditNext, editVars, SetAutoMode, SetManualMode, ChangeSize, DidSelectItem,
              TouchBegan, TouchesMoved, TouchEnded, OtherTypes
<1>5. Len(stamps') <= MaxStamps
  <2>1. CASE DidSelectItem /\ stamps' # stamps
    <3>1. stamps' = Append(stamps, NewStamp) /\ Len(stamps) < MaxStamps
      BY <2>1 DEF DidSelectItem
    <3>2. QED
      BY <1>0, <3>1, NewStampType
  <2>2. CASE stamps' = stamps
    BY <2>2 DEF OtherTypes
  <2>3. CASE ChangeSize \/ TouchesMoved
    <3>1. DOMAIN stamps' = DOMAIN stamps \/ stamps' = stamps
      BY <2>3 DEF ChangeSize, TouchesMoved, Follow
    <3>2. Len(stamps') = Len(stamps)
      BY <1>0, <3>1
    <3>3. QED
      BY <3>2 DEF OtherTypes
  <2>4. QED
    BY <2>1, <2>2, <2>3 DEF EditNext, editVars, SetAutoMode, SetManualMode,
                            TouchBegan, TouchEnded
<1>6. QED
  BY <1>1, <1>2, <1>4, <1>5 DEF OtherTypes

(* Every variable of the editor keeps its type and its bound.              *)
THEOREM EditTypesKept == EditSpec => []EditTypeOK
<1>1. ASSUME StackInv, OtherTypes, PictureFresh PROVE EditTypeOK
  <2>1. SizeTypes /\ StampsHeld /\ Stacked(subviews, Len(stamps))
    BY <1>1 DEF StackInv, HeldInv, StampsShown
  <2>2. PICK n \in Nat : n = Len(stamps) /\ n <= MaxStamps
    BY <1>1, <2>1 DEF SizeTypes, OtherTypes
  <2>3. subviews \in Seq(1 .. MaxStamps)
    <3>1. 1 .. n \subseteq 1 .. MaxStamps
      BY <2>2, EditAssumption
    <3>2. subviews \in Seq(1 .. n)
      BY <2>1, <2>2 DEF Stacked
    <3>3. QED
      BY <3>1, <3>2, SeqMonotonic
  <2>4. picture \in Seq([rect : 1 .. MaxFaces, hige : Higes, ratio : Sizes])
    <3>1. picture = [i \in DOMAIN autoImageRect |->
                       [rect |-> autoImageRect[i], hige |-> selectedHige,
                        ratio |-> sizeRatio]]
      BY <1>1 DEF PictureFresh, Drawn
    <3>2. PICK rects \in Seq(1 .. MaxFaces) : rects = autoImageRect
      BY <1>1 DEF OtherTypes
    <3>3. \A i \in 1 .. Len(rects) : rects[i] \in 1 .. MaxFaces
      BY ElementOfSeq
    <3>4. selectedHige \in Higes /\ sizeRatio \in Sizes
      BY <1>1, <2>1 DEF OtherTypes, SizeTypes
    <3> DEFINE Spot(i) == [rect |-> rects[i], hige |-> selectedHige, ratio |-> sizeRatio]
               Spots == [rect : 1 .. MaxFaces, hige : Higes, ratio : Sizes]
    <3>5. \A i \in 1 .. Len(rects) : Spot(i) \in Spots
      BY <3>3, <3>4
    <3>6. picture = [i \in 1 .. Len(rects) |-> Spot(i)] /\ Len(rects) \in Nat
      BY <3>1, <3>2
    <3> HIDE DEF Spot, Spots
    <3>7. picture \in Seq(Spots)
      BY <3>5, <3>6
    <3>8. QED
      BY <3>7 DEF Spots
  <2>5. held \subseteq 1 .. Len(stamps)
    BY <2>1 DEF StampsHeld, HeldUnder, Under
  <2>6. stamps \in Seq([center : Int, scale : Sizes])
    BY <2>1 DEF SizeTypes, Stamps
  <2>7. QED
    BY <1>1, <2>1, <2>3, <2>4, <2>5, <2>6 DEF EditTypeOK, SizeTypes, OtherTypes
<1>2. EditSpec => []OtherTypes
  <2>1. EditInv => SizeTypes
    BY DEF EditInv
  <2>2. QED
    BY <2>1, OtherTypesStart, OtherTypesStep, EditInvariance, PTL DEF EditSpec
<1>3. QED
  BY <1>1, <1>2, StackInvariance, PictureStaysFresh, PTL
=============================================================================
