------------------------------ MODULE EditScene ------------------------------
(***************************************************************************)
(* EditViewController once its view has loaded: the picture with a beard   *)
(* drawn on each face (auto mode), the stamps the user places and drags    *)
(* over it (manual mode), and the slider and template list both modes      *)
(* share.  All handlers run on the main thread; a finger dragging a stamp  *)
(* does not keep another one from the slider, the buttons or the list.     *)
(*                                                                         *)
(* One dimension of the view is enough for what a drag does: stamps have   *)
(* a centre and a size, in imageView's coordinates.  A size is counted in  *)
(* units of 1/SliderMax of the original one.                               *)
(***************************************************************************)
EXTENDS Integers, SequencesExt

CONSTANTS
  HigeCount,     \* templates in higeImages
  MaxFaces,      \* bound: faces with lips that Vision finds in the image
  MaxStamps,     \* bound: stamps the user places
  SliderMax,     \* the slider's ticks; its middle is the original size
  StampRadius,   \* half the side of a new stamp
  ImageTop,      \* imageView's distance from the top of its superview
  ImageSize,     \* imageView's side
  ScreenSize     \* the superview's side

ASSUME EditAssumption ==
  /\ {HigeCount, SliderMax} \subseteq Nat \ {0}
  /\ {MaxFaces, MaxStamps, StampRadius, ImageTop, ImageSize, ScreenSize} \subseteq Nat
  /\ SliderMax % 2 = 0
  /\ ImageTop + ImageSize <= ScreenSize
  /\ ImageTop + (ImageTop + ImageSize \div 2) <= ScreenSize

Higes  == 1 .. HigeCount
AutoMode   == 0
ManualMode == 1

VARIABLES
  mode,            \* AutoMode or ManualMode
  slider,          \* sizeSlider.value
  sizeRatio,       \* the size of the beards drawn in auto mode
  autoImageRect,   \* where they go: one rectangle per face, by its number
  selectedHige,    \* the template they are drawn with
  picture,         \* imageView.image: what is drawn over each face
  stamps,          \* manualStampViews: centre and transform of each
  subviews,        \* imageView's subviews, the frontmost last
  touch,           \* where a finger is on the view, or NoTouch
  held             \* history: stamps the finger carried in its last move

editVars == <<mode, slider, sizeRatio, autoImageRect, selectedHige, picture,
              stamps, subviews, touch, held>>

Middle     == SliderMax \div 2

SizeOpe(v) == 2 * v

(* The points a finger can reach, in imageView's coordinates.              *)
OnScreen == -ImageTop .. (ScreenSize - ImageTop)
NoTouch  == ScreenSize + 1

(* imageView.center is in the coordinates of imageView's superview, and    *)
(* becomes a point of imageView's own: ImageTop too low, and on the screen *)
(* all the same (EditAssumption).                                          *)
NewStamp == [center |-> ImageTop + ImageSize \div 2, scale |-> SizeOpe(Middle)]

-----------------------------------------------------------------------------
(* drawAutoImage: the image, with the template drawn over every rectangle. *)
Drawn(rects, hige, ratio) ==
  [i \in DOMAIN rects |-> [rect |-> rects[i], hige |-> hige, ratio |-> ratio]]

(* CGRect.contains, on the stamp's frame; an empty frame contains nothing. *)
Radius(stamp) == (StampRadius * stamp.scale) \div SliderMax
Contains1D(stamp, x) ==
  stamp.center - Radius(stamp) <= x /\ x < stamp.center + Radius(stamp)

Under(x) == {i \in 1 .. Len(stamps) : Contains1D(stamps[i], x)}

(* addSubview puts a view in front; one that is a subview leaves its place.*)
AddSubview(views, i) ==
  LET places == {p \in DOMAIN views : views[p] = i} IN
  Append(IF places = {} THEN views
                        ELSE RemoveAt(views, CHOOSE p \in places : TRUE), i)

(* The loop over manualStampViews, for the stamps of a set.                *)
Raise(views, raised) ==
  LET upTo[i \in 0 .. Len(stamps)] ==
        CASE i = 0        -> views
          [] i \in raised -> AddSubview(upTo[i - 1], i)
          [] OTHER        -> upTo[i - 1]
  IN  upTo[Len(stamps)]

-----------------------------------------------------------------------------
(* putStamp, in auto mode: Vision finds some faces, and putHige keeps one  *)
(* rectangle for each that has lips.                                       *)
FoundRects == {[i \in 1 .. n |-> i] : n \in 0 .. MaxFaces}

(* viewDidLoad: the slider, auto mode, and one putHige per face, each of   *)
(* which draws the picture.                                                *)
EditInit ==
  /\ mode = AutoMode
  /\ slider = Middle
  /\ sizeRatio = SizeOpe(Middle)
  /\ autoImageRect \in FoundRects
  /\ selectedHige = 1
  /\ picture = Drawn(autoImageRect, selectedHige, sizeRatio)
  /\ stamps = <<>>
  /\ subviews = <<>>
  /\ touch = NoTouch
  /\ held = {}

SetAutoMode ==
  /\ mode' = AutoMode
  /\ slider' = Middle
  /\ UNCHANGED <<sizeRatio, autoImageRect, selectedHige, picture, stamps,
                 subviews, touch, held>>

(* Mutant: the slider is left where it was.                                *)
SetManualModeKeepsSlider ==
  /\ mode' = ManualMode
  /\ UNCHANGED <<slider, sizeRatio, autoImageRect, selectedHige, picture, stamps,
                 subviews, touch, held>>

SetManualMode ==
  /\ mode' = ManualMode
  /\ slider' = Middle
  /\ UNCHANGED <<sizeRatio, autoImageRect, selectedHige, picture, stamps,
                 subviews, touch, held>>

ChangeSize ==
  /\ slider' \in 0 .. SliderMax
  /\ \/ /\ mode = AutoMode
        /\ sizeRatio' = SizeOpe(slider')
        /\ picture' = Drawn(autoImageRect, selectedHige, sizeRatio')
        /\ UNCHANGED <<stamps, held>>
     \/ /\ mode # AutoMode
        /\ stamps' = [i \in DOMAIN stamps |->
                        [stamps[i] EXCEPT !.scale = SizeOpe(slider')]]
        /\ held' = {}
        /\ UNCHANGED <<sizeRatio, picture>>
  /\ UNCHANGED <<mode, autoImageRect, selectedHige, subviews, touch>>

(* Mutant: the picture is not drawn again.                                 *)
DidSelectItemStale ==
  \/ /\ mode = AutoMode
     /\ selectedHige' \in Higes
     /\ UNCHANGED <<mode, slider, sizeRatio, autoImageRect, picture, stamps,
                    subviews, touch, held>>
  \/ /\ mode # AutoMode
     /\ Len(stamps) < MaxStamps
     /\ stamps' = Append(stamps, NewStamp)
     /\ subviews' = AddSubview(subviews, Len(stamps'))
     /\ UNCHANGED <<mode, slider, sizeRatio, autoImageRect, selectedHige,
                    picture, touch, held>>

(* collectionView(_:didSelectItemAt:)                                      *)
DidSelectItem ==
  \/ /\ mode = AutoMode
     /\ selectedHige' \in Higes
     /\ picture' = Drawn(autoImageRect, selectedHige', sizeRatio)
     /\ UNCHANGED <<mode, slider, sizeRatio, autoImageRect, stamps, subviews,
                    touch, held>>
  \/ /\ mode # AutoMode
     /\ Len(stamps) < MaxStamps
     /\ stamps' = Append(stamps, NewStamp)
     /\ subviews' = AddSubview(subviews, Len(stamps'))
     /\ UNCHANGED <<mode, slider, sizeRatio, autoImageRect, selectedHige,
                    picture, touch, held>>

(* Of UIKit: a finger comes down on the image, and is lifted.              *)
TouchBegan ==
  /\ touch = NoTouch
  /\ touch' \in 0 .. ImageSize
  /\ held' = {}
  /\ UNCHANGED <<mode, slider, sizeRatio, autoImageRect, selectedHige, picture,
                 stamps, subviews>>

TouchEnded ==
  /\ touch # NoTouch
  /\ touch' = NoTouch
  /\ held' = {}
  /\ UNCHANGED <<mode, slider, sizeRatio, autoImageRect, selectedHige, picture,
                 stamps, subviews>>

Follow(carried, delta) ==
  stamps' = [i \in DOMAIN stamps |->
               IF i \in carried THEN [stamps[i] EXCEPT !.center = @ + delta]
                                ELSE stamps[i]]

(* Mutants: every stamp follows the finger; the stamps under its new       *)
(* location follow it; the stamps are raised in the opposite order.        *)
TouchesMovedAll ==
  /\ touch # NoTouch
  /\ touch' \in OnScreen
  /\ held' = 1 .. Len(stamps)
  /\ Follow(held', touch' - touch)
  /\ subviews' = Raise(subviews, held')
  /\ UNCHANGED <<mode, slider, sizeRatio, autoImageRect, selectedHige, picture>>

TouchesMovedByLocation ==
  /\ touch # NoTouch
  /\ touch' \in OnScreen
  /\ held' = Under(touch')
  /\ Follow(held', touch' - touch)
  /\ subviews' = Raise(subviews, held')
  /\ UNCHANGED <<mode, slider, sizeRatio, autoImageRect, selectedHige, picture>>

TouchesMovedBackwards ==
  /\ touch # NoTouch
  /\ touch' \in OnScreen
  /\ held' = Under(touch)
  /\ Follow(held', touch' - touch)
  /\ subviews' = FoldRightDomain(LAMBDA i, vs : IF i \in held' THEN AddSubview(vs, i)
                                                              ELSE vs,
                                 stamps, subviews)
  /\ UNCHANGED <<mode, slider, sizeRatio, autoImageRect, selectedHige, picture>>

(* Every stamp under the finger's previous location follows it, and is     *)
(* added to imageView again, in the order of manualStampViews.             *)
TouchesMoved ==
  /\ touch # NoTouch
  /\ touch' \in OnScreen
  /\ held' = Under(touch)
  /\ Follow(held', touch' - touch)
  /\ subviews' = Raise(subviews, held')
  /\ UNCHANGED <<mode, slider, sizeRatio, autoImageRect, selectedHige, picture>>

EditNext ==
  \/ SetAutoMode
  \/ SetManualMode
  \/ ChangeSize
  \/ DidSelectItem
  \/ TouchBegan
  \/ TouchesMoved
  \/ TouchEnded

EditSpec == EditInit /\ [][EditNext]_editVars

-----------------------------------------------------------------------------
Sizes     == 0 .. 2 * SliderMax
MaxRadius == 2 * StampRadius

EditTypeOK ==
  /\ mode \in {AutoMode, ManualMode}
  /\ slider \in 0 .. SliderMax
  /\ sizeRatio \in Sizes
  /\ autoImageRect \in Seq(1 .. MaxFaces)
  /\ selectedHige \in Higes
  /\ picture \in Seq([rect : 1 .. MaxFaces, hige : Higes, ratio : Sizes])
  /\ stamps \in Seq([center : Int, scale : Sizes])
  /\ subviews \in Seq(1 .. MaxStamps)
  /\ touch \in OnScreen \cup {NoTouch}
  /\ held \subseteq 1 .. Len(stamps)

(* The picture shown is always the one drawn from the faces, the template  *)
(* and the size now in force: no handler of auto mode forgets to draw, and *)
(* none of manual mode changes what the next drawing would show.           *)
PictureFresh == picture = Drawn(autoImageRect, selectedHige, sizeRatio)

(* A slider off its middle tells the size of what it resizes, across any   *)
(* changes of mode: in auto mode that of the beards; in manual mode that   *)
(* of the stamps resized so far, which come before the ones placed since   *)
(* with the original size.                                                 *)
SizesFollowSlider ==
  /\ mode = AutoMode /\ slider # Middle => sizeRatio = SizeOpe(slider)
  /\ \E k \in 0 .. Len(stamps), size \in Sizes :
       /\ \A i \in 1 .. Len(stamps) :
            stamps[i].scale = IF i <= k THEN size ELSE SizeOpe(Middle)
       /\ mode = ManualMode /\ slider # Middle /\ k > 0 => size = SizeOpe(slider)

(* imageView shows every stamp of manualStampViews, once, and nothing else.*)
StampsStacked ==
  Len(subviews) = Len(stamps) /\ ToSet(subviews) = 1 .. Len(stamps)

(* No drag takes a stamp's centre farther off the screen than the radius   *)
(* of the largest stamp: each stays where a finger can get hold of it, at  *)
(* the latest once it is enlarged again.                                   *)
StampsInReach ==
  \A i \in 1 .. Len(stamps) :
    \E x \in OnScreen : x - MaxRadius <= stamps[i].center
                        /\ stamps[i].center <= x + MaxRadius

(* No stamp is lost: each is in imageView, and within reach of a finger.   *)
StampsKept == StampsStacked /\ StampsInReach

(* A mode's handlers leave the other mode's work alone: the picture in     *)
(* manual mode, the number and the sizes of the stamps in auto mode.       *)
ModesApart ==
  [][/\ mode = ManualMode => UNCHANGED <<picture, sizeRatio, selectedHige>>
     /\ mode = AutoMode =>
          [i \in DOMAIN stamps' |-> stamps'[i].scale]
            = [i \in DOMAIN stamps |-> stamps[i].scale]
    ]_editVars

(* A drag never loses a stamp it has hold of, however fast the finger      *)
(* moves and whatever other stamps it picks up on the way, unless a slide  *)
(* resizes them in between.                                                *)
DragKeepsHold == [][TouchesMoved => held \subseteq held']_editVars

(* One view is behind another.                                             *)
Behind(views, i, j) ==
  \E p, q \in 1 .. Len(views) : p < q /\ views[p] = i /\ views[q] = j

(* A move brings the stamps it carries to the front, in the order they     *)
(* were placed, whatever their order was, and leaves the others in theirs. *)
RaisedInOrder ==
  [][touch # NoTouch /\ touch' # NoTouch /\ touch' # touch =>
       \A i, j \in 1 .. Len(stamps) :
         Behind(subviews', i, j) <=>
           \/ i \notin held' /\ j \in held'
           \/ {i, j} \subseteq held' /\ i < j
           \/ i \notin held' /\ j \notin held' /\ Behind(subviews, i, j)]_editVars

=============================================================================
