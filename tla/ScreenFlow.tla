----------------------------- MODULE ScreenFlow -----------------------------
(***************************************************************************)
(* How the app's three scenes are entered and left, and what that does to  *)
(* the camera: ViewController at the root of the navigation stack, with    *)
(* the shutter, the photo picker and the change-camera button; Preview and *)
(* Edit pushed on top of it.                                               *)
(*                                                                         *)
(* Every handler runs on the main thread, so each is one action.  Between  *)
(* two of them come the callbacks nobody waits for: viewDidAppear and      *)
(* viewDidDisappear, which UIKit delivers when a transition ends, the      *)
(* photo callback of a capture, and the completion of the picker's         *)
(* dismissal.  Touches are ignored during a transition and under a modal   *)
(* screen; those callbacks are not.                                        *)
(***************************************************************************)
EXTENDS CaptureSession, Sequences

CONSTANTS
  MaxInFlight,   \* bound: captures started and not yet answered
  MaxImages      \* bound: images taken or picked since the launch

ASSUME BoundsAssumption == MaxInFlight \in Nat /\ MaxImages \in Nat

VARIABLES
  stack,      \* the scenes pushed on ViewController, the visible one last
  modal,      \* what is presented over the stack
  pending,    \* lifecycle callbacks UIKit owes ViewController, oldest first
  image,      \* ViewController.image
  inFlight,   \* captures whose photo callback is still to come
  acquired,   \* history: images taken or picked since the launch
  picked      \* history: the image the picker being dismissed has returned

screenVars == <<stack, modal, pending, image, inFlight, acquired, picked>>
vars == <<session, cameraFlag, layers, appeared, authorization, trap,
          stack, modal, pending, image, inFlight, acquired, picked>>

(* A UIImage! is told apart by when it was acquired; a pick can be nil.    *)
NoImage == [seq |-> 0, nil |-> TRUE]
Image(n) == [seq |-> n, nil |-> FALSE]

Top       == stack[Len(stack)]
Showing(screen) == stack # <<>> /\ Top.screen = screen

(* ViewController's view is the one in the window.                         *)
RootOnTop == stack = <<>> /\ modal \in {"none", "dismissing"}

(* Touches reach the app: no transition is under way, nothing is presented *)
(* over the stack, and the permission alert has been answered.             *)
UserCanAct ==
  /\ trap = "none"
  /\ pending = <<>>
  /\ modal = "none"
  /\ authorization # "notDetermined"

(* AVFoundation has a connection from a camera to the photo output.        *)
Connected ==
  session.running /\ session.inputs # {} /\ ImageOutput \in session.outputs

-----------------------------------------------------------------------------
(* UIKit: what pushing a scene and uncovering the root make it owe.        *)
Push(scene) ==
  /\ stack' = Append(stack, scene)
  /\ pending' = IF RootOnTop THEN Append(pending, "disappear") ELSE pending

PopTo(n) ==
  /\ stack' = [i \in 1 .. n |-> stack[i]]
  /\ pending' = IF n = 0 THEN Append(pending, "appear") ELSE pending

(* performSegue "toResultView": prepare hands the preview self.image.      *)
ShowPreview(img) == Push([screen |-> "preview", image |-> img])

-----------------------------------------------------------------------------
ScreenInit ==
  /\ CameraInit
  /\ stack = <<>>
  /\ modal = "none"
  /\ pending = <<"appear">>
  /\ image = NoImage
  /\ inFlight = 0
  /\ acquired = 0
  /\ picked = 0

DeliverAppear ==
  /\ pending # <<>>
  /\ Head(pending) = "appear"
  /\ ViewDidAppear
  /\ pending' = Tail(pending)
  /\ UNCHANGED <<stack, modal, image, inFlight, acquired, picked>>

DeliverDisappear ==
  /\ pending # <<>>
  /\ Head(pending) = "disappear"
  /\ ViewDidDisappear
  /\ pending' = Tail(pending)
  /\ UNCHANGED <<stack, modal, image, inFlight, acquired, picked>>

(* takePhoto: capturePhoto raises when the output has no connection.       *)
PushCameraBtn ==
  /\ UserCanAct
  /\ stack = <<>>
  /\ inFlight < MaxInFlight
  /\ acquired + inFlight < MaxImages
  /\ \/ Connected /\ inFlight' = inFlight + 1 /\ UNCHANGED trap
     \/ ~Connected /\ trap' = "no video connection" /\ UNCHANGED inFlight
  /\ UNCHANGED <<session, cameraFlag, layers, appeared, authorization,
                 stack, modal, pending, image, acquired, picked>>

(* Mutants: one capture calls back again and again; a photo that comes     *)
(* while the picker is being dismissed is kept and not shown.              *)
PhotoDeliveredAgain ==
  /\ trap = "none"
  /\ inFlight > 0
  /\ acquired' = acquired + 1
  /\ image' = Image(acquired + 1)
  /\ ShowPreview(image')
  /\ UNCHANGED <<session, cameraFlag, layers, appeared, authorization, trap,
                 modal, inFlight, picked>>

PhotoDeliveredQuietly ==
  /\ trap = "none"
  /\ inFlight > 0
  /\ inFlight' = inFlight - 1
  /\ acquired' = acquired + 1
  /\ image' = Image(acquired + 1)
  /\ IF modal = "dismissing" THEN UNCHANGED <<stack, pending>> ELSE ShowPreview(image')
  /\ UNCHANGED <<session, cameraFlag, layers, appeared, authorization, trap,
                 modal, picked>>

(* The photo callback with a photo: crop it, keep it, show it, wherever    *)
(* the user has gone in the meantime.                                      *)
PhotoDelivered ==
  /\ trap = "none"
  /\ inFlight > 0
  /\ inFlight' = inFlight - 1
  /\ acquired' = acquired + 1
  /\ image' = Image(acquired + 1)
  /\ ShowPreview(image')
  /\ UNCHANGED <<session, cameraFlag, layers, appeared, authorization, trap,
                 modal, picked>>

(* The photo callback with an error, or without data: only a print.        *)
PhotoDropped ==
  /\ trap = "none"
  /\ inFlight > 0
  /\ inFlight' = inFlight - 1
  /\ UNCHANGED <<session, cameraFlag, layers, appeared, authorization, trap,
                 stack, modal, pending, image, acquired, picked>>

(* The photo callback with data that is no image, or with an image that    *)
(* cannot be cropped: one of its three forced unwrappings traps.           *)
PhotoTraps ==
  /\ trap = "none"
  /\ inFlight > 0
  /\ inFlight' = inFlight - 1
  /\ trap' = "photo is unusable"
  /\ UNCHANGED <<session, cameraFlag, layers, appeared, authorization,
                 stack, modal, pending, image, acquired, picked>>

PhotoCallback == PhotoDelivered \/ PhotoDropped \/ PhotoTraps

ChangeCamera ==
  /\ UserCanAct
  /\ stack = <<>>
  /\ PushChangeCameraBtn
  /\ UNCHANGED screenVars

(* Mutant: the picker is a popover, and the camera scene stays in sight.   *)
PushPickerBtnPopover ==
  /\ UserCanAct
  /\ stack = <<>>
  /\ acquired + inFlight < MaxImages
  /\ modal' = "picker"
  /\ UNCHANGED <<session, cameraFlag, layers, appeared, authorization, trap,
                 stack, pending, image, inFlight, acquired, picked>>

(* The picker covers the root, so the camera scene disappears.             *)
PushPickerBtn ==
  /\ UserCanAct
  /\ stack = <<>>
  /\ acquired + inFlight < MaxImages
  /\ modal' = "picker"
  /\ pending' = Append(pending, "disappear")
  /\ UNCHANGED <<session, cameraFlag, layers, appeared, authorization, trap,
                 stack, image, inFlight, acquired, picked>>

(* The dismissal uncovers the root, unless a photo was shown underneath.   *)
Uncover == pending' = IF stack = <<>> THEN Append(pending, "appear") ELSE pending

(* self.image is the edited image of the info dictionary, or nil when      *)
(* there is none.                                                          *)
DidFinishPicking ==
  /\ trap = "none"
  /\ modal = "picker"
  /\ pending = <<>>
  /\ acquired' = acquired + 1
  /\ picked' = acquired + 1
  /\ image' \in {[seq |-> acquired + 1, nil |-> n] : n \in BOOLEAN}
  /\ modal' = "dismissing"
  /\ Uncover
  /\ UNCHANGED <<session, cameraFlag, layers, appeared, authorization, trap,
                 stack, inFlight>>

(* There is no imagePickerControllerDidCancel: UIKit dismisses the picker. *)
PickerCancelled ==
  /\ trap = "none"
  /\ modal = "picker"
  /\ pending = <<>>
  /\ modal' = "none"
  /\ Uncover
  /\ UNCHANGED <<session, cameraFlag, layers, appeared, authorization, trap,
                 stack, image, inFlight, acquired, picked>>

(* Mutant: the completion leaves alone a preview that is already there.    *)
PickerDismissedUnlessCovered ==
  /\ trap = "none"
  /\ modal = "dismissing"
  /\ \A i \in 1 .. Len(pending) : pending[i] # "appear"
  /\ modal' = "none"
  /\ picked' = 0
  /\ IF stack = <<>> THEN ShowPreview(image) ELSE UNCHANGED <<stack, pending>>
  /\ UNCHANGED <<session, cameraFlag, layers, appeared, authorization, trap,
                 image, inFlight, acquired>>

(* The completion of dismiss, which UIKit calls after the viewDidAppear    *)
(* of what it uncovered: it shows self.image as it is then.                *)
PickerDismissed ==
  /\ trap = "none"
  /\ modal = "dismissing"
  /\ \A i \in 1 .. Len(pending) : pending[i] # "appear"
  /\ modal' = "none"
  /\ picked' = 0
  /\ ShowPreview(image)
  /\ UNCHANGED <<session, cameraFlag, layers, appeared, authorization, trap,
                 image, inFlight, acquired>>

(* Mutant: Edit is given the image of ViewController.                      *)
PushOkBtnRootImage ==
  /\ UserCanAct
  /\ Showing("preview")
  /\ Push([screen |-> "edit", image |-> image])
  /\ UNCHANGED <<session, cameraFlag, layers, appeared, authorization, trap,
                 modal, image, inFlight, acquired, picked>>

(* Edit loads at once: viewDidLoad looks for faces, and traps on a nil     *)
(* image, or on the nil results of a Vision request that failed.           *)
PushOkBtn ==
  /\ UserCanAct
  /\ Showing("preview")
  /\ \/ /\ ~Top.image.nil
        /\ Push([screen |-> "edit", image |-> Top.image])
        /\ UNCHANGED trap
     \/ /\ trap' = IF Top.image.nil THEN "image is nil" ELSE "results are nil"
        /\ UNCHANGED <<stack, pending>>
  /\ UNCHANGED <<session, cameraFlag, layers, appeared, authorization,
                 modal, image, inFlight, acquired, picked>>

PushBackBtn ==
  /\ UserCanAct
  /\ Showing("preview")
  /\ PopTo(Len(stack) - 1)
  /\ UNCHANGED <<session, cameraFlag, layers, appeared, authorization, trap,
                 modal, image, inFlight, acquired, picked>>

PushCancelBtn ==
  /\ UserCanAct
  /\ Showing("edit")
  /\ PopTo(0)
  /\ UNCHANGED <<session, cameraFlag, layers, appeared, authorization, trap,
                 modal, image, inFlight, acquired, picked>>

PushShareBtn ==
  /\ UserCanAct
  /\ Showing("edit")
  /\ modal' = "share"
  /\ UNCHANGED <<session, cameraFlag, layers, appeared, authorization, trap,
                 stack, pending, image, inFlight, acquired, picked>>

ShareDone ==
  /\ trap = "none"
  /\ modal = "share"
  /\ modal' = "none"
  /\ UNCHANGED <<session, cameraFlag, layers, appeared, authorization, trap,
                 stack, pending, image, inFlight, acquired, picked>>

Prompt == AnswerPrompt /\ UNCHANGED screenVars

Relaunch ==
  /\ CameraRelaunch
  /\ stack' = <<>>
  /\ modal' = "none"
  /\ pending' = <<"appear">>
  /\ image' = NoImage
  /\ inFlight' = 0
  /\ acquired' = 0
  /\ picked' = 0

UserStep ==
  \/ PushCameraBtn \/ ChangeCamera \/ PushPickerBtn
  \/ DidFinishPicking \/ PickerCancelled
  \/ PushOkBtn \/ PushBackBtn \/ PushCancelBtn
  \/ PushShareBtn \/ ShareDone
  \/ Prompt \/ Relaunch

SystemStep ==
  \/ DeliverAppear \/ DeliverDisappear
  \/ PhotoDelivered \/ PhotoDropped \/ PhotoTraps
  \/ PickerDismissed

Next == UserStep \/ SystemStep

(* The system ends transitions and captures; nobody makes the user act.    *)
Fairness ==
  /\ WF_vars(DeliverAppear)
  /\ WF_vars(DeliverDisappear)
  /\ WF_vars(PhotoCallback)
  /\ WF_vars(PickerDismissed)

Spec == ScreenInit /\ [][Next]_vars
FairSpec == Spec /\ Fairness

-----------------------------------------------------------------------------
Images == [seq : 0 .. MaxImages, nil : BOOLEAN]
Scenes == [screen : {"preview", "edit"}, image : Images]
Calls  == {"appear", "disappear"}

(* The variables' types; what was acquired and what is still to come stay  *)
(* within the bound together, so each capture answers at most once.        *)
ScreenTypeOK ==
  /\ CameraTypeOK
  /\ stack \in Seq(Scenes)
  /\ modal \in {"none", "picker", "dismissing", "share"}
  /\ pending \in Seq(Calls)
  /\ image \in Images
  /\ inFlight \in 0 .. MaxInFlight
  /\ acquired \in 0 .. MaxImages
  /\ acquired + inFlight <= MaxImages
  /\ picked \in 0 .. MaxImages

(* What UIKit owes ViewController: the calls pending always turn what it   *)
(* was last told into what is on screen now, and never repeat themselves,  *)
(* whatever photo or dismissal interferes with a transition.               *)
LifecycleOK ==
  trap = "none" =>
    \/ pending = <<>>                      /\ (appeared <=> RootOnTop)
    \/ pending = <<"appear">>              /\ ~appeared /\ RootOnTop
    \/ pending = <<"disappear">>           /\ appeared  /\ ~RootOnTop
    \/ pending = <<"appear", "disappear">> /\ ~appeared /\ ~RootOnTop

(* A shutter press finds a running session connected to the photo output:  *)
(* capturePhoto never raises, whichever way the user came to the camera.   *)
CaptureReady ==
  /\ UserCanAct /\ stack = <<>> => Connected
  /\ trap # "no video connection"

(* Once a transition is over the session holds no camera under a preview,  *)
(* an editor or the picker.                                                *)
CameraOffWhenCovered ==
  trap = "none" /\ pending = <<>> /\ ~RootOnTop => session = EmptySession

(* An editor lies on the preview it was opened from, with its image, and   *)
(* that image exists; late photos can only pile up above.                  *)
StackShape ==
  \A i \in 1 .. Len(stack) :
    stack[i].screen = "edit" =>
      /\ i > 1
      /\ stack[i - 1].screen = "preview"
      /\ stack[i].image = stack[i - 1].image
      /\ ~stack[i].image.nil

(* ViewController keeps one image for the picker and the shutter.  While   *)
(* the picker is being dismissed a late photo can displace the picked      *)
(* image, but only one that is itself already on screen.                   *)
PickNotLost ==
  modal = "dismissing" /\ image.seq # picked =>
    Showing("preview") /\ Top.image = image

(* The try! of createView.  Access that is denied in the alert leaves the  *)
(* camera on that the alert was about, and no other is ever opened while   *)
(* it stays denied; a process launched under the denial does not get past  *)
(* its first viewDidAppear, so that not even the picker can be reached.    *)
NothingDone == stack = <<>> /\ modal = "none" /\ acquired = 0 /\ inFlight = 0

DenialLocksOut ==
  trap = "none" /\ authorization = "denied" =>
    \/ layers = 0 /\ pending = <<"appear">> /\ NothingDone
    \/ layers = 1

(* The camera as the whole app drives it behaves as CaptureSession says.   *)
CameraBehaviour == CameraSpec

(* The camera comes on whenever the camera scene stays in sight, and goes  *)
(* off whenever it stays covered, in whatever order photo, dismissal and   *)
(* lifecycle callbacks end.                                                *)
CameraComesOn ==
  (trap = "none" /\ RootOnTop) ~> (trap # "none" \/ session.running \/ ~RootOnTop)
CameraGoesOff ==
  (trap = "none" /\ ~RootOnTop) ~> (trap # "none" \/ ~session.running \/ RootOnTop)
CameraFollowsScene == CameraComesOn /\ CameraGoesOff

(* On top lies the preview that the dismissal's completion has pushed for  *)
(* the pick: the picked image in it or, after a photo has displaced it,    *)
(* that photo, which its own callback has already shown once just below.   *)
ShownAtLast(pick) ==
  /\ Showing("preview")
  /\ \/ Top.image.seq = pick
     \/ /\ Top.image.seq > pick
        /\ Len(stack) > 1 /\ stack[Len(stack) - 1].image = Top.image

(* Each pick ends in a preview of its own, however many photos arrive      *)
(* under the picker and during its dismissal, unless the process ends      *)
(* first: by a trap, or with a new launch, which has acquired nothing yet. *)
PickEndsInPreview ==
  \A pick \in 1 .. MaxImages :
    (modal = "dismissing" /\ picked = pick)
      ~> (trap # "none" \/ acquired < pick \/ (modal = "none" /\ ShownAtLast(pick)))
=============================================================================
