--------------------------- MODULE CaptureSession ---------------------------
(***************************************************************************)
(* The camera of ViewController: the AVCaptureSession it owns, the photo   *)
(* output and the input devices CameraHelper attaches to it, the preview   *)
(* layers put on cameraView, and the front/back flag.                      *)
(*                                                                         *)
(* The handlers run on the main thread, one after the other, so each is    *)
(* one action.  UIKit calls viewDidAppear and viewDidDisappear in          *)
(* alternation; ScreenFlow models the navigation that produces the calls.  *)
(***************************************************************************)
EXTENDS Naturals, FiniteSets

CONSTANTS
  Devices,     \* positions at which the device has a wide-angle camera
  LayerCap     \* the count of preview layers saturates at this bound

Positions == {"back", "front"}

ASSUME DevicesAssumption  == Devices \subseteq Positions
ASSUME LayerCapAssumption == LayerCap \in Nat \ {0}

VARIABLES
  session,        \* AVCaptureSession: isRunning, its inputs and its outputs
  cameraFlag,     \* ViewController.cameraFlag
  layers,         \* preview layers in cameraView.layer, counted up to LayerCap
  appeared,       \* the last lifecycle call was viewDidAppear
  authorization,  \* the camera permission, kept by the system across launches
  trap            \* why the process has trapped, or "none"

cameraVars == <<session, cameraFlag, layers, appeared, authorization, trap>>

ImageOutput == "imageOutput"

(* Why the process can trap: in setupCamera, or in a handler of another    *)
(* part of the app, which leaves the camera as it is until the relaunch.   *)
CameraTraps == {"cannot setup layer", "input not authorized"}
OtherTraps  == {"no video connection", "photo is unusable", "image is nil",
                "results are nil"}

EmptySession == [running |-> FALSE, inputs |-> {}, outputs |-> {}]

-----------------------------------------------------------------------------
(* AVFoundation: a session takes one camera at a time, and an output that  *)
(* it does not have yet.                                                   *)
CanAddInput(s)  == s.inputs = {}
CanAddOutput(s) == ImageOutput \notin s.outputs

StartRunning(s) == [running |-> TRUE,  inputs |-> s.inputs, outputs |-> s.outputs]
StopRunning(s)  == [running |-> FALSE, inputs |-> s.inputs, outputs |-> s.outputs]

(* Mutants: the inputs are left in the session; the session is not stopped.*)
ReleaseKeepsInputs(s) == [StopRunning(s) EXCEPT !.outputs = {}]
ReleaseKeepsRunning(s) == [s EXCEPT !.outputs = {}, !.inputs = {}]

(* stopRunning, then the two loops that remove every output and every      *)
(* input the session has.                                                  *)
ReleaseSession(s) ==
  [running |-> StopRunning(s).running, inputs |-> {}, outputs |-> {}]

(* Mutant: the photo output is only attached together with a second input. *)
CreateViewForgetsOutput(s, position) ==
  [running |-> s.running,
   inputs  |-> IF CanAddInput(s) THEN s.inputs \cup {position} ELSE s.inputs,
   outputs |-> IF CanAddInput(s) THEN s.outputs ELSE s.outputs \cup {ImageOutput}]

(* CameraHelper.createView, once the device and its input exist.           *)
CreateView(s, position) ==
  [running |-> s.running,
   inputs  |-> IF CanAddInput(s)  THEN s.inputs \cup {position} ELSE s.inputs,
   outputs |-> IF CanAddOutput(s) THEN s.outputs \cup {ImageOutput} ELSE s.outputs]

(* Mutant: the session starts whatever the user answered to the           *)
(* permission prompt.                                                      *)
SetupCameraUnchecked(s, position) ==
  \/ /\ position \notin Devices
     /\ trap' = "cannot setup layer"
     /\ session' = s
     /\ UNCHANGED layers
  \/ /\ position \in Devices
     /\ session' = StartRunning(CreateView(s, position))
     /\ layers'  = IF layers < LayerCap THEN layers + 1 ELSE layers
     /\ UNCHANGED trap

(* Mutant: the session is set up but not started.                          *)
SetupCameraNotStarted(s, position) ==
  /\ position \in Devices
  /\ authorization # "denied"
  /\ session' = CreateView(s, position)
  /\ layers'  = IF layers < LayerCap THEN layers + 1 ELSE layers
  /\ UNCHANGED trap

(* setupCamera on session s.  Without a device createView returns nil and  *)
(* setupCamera calls fatalError; AVCaptureDeviceInput throws when access   *)
(* to the camera was denied, and try! traps.                               *)
SetupCamera(s, position) ==
  \/ /\ position \notin Devices
     /\ trap' = "cannot setup layer"
     /\ session' = s
     /\ UNCHANGED layers
  \/ /\ position \in Devices
     /\ authorization = "denied"
     /\ trap' = "input not authorized"
     /\ session' = s
     /\ UNCHANGED layers
  \/ /\ position \in Devices
     /\ authorization # "denied"
     /\ session' = StartRunning(CreateView(s, position))
     /\ layers'  = IF layers < LayerCap THEN layers + 1 ELSE layers
     /\ UNCHANGED trap

-----------------------------------------------------------------------------
CameraInit ==
  /\ session = EmptySession
  /\ cameraFlag = FALSE
  /\ layers = 0
  /\ appeared = FALSE
  /\ authorization \in {"notDetermined", "authorized", "denied"}
  /\ trap = "none"

(* Mutant: the scene resumes with the camera that the flag names.          *)
ViewDidAppearResumes ==
  /\ trap = "none"
  /\ ~appeared
  /\ appeared' = TRUE
  /\ SetupCamera(session, IF cameraFlag THEN "front" ELSE "back")
  /\ UNCHANGED <<cameraFlag, authorization>>

ViewDidAppear ==
  /\ trap = "none"
  /\ ~appeared
  /\ appeared' = TRUE
  /\ SetupCamera(session, "back")
  /\ UNCHANGED <<cameraFlag, authorization>>

ViewDidDisappear ==
  /\ trap = "none"
  /\ appeared
  /\ appeared' = FALSE
  /\ session' = ReleaseSession(session)
  /\ UNCHANGED <<cameraFlag, layers, authorization, trap>>

(* Mutant: the branches of the flag are swapped.                           *)
ChangeCameraSwapped ==
  /\ trap = "none"
  /\ appeared
  /\ SetupCamera(ReleaseSession(session), IF cameraFlag THEN "front" ELSE "back")
  /\ cameraFlag' = IF trap' = "none" THEN ~cameraFlag ELSE cameraFlag
  /\ UNCHANGED <<appeared, authorization>>

PushChangeCameraBtn ==
  /\ trap = "none"
  /\ appeared
  /\ SetupCamera(ReleaseSession(session), IF cameraFlag THEN "back" ELSE "front")
  /\ cameraFlag' = IF trap' = "none" THEN ~cameraFlag ELSE cameraFlag
  /\ UNCHANGED <<appeared, authorization>>

(* The system alert that the first AVCaptureDeviceInput raises.            *)
AnswerPrompt ==
  /\ trap = "none"
  /\ authorization = "notDetermined"
  /\ session.inputs # {}
  /\ authorization' \in {"authorized", "denied"}
  /\ UNCHANGED <<session, cameraFlag, layers, appeared, trap>>

(* The process ends, by a trap, by the system or by the user, and is       *)
(* launched again: nothing but the permission survives.  Once there has    *)
(* been an answer the user can change it in Settings, where the system     *)
(* ends the app to make the change.                                        *)
CameraRelaunch ==
  /\ session' = EmptySession
  /\ cameraFlag' = FALSE
  /\ layers' = 0
  /\ appeared' = FALSE
  /\ trap' = "none"
  /\ \/ UNCHANGED authorization
     \/ /\ authorization # "notDetermined"
        /\ authorization' \in {"authorized", "denied"}

TrapElsewhere ==
  /\ trap = "none"
  /\ trap' \in OtherTraps
  /\ UNCHANGED <<session, cameraFlag, layers, appeared, authorization>>

CameraNext ==
  \/ ViewDidAppear
  \/ ViewDidDisappear
  \/ PushChangeCameraBtn
  \/ AnswerPrompt
  \/ CameraRelaunch
  \/ TrapElsewhere

CameraSpec == CameraInit /\ [][CameraNext]_cameraVars

-----------------------------------------------------------------------------
CameraTypeOK ==
  /\ session \in [running : BOOLEAN, inputs : SUBSET Positions,
                  outputs : SUBSET {ImageOutput}]
  /\ cameraFlag \in BOOLEAN
  /\ layers \in 0 .. LayerCap
  /\ appeared \in BOOLEAN
  /\ authorization \in {"notDetermined", "authorized", "denied"}
  /\ trap \in {"none"} \cup CameraTraps \cup OtherTraps

(* The session streams exactly while the camera scene is up, from exactly  *)
(* one camera into the photo output; otherwise it holds neither.  Every    *)
(* setup must find the session emptied by the release before it, or        *)
(* canAddInput refuses the new camera.                                     *)
SessionMatchesScene ==
  /\ trap = "none" => (appeared <=> session.running)
  /\ session.running  => /\ \E p \in Positions : session.inputs = {p}
                         /\ session.outputs = {ImageOutput}
  /\ ~session.running => session.inputs = {} /\ session.outputs = {}

(* viewDidAppear opens the back camera and leaves cameraFlag alone, so the *)
(* flag can be stale when the user comes back; it is stale in one          *)
(* direction only: the front camera never runs with the flag down.         *)
FrontOnlyWithFlag == "front" \in session.inputs => cameraFlag

Aligned(s, flag) == ("front" \in s.inputs) <=> flag

(* A press of the change-camera button leaves the flag and the camera in   *)
(* agreement, and exchanges the camera unless the flag was stale: at most  *)
(* one press after a return to the scene is wasted.                        *)
ChangeRealigns ==
  [][session.running /\ session'.running /\ cameraFlag' # cameraFlag
       => /\ Aligned(session', cameraFlag')
          /\ Aligned(session, cameraFlag) => session'.inputs # session.inputs
    ]_cameraVars

(* CaptureSession implements CameraLease: the lease is what is streaming.  *)
Lease == INSTANCE CameraLease
           WITH lease <- IF session.running THEN session.inputs ELSE {}
LeaseSpec == Lease!Spec

(* ViewController's "camera stop" comment says that leaving the scene      *)
(* releases memory.  The preview layers, which keep the session and its    *)
(* video alive, are what a release would have to drop.                     *)
ReleaseDropsLayers == trap = "none" /\ ~appeared => layers = 0

=============================================================================
