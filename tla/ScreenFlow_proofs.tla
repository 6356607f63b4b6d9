-------------------------- MODULE ScreenFlow_proofs --------------------------
(***************************************************************************)
(* Proofs about the camera and about the navigation of the three scenes,   *)
(* for any set of built-in cameras and any bounds.                         *)
(*                                                                         *)
(* First the camera of ViewController alone.  CameraInv is inductive as it *)
(* stands: a release always empties the session, and every setup but the   *)
(* change-camera button's finds it already emptied by viewDidDisappear.    *)
(*                                                                         *)
(* Then the whole app.  Every step of it is a step of CaptureSession, or   *)
(* none for the camera, so what is proved of the camera alone holds in the *)
(* app.  LifecycleOK is shown to be preserved together with the variables' *)
(* types: it links what the camera was last told to what is on screen,     *)
(* which is all that CaptureReady and CameraOffWhenCovered need.  LockOut  *)
(* is added to it for what a denied permission leaves possible.            *)
(***************************************************************************)
EXTENDS ScreenFlow, SequenceTheorems, TLAPS

CameraInv == CameraTypeOK /\ SessionMatchesScene /\ FrontOnlyWithFlag

(* The session that setupCamera leaves behind when it succeeds.            *)
Streaming(p) == [running |-> TRUE, inputs |-> {p}, outputs |-> {ImageOutput}]

-----------------------------------------------------------------------------
(* Whatever the session holds, the loops of viewDidDisappear and of        *)
(* pushChangeCameraBtn leave it stopped and empty.                         *)
LEMMA ReleaseEmpties ==
  ASSUME NEW s
  PROVE  ReleaseSession(s) = EmptySession
BY DEF ReleaseSession, StopRunning, EmptySession

(* The emptied session is well typed, and satisfies every invariant of a   *)
(* scene that is not up.                                                   *)
LEMMA EmptySessionFacts ==
  /\ EmptySession \in [running : BOOLEAN, inputs : SUBSET Positions,
                       outputs : SUBSET {ImageOutput}]
  /\ EmptySession.running = FALSE
  /\ EmptySession.inputs = {}
  /\ EmptySession.outputs = {}
BY DEF EmptySession

(* createView on an emptied session attaches the camera and the output.    *)
LEMMA CreateViewOnEmpty ==
  ASSUME NEW p \in Positions
  PROVE  StartRunning(CreateView(EmptySession, p)) = Streaming(p)
BY DEF CreateView, EmptySession, CanAddInput, CanAddOutput, StartRunning, Streaming

(* setupCamera on an emptied session traps and leaves it empty, or starts  *)
(* the camera asked for, and then the permission was not denied.           *)
LEMMA SetupOnEmpty ==
  ASSUME NEW p \in Positions, layers \in 0 .. LayerCap,
         SetupCamera(EmptySession, p)
  PROVE  \/ trap' \in CameraTraps /\ session' = EmptySession /\ layers' = layers
         \/ /\ trap' = trap
            /\ session' = Streaming(p)
            /\ layers' \in 0 .. LayerCap
            /\ authorization # "denied"
<1>1. CASE trap' = "cannot setup layer" /\ session' = EmptySession /\ layers' = layers
  BY <1>1 DEF CameraTraps
<1>2. CASE trap' = "input not authorized" /\ session' = EmptySession /\ layers' = layers
  BY <1>2 DEF CameraTraps
<1>3. CASE /\ authorization # "denied"
           /\ session' = StartRunning(CreateView(EmptySession, p))
           /\ layers' = IF layers < LayerCap THEN layers + 1 ELSE layers
           /\ trap' = trap
  <2>1. session' = Streaming(p)
    BY <1>3, CreateViewOnEmpty
  <2>2. layers' \in 0 .. LayerCap
    BY <1>3, LayerCapAssumption
  <2>3. QED
    BY <1>3, <2>1, <2>2
<1>4. QED
  BY <1>1, <1>2, <1>3 DEF SetupCamera

(* While the process is alive and the scene is not up, the session is      *)
(* empty: what viewDidAppear's setup relies on.                            *)
LEMMA EmptyWhenCovered ==
  ASSUME CameraInv, trap = "none", ~appeared
  PROVE  session = EmptySession
BY DEF CameraInv, CameraTypeOK, SessionMatchesScene, EmptySession

-----------------------------------------------------------------------------
(* A successful or trapped setup of an emptied session keeps CameraInv.    *)
LEMMA SetupKeepsInv ==
  ASSUME CameraInv, trap = "none", NEW p \in Positions,
         SetupCamera(EmptySession, p),
         cameraFlag' \in BOOLEAN, p = "front" /\ trap' = "none" => cameraFlag',
         appeared', appeared' \in BOOLEAN,
         UNCHANGED authorization
  PROVE  CameraInv'
<1>1. layers \in 0 .. LayerCap
  BY DEF CameraInv, CameraTypeOK
<1>2. CASE trap' \in CameraTraps /\ session' = EmptySession /\ layers' = layers
  BY <1>1, <1>2 DEF CameraInv, CameraTypeOK, SessionMatchesScene,
                    FrontOnlyWithFlag, EmptySession, CameraTraps
<1>3. CASE /\ trap' = trap
           /\ session' = Streaming(p)
           /\ layers' \in 0 .. LayerCap
  BY <1>3 DEF CameraInv, CameraTypeOK, SessionMatchesScene,
              FrontOnlyWithFlag, Streaming, Positions
<1>4. QED
  BY <1>1, <1>2, <1>3, SetupOnEmpty

LEMMA CameraStep == CameraInv /\ [CameraNext]_cameraVars => CameraInv'
<1> SUFFICES ASSUME CameraInv, [CameraNext]_cameraVars PROVE CameraInv'
  OBVIOUS
<1>1. CASE ViewDidAppear
  <2>1. session = EmptySession
    BY <1>1, EmptyWhenCovered DEF ViewDidAppear
  <2>2. "back" \in Positions
    BY DEF Positions
  <2>3. cameraFlag' \in BOOLEAN
    BY <1>1 DEF ViewDidAppear, CameraInv, CameraTypeOK
  <2>4. QED
    BY <1>1, <2>1, <2>2, <2>3, SetupKeepsInv DEF ViewDidAppear
<1>2. CASE ViewDidDisappear
  <2>1. session' = EmptySession
    BY <1>2, ReleaseEmpties DEF ViewDidDisappear
  <2>2. QED
    BY <1>2, <2>1, EmptySessionFacts DEF ViewDidDisappear, CameraInv, CameraTypeOK,
                      SessionMatchesScene, FrontOnlyWithFlag
<1>3. CASE PushChangeCameraBtn
  <2> DEFINE p == IF cameraFlag THEN "back" ELSE "front"
  <2>1. ReleaseSession(session) = EmptySession
    BY ReleaseEmpties
  <2>2. p \in Positions
    BY DEF Positions
  <2>3. SetupCamera(EmptySession, p)
    BY <1>3, <2>1 DEF PushChangeCameraBtn
  <2>4. cameraFlag' \in BOOLEAN /\ (p = "front" /\ trap' = "none" => cameraFlag')
    BY <1>3 DEF PushChangeCameraBtn, CameraInv, CameraTypeOK
  <2>5. appeared' /\ appeared' \in BOOLEAN /\ UNCHANGED authorization /\ trap = "none"
    BY <1>3 DEF PushChangeCameraBtn, CameraInv, CameraTypeOK
  <2> HIDE DEF p
  <2>6. QED
    BY <2>2, <2>3, <2>4, <2>5, SetupKeepsInv
<1>4. CASE AnswerPrompt
  BY <1>4 DEF AnswerPrompt, CameraInv, CameraTypeOK, SessionMatchesScene,
              FrontOnlyWithFlag
<1>5. CASE CameraRelaunch
  <2>1. /\ ~session'.running /\ session'.inputs = {} /\ session'.outputs = {}
        /\ ~appeared'
    BY <1>5, EmptySessionFacts DEF CameraRelaunch
  <2>2. CameraTypeOK'
    <3>1. session' = EmptySession /\ cameraFlag' \in BOOLEAN /\ appeared' \in BOOLEAN
      BY <1>5 DEF CameraRelaunch
    <3>2. layers' \in 0 .. LayerCap
      BY <1>5, LayerCapAssumption DEF CameraRelaunch
    <3>3. authorization' \in {"notDetermined", "authorized", "denied"}
      BY <1>5 DEF CameraRelaunch, CameraInv, CameraTypeOK
    <3>4. trap' = "none"
      BY <1>5 DEF CameraRelaunch
    <3>5. QED
      BY <3>1, <3>2, <3>3, <3>4, EmptySessionFacts DEF CameraTypeOK
  <2>3. SessionMatchesScene'
    BY <2>1 DEF SessionMatchesScene
  <2>4. FrontOnlyWithFlag'
    BY <2>1 DEF FrontOnlyWithFlag
  <2>5. QED
    BY <2>2, <2>3, <2>4 DEF CameraInv
<1>6. CASE TrapElsewhere
  BY <1>6 DEF TrapElsewhere, OtherTraps, CameraInv, CameraTypeOK,
              SessionMatchesScene, FrontOnlyWithFlag
<1>7. CASE UNCHANGED cameraVars
  BY <1>7 DEF cameraVars, CameraInv, CameraTypeOK, SessionMatchesScene,
              FrontOnlyWithFlag
<1>8. QED
  BY <1>1, <1>2, <1>3, <1>4, <1>5, <1>6, <1>7 DEF CameraNext

(* What viewDidLoad finds.                                                 *)
LEMMA CameraStart == CameraInit => CameraInv
<1> SUFFICES ASSUME CameraInit PROVE CameraInv
  OBVIOUS
<1>1. /\ ~session.running /\ session.inputs = {} /\ session.outputs = {}
      /\ ~appeared
  BY EmptySessionFacts DEF CameraInit
<1>2. CameraTypeOK
  <2>1. session = EmptySession /\ cameraFlag \in BOOLEAN /\ appeared \in BOOLEAN
    BY DEF CameraInit
  <2>2. layers \in 0 .. LayerCap
    BY LayerCapAssumption DEF CameraInit
  <2>3. QED
    BY <2>1, <2>2, EmptySessionFacts DEF CameraInit, CameraTypeOK
<1>3. SessionMatchesScene
  BY <1>1 DEF SessionMatchesScene
<1>4. FrontOnlyWithFlag
  BY <1>1 DEF FrontOnlyWithFlag
<1>5. QED
  BY <1>2, <1>3, <1>4 DEF CameraInv

(* CameraInv holds in every reachable state: the three invariants of the   *)
(* run, for every device.                                                  *)
THEOREM CameraInvariance == CameraSpec => []CameraInv
BY CameraStart, CameraStep, PTL DEF CameraSpec

(* The session streams, from one camera, exactly while the camera scene is *)
(* up (viewDidAppear, viewDidDisappear, pushChangeCameraBtn).              *)
THEOREM SessionFollowsScene == CameraSpec => []SessionMatchesScene
BY CameraInvariance, PTL DEF CameraInv

(* The front camera never runs with cameraFlag down.                       *)
THEOREM FrontFlagged == CameraSpec => []FrontOnlyWithFlag
BY CameraInvariance, PTL DEF CameraInv

-----------------------------------------------------------------------------
(* What the session holds in terms of the lease: a running session's       *)
(* single camera, or nothing.                                              *)
LEMMA LeaseShape ==
  ASSUME CameraInv
  PROVE  /\ session.running  => \E p \in Positions : session.inputs = {p}
         /\ ~session.running => session.inputs = {}
BY DEF CameraInv, SessionMatchesScene

(* Every step of the scene that touches the session, summarised: it opens  *)
(* the back camera, exchanges the camera, or leaves nothing running.       *)
LEMMA SessionSteps ==
  ASSUME CameraInv, [CameraNext]_cameraVars
  PROVE  \/ UNCHANGED session
         \/ ~session'.running
         \/ session = EmptySession /\ session' = Streaming("back")
         \/ session.running /\ \E p \in Positions : session' = Streaming(p)
<1>1. CASE ViewDidAppear
  <2>1. session = EmptySession
    BY <1>1, EmptyWhenCovered DEF ViewDidAppear
  <2>2. "back" \in Positions /\ layers \in 0 .. LayerCap
    BY DEF Positions, CameraInv, CameraTypeOK
  <2>3. SetupCamera(EmptySession, "back")
    BY <1>1, <2>1 DEF ViewDidAppear
  <2>4. QED
    BY <2>1, <2>2, <2>3, SetupOnEmpty
<1>2. CASE ViewDidDisappear
  <2>1. session' = EmptySession
    BY <1>2, ReleaseEmpties DEF ViewDidDisappear
  <2>2. QED
    BY <2>1, EmptySessionFacts
<1>3. CASE PushChangeCameraBtn
  <2> DEFINE p == IF cameraFlag THEN "back" ELSE "front"
  <2>1. p \in Positions /\ layers \in 0 .. LayerCap
    BY DEF Positions, CameraInv, CameraTypeOK
  <2>2. SetupCamera(EmptySession, p)
    BY <1>3, ReleaseEmpties DEF PushChangeCameraBtn
  <2>3. session.running
    BY <1>3 DEF PushChangeCameraBtn, CameraInv, SessionMatchesScene
  <2> HIDE DEF p
  <2>4. CASE session' = EmptySession
    BY <2>4, EmptySessionFacts
  <2>5. CASE session' = Streaming(p)
    BY <2>1, <2>3, <2>5
  <2>6. QED
    BY <2>1, <2>2, <2>4, <2>5, SetupOnEmpty
<1>4. CASE AnswerPrompt \/ TrapElsewhere \/ UNCHANGED cameraVars
  BY <1>4 DEF AnswerPrompt, TrapElsewhere, cameraVars
<1>5. CASE CameraRelaunch
  BY <1>5, EmptySessionFacts DEF CameraRelaunch
<1>6. QED
  BY <1>1, <1>2, <1>3, <1>4, <1>5 DEF CameraNext

(* A press of the change-camera button leaves flag and camera in agreement *)
(* (pushChangeCameraBtn), and nothing else changes the flag while it runs. *)
THEOREM PressRealigns == CameraSpec => ChangeRealigns
<1>1. ASSUME CameraInv, [CameraNext]_cameraVars,
             session.running, session'.running, cameraFlag' # cameraFlag
      PROVE  /\ Aligned(session', cameraFlag')
             /\ Aligned(session, cameraFlag) => session'.inputs # session.inputs
  <2>1. PushChangeCameraBtn
    BY <1>1, EmptySessionFacts DEF CameraNext, ViewDidAppear, ViewDidDisappear,
       AnswerPrompt, CameraRelaunch, TrapElsewhere, cameraVars
  <2> DEFINE p == IF cameraFlag THEN "back" ELSE "front"
  <2>2. p \in Positions /\ ReleaseSession(session) = EmptySession
    BY ReleaseEmpties DEF Positions
  <2>3. SetupCamera(EmptySession, p) /\ layers \in 0 .. LayerCap
    BY <1>1, <2>1, <2>2 DEF PushChangeCameraBtn, CameraInv, CameraTypeOK
  <2> HIDE DEF p
  <2>4. session' = Streaming(p)
    BY <1>1, <2>2, <2>3, SetupOnEmpty, EmptySessionFacts
  <2>5. session'.inputs = {p}
    BY <2>4 DEF Streaming
  <2>6. trap' = "none" /\ cameraFlag \in BOOLEAN /\ cameraFlag' \in BOOLEAN
    BY <1>1, <2>1 DEF PushChangeCameraBtn, CameraInv, CameraTypeOK
  <2>7. (p = "front" <=> cameraFlag') /\ p \in {"back", "front"}
    BY <1>1, <2>1, <2>6 DEF p, PushChangeCameraBtn
  <2>8. "front" \in {p} <=> p = "front"
    BY <2>7
  <2>9. Aligned(session', cameraFlag')
    BY <2>5, <2>7, <2>8 DEF Aligned
  <2>10. ("front" \in session'.inputs) /= ("front" \in session.inputs)
           \/ ~Aligned(session, cameraFlag)
    BY <1>1, <2>6, <2>9 DEF Aligned
  <2>11. QED
    BY <2>9, <2>10
<1>2. CameraInv /\ [CameraNext]_cameraVars
        => [session.running /\ session'.running /\ cameraFlag' # cameraFlag
              => /\ Aligned(session', cameraFlag')
                 /\ Aligned(session, cameraFlag) => session'.inputs # session.inputs
           ]_cameraVars
  BY <1>1
<1>3. QED
  BY <1>2, CameraInvariance, PTL DEF CameraSpec, ChangeRealigns

(* The detailed session implements CameraLease: at most one camera at a    *)
(* time, each lease beginning with the back camera.                        *)
THEOREM SessionImplementsLease == CameraSpec => LeaseSpec
<1> DEFINE lease == IF session.running THEN session.inputs ELSE {}
<1>1. CameraInit => Lease!Init
  BY EmptySessionFacts DEF CameraInit, Lease!Init
<1>2. ASSUME CameraInv, CameraInv', [CameraNext]_cameraVars
      PROVE  [Lease!Next]_lease
  <2>1. CASE UNCHANGED session
    BY <2>1
  <2>2. CASE ~session'.running
    BY <1>2, <2>2, LeaseShape DEF Lease!Next, Lease!Release
  <2>3. CASE session = EmptySession /\ session' = Streaming("back")
    BY <2>3, EmptySessionFacts DEF Streaming, Lease!Next, Lease!Acquire
  <2>4. CASE session.running /\ \E p \in Positions : session' = Streaming(p)
    <3>1. lease # {}
      BY <1>2, <2>4, LeaseShape
    <3>2. \E p \in {"back", "front"} : lease' = {p}
      BY <2>4 DEF Streaming, Positions
    <3>3. QED
      BY <3>1, <3>2 DEF Lease!Next, Lease!Switch
  <2>5. QED
    BY <1>2, <2>1, <2>2, <2>3, <2>4, SessionSteps
<1>3. QED
  BY <1>1, <1>2, CameraInvariance, PTL DEF CameraSpec, LeaseSpec, Lease!Spec

-----------------------------------------------------------------------------
(***************************************************************************)
(* The whole app.                                                          *)
(***************************************************************************)
-----------------------------------------------------------------------------
(* The camera's share of every step of the app.                            *)
LEMMA StepIsCameraStep == [Next]_vars => [CameraNext]_cameraVars
<1> SUFFICES ASSUME [Next]_vars PROVE [CameraNext]_cameraVars
  OBVIOUS
<1> USE DEF CameraNext
<1>1. CASE DeliverAppear \/ DeliverDisappear
  BY <1>1 DEF DeliverAppear, DeliverDisappear
<1>2. CASE PushCameraBtn
  BY <1>2 DEF PushCameraBtn, UserCanAct, TrapElsewhere, OtherTraps, cameraVars
<1>3. CASE PushOkBtn
  BY <1>3 DEF PushOkBtn, UserCanAct, TrapElsewhere, OtherTraps, cameraVars
<1>4. CASE ChangeCamera
  BY <1>4 DEF ChangeCamera
<1>5. CASE Prompt \/ Relaunch
  BY <1>5 DEF Prompt, Relaunch
<1>6. CASE PhotoDelivered \/ PhotoDropped
  BY <1>6 DEF PhotoDelivered, PhotoDropped, cameraVars
<1>7. CASE PushPickerBtn \/ DidFinishPicking \/ PickerCancelled \/ PickerDismissed
  BY <1>7 DEF PushPickerBtn, DidFinishPicking, PickerCancelled, PickerDismissed,
              cameraVars
<1>8. CASE PushBackBtn \/ PushCancelBtn \/ PushShareBtn \/ ShareDone
  BY <1>8 DEF PushBackBtn, PushCancelBtn, PushShareBtn, ShareDone, cameraVars
<1>9. CASE UNCHANGED vars
  BY <1>9 DEF vars, cameraVars
<1>10. CASE PhotoTraps
  BY <1>10 DEF PhotoTraps, TrapElsewhere, OtherTraps, cameraVars
<1>11. QED
  BY <1>1, <1>2, <1>3, <1>4, <1>5, <1>6, <1>7, <1>8, <1>9, <1>10
     DEF Next, UserStep, SystemStep

(* The app drives its camera as CaptureSession says.                       *)
THEOREM ScreenFlowDrivesCamera == Spec => CameraBehaviour
<1>1. ScreenInit => CameraInit
  BY DEF ScreenInit
<1>2. QED
  BY <1>1, StepIsCameraStep, PTL DEF Spec, CameraBehaviour, CameraSpec

-----------------------------------------------------------------------------
(* The inductive invariant: the types, the room left for the image that    *)
(* the picker on screen will return, and the properties.                   *)
FlowInv ==
  /\ CameraInv
  /\ ScreenTypeOK
  /\ modal = "picker" => acquired + inFlight < MaxImages
  /\ modal = "share" => stack # <<>>
  /\ LifecycleOK
  /\ StackShape
  /\ PickNotLost
  /\ trap # "no video connection"

(* The camera scene in sight of a user who can act is ready to capture.    *)
LEMMA ReadyWhenInSight ==
  ASSUME CameraInv, LifecycleOK, UserCanAct, stack = <<>>
  PROVE  Connected
<1>1. RootOnTop /\ trap = "none" /\ pending = <<>>
  BY DEF UserCanAct, RootOnTop
<1>2. appeared
  BY <1>1 DEF LifecycleOK
<1>3. session.running
  BY <1>1, <1>2 DEF CameraInv, SessionMatchesScene
<1>4. QED
  BY <1>3 DEF CameraInv, SessionMatchesScene, Connected

(* Calls and scenes the proofs name, as members of their types.            *)
LEMMA Members ==
  /\ "appear" \in Calls
  /\ "disappear" \in Calls
  /\ \A img \in Images : /\ [screen |-> "preview", image |-> img] \in Scenes
                         /\ [screen |-> "edit", image |-> img] \in Scenes
BY DEF Calls, Scenes

(* Pushing a scene on a well-formed stack.                                 *)
LEMMA PushFacts ==
  ASSUME NEW scene \in Scenes, stack \in Seq(Scenes), pending \in Seq(Calls),
         Push(scene)
  PROVE  /\ stack' \in Seq(Scenes)
         /\ pending' \in Seq(Calls)
         /\ stack' # <<>>
         /\ Len(stack') = Len(stack) + 1
         /\ stack'[Len(stack')] = scene
         /\ \A i \in 1 .. Len(stack) : stack'[i] = stack[i]
         /\ ~RootOnTop'
BY Members DEF Push, RootOnTop

(* Popping scenes leaves the ones below as they were.                      *)
LEMMA PopFacts ==
  ASSUME stack \in Seq(Scenes), pending \in Seq(Calls),
         NEW n \in 0 .. Len(stack), PopTo(n)
  PROVE  /\ stack' \in Seq(Scenes)
         /\ pending' \in Seq(Calls)
         /\ Len(stack') = n
         /\ stack' = <<>> <=> n = 0
         /\ \A i \in 1 .. n : stack'[i] = stack[i]
<1>1. stack' = [i \in 1 .. n |-> stack[i]]
  BY DEF PopTo
<1>2. \A i \in 1 .. n : stack[i] \in Scenes
  OBVIOUS
<1>3. stack' \in Seq(Scenes) /\ Len(stack') = n
  BY <1>1, <1>2
<1>4. pending' \in Seq(Calls)
  BY Members DEF PopTo
<1>5. stack' = <<>> <=> n = 0
  BY <1>1, <1>3
<1>6. \A i \in 1 .. n : stack'[i] = stack[i]
  BY <1>1
<1>7. QED
  BY <1>3, <1>4, <1>5, <1>6

(* The visible scene of a stack that has one.                              *)
LEMMA TopFacts ==
  ASSUME stack \in Seq(Scenes), stack # <<>>
  PROVE  Len(stack) \in Nat \ {0} /\ Top \in Scenes /\ Top.image \in Images
<1>1. Len(stack) \in Nat \ {0} /\ Top \in Scenes
  BY DEF Top
<1>2. QED
  BY <1>1 DEF Scenes

-----------------------------------------------------------------------------
(* The types: the parts of ScreenTypeOK that the camera does not have.     *)
LEMMA TypeStep == FlowInv /\ [Next]_vars /\ CameraInv' => ScreenTypeOK'
<1> SUFFICES ASSUME FlowInv, [Next]_vars, CameraInv' PROVE ScreenTypeOK'
  OBVIOUS
<1> DEFINE SeqsOK == stack \in Seq(Scenes) /\ pending \in Seq(Calls)
           RestOK == /\ modal \in {"none", "picker", "dismissing", "share"}
                     /\ image \in Images
                     /\ inFlight \in 0 .. MaxInFlight
                     /\ acquired \in 0 .. MaxImages
                     /\ acquired + inFlight <= MaxImages
                     /\ picked \in 0 .. MaxImages
<1>0. SeqsOK /\ RestOK
  BY DEF FlowInv, ScreenTypeOK
<1>a. SeqsOK' /\ RestOK' => ScreenTypeOK'
  BY DEF CameraInv, ScreenTypeOK
<1>1. CASE DeliverAppear \/ DeliverDisappear
  <2>1. RestOK'
    BY <1>0, <1>1 DEF DeliverAppear, DeliverDisappear
  <2>2. stack' = stack /\ pending # <<>> /\ pending' = Tail(pending)
    BY <1>1 DEF DeliverAppear, DeliverDisappear
  <2>3. SeqsOK'
    BY <1>0, <2>2
  <2>4. QED
    BY <1>a, <2>1, <2>3
<1>2. CASE PushCameraBtn \/ PhotoDropped \/ PhotoTraps
  <2>1. SeqsOK'
    BY <1>0, <1>2 DEF PushCameraBtn, PhotoDropped, PhotoTraps
  <2>2. RestOK'
    <3>1. CASE PushCameraBtn
      <4>1. inFlight' \in {inFlight, inFlight + 1}
        BY <3>1 DEF PushCameraBtn
      <4>2. inFlight < MaxInFlight /\ acquired + inFlight < MaxImages
        BY <3>1 DEF PushCameraBtn
      <4> inFlight \in 0 .. MaxInFlight /\ acquired \in 0 .. MaxImages
          /\ acquired + inFlight <= MaxImages
        BY <1>0
      <4>3. inFlight' \in 0 .. MaxInFlight /\ acquired + inFlight' <= MaxImages
        <5>1. CASE inFlight' = inFlight
          BY <5>1
        <5>2. CASE inFlight' = inFlight + 1
          BY <4>2, <5>2, BoundsAssumption
        <5>3. QED
          BY <4>1, <5>1, <5>2
      <4>4. QED
        BY <1>0, <3>1, <4>3 DEF PushCameraBtn
    <3>2. CASE PhotoDropped \/ PhotoTraps
      <4>1. /\ inFlight > 0 /\ inFlight' = inFlight - 1
            /\ UNCHANGED <<modal, image, acquired, picked>>
        BY <3>2 DEF PhotoDropped, PhotoTraps
      <4>2. inFlight' \in 0 .. MaxInFlight /\ acquired + inFlight' <= MaxImages
        BY <1>0, <4>1, BoundsAssumption
      <4>3. QED
        BY <1>0, <4>1, <4>2
    <3>3. QED
      BY <1>2, <3>1, <3>2
  <2>3. QED
    BY <1>a, <2>1, <2>2
<1>3. CASE PhotoDelivered
  <2>1. RestOK'
    BY <1>0, <1>3, BoundsAssumption DEF PhotoDelivered, Image, Images
  <2>2. Push([screen |-> "preview", image |-> image'])
    BY <1>3 DEF PhotoDelivered, ShowPreview
  <2>3. SeqsOK'
    BY <1>0, <2>1, <2>2, Members, PushFacts
  <2>4. QED
    BY <1>a, <2>1, <2>3
<1>4. CASE ChangeCamera \/ Prompt
  BY <1>0, <1>4, <1>a DEF ChangeCamera, Prompt, screenVars
<1>5. CASE PushPickerBtn
  <2>1. RestOK' /\ stack' = stack /\ pending' = Append(pending, "disappear")
    BY <1>0, <1>5 DEF PushPickerBtn
  <2>2. QED
    BY <1>0, <1>a, <2>1, Members
<1>6. CASE DidFinishPicking \/ PickerCancelled
  <2>1. acquired + inFlight < MaxImages
    BY <1>6 DEF FlowInv, DidFinishPicking, PickerCancelled
  <2>2. RestOK'
    BY <1>0, <1>6, <2>1, BoundsAssumption
       DEF DidFinishPicking, PickerCancelled, Images
  <2>3. stack' = stack /\ pending' \in {pending, Append(pending, "appear")}
    BY <1>6 DEF DidFinishPicking, PickerCancelled, Uncover
  <2>4. Append(pending, "appear") \in Seq(Calls)
    BY <1>0, Members
  <2>5. SeqsOK'
    BY <1>0, <2>3, <2>4
  <2>6. QED
    BY <1>a, <2>2, <2>5
<1>7. CASE PickerDismissed
  <2>1. RestOK' /\ Push([screen |-> "preview", image |-> image])
    BY <1>0, <1>7, BoundsAssumption DEF PickerDismissed, ShowPreview
  <2>2. SeqsOK'
    BY <1>0, <2>1, Members, PushFacts
  <2>3. QED
    BY <1>a, <2>1, <2>2
<1>8. CASE PushOkBtn
  <2>1. RestOK'
    BY <1>0, <1>8 DEF PushOkBtn
  <2>2. CASE stack' = stack /\ pending' = pending
    BY <1>0, <1>a, <2>1, <2>2
  <2>3. CASE Push([screen |-> "edit", image |-> Top.image])
    <3>1. Top.image \in Images
      BY <1>0, <1>8, TopFacts DEF PushOkBtn, Showing
    <3>2. SeqsOK'
      BY <1>0, <2>3, <3>1, Members, PushFacts
    <3>3. QED
      BY <1>a, <2>1, <3>2
  <2>4. QED
    BY <1>8, <2>2, <2>3 DEF PushOkBtn
<1>9. CASE PushBackBtn \/ PushCancelBtn
  <2>1. RestOK'
    BY <1>0, <1>9 DEF PushBackBtn, PushCancelBtn
  <2>2. PICK n \in {0, Len(stack) - 1} : PopTo(n)
    BY <1>9 DEF PushBackBtn, PushCancelBtn
  <2>3. n \in 0 .. Len(stack)
    BY <1>0, <1>9, <2>2, TopFacts DEF PushBackBtn, PushCancelBtn, Showing
  <2>4. SeqsOK'
    BY <1>0, <2>2, <2>3, PopFacts
  <2>5. QED
    BY <1>a, <2>1, <2>4
<1>10. CASE PushShareBtn \/ ShareDone
  BY <1>0, <1>10, <1>a DEF PushShareBtn, ShareDone
<1>11. CASE Relaunch
  <2>1. RestOK'
    BY <1>11, BoundsAssumption DEF Relaunch, NoImage, Images
  <2>2. SeqsOK'
    BY <1>11, Members DEF Relaunch
  <2>3. QED
    BY <1>a, <2>1, <2>2
<1>12. CASE UNCHANGED vars
  BY <1>0, <1>12, <1>a DEF vars
<1>13. QED
  BY <1>1, <1>2, <1>3, <1>4, <1>5, <1>6, <1>7, <1>8, <1>9, <1>10, <1>11, <1>12
     DEF Next, UserStep, SystemStep

-----------------------------------------------------------------------------
(* What a scene pushed during whatever transition adds to the calls owed.  *)
LEMMA PushOwes ==
  ASSUME LifecycleOK, trap = "none", ~RootOnTop',
         appeared' = appeared, trap' = trap,
         pending' = IF RootOnTop THEN Append(pending, "disappear") ELSE pending
  PROVE  LifecycleOK'
<1>1. CASE pending = <<>> /\ appeared /\ RootOnTop
  BY <1>1 DEF LifecycleOK
<1>2. CASE pending = <<"appear">> /\ ~appeared /\ RootOnTop
  <2>1. Append(<<"appear">>, "disappear") = <<"appear", "disappear">>
    <3> DEFINE s == Append(<<"appear">>, "disappear")
               t == <<"appear", "disappear">>
    <3>1. s \in Seq(Calls) /\ t \in Seq(Calls)
      BY Members
    <3>2. Len(s) = 2 /\ Len(t) = 2
      OBVIOUS
    <3>3. s[1] = t[1] /\ s[2] = t[2]
      OBVIOUS
    <3>4. \A i \in 1 .. Len(s) : s[i] = t[i]
      BY <3>2, <3>3
    <3> HIDE DEF s, t
    <3>5. QED
      BY <3>1, <3>2, <3>4, SeqEqual DEF s, t
  <2>2. pending' = <<"appear", "disappear">>
    BY <1>2, <2>1
  <2>3. QED
    BY <1>2, <2>2 DEF LifecycleOK
<1>3. CASE ~RootOnTop
  BY <1>3 DEF LifecycleOK
<1>4. QED
  BY <1>1, <1>2, <1>3 DEF LifecycleOK

(* What the root owes when it is uncovered, all transitions being over.    *)
LEMMA UncoverOwes ==
  ASSUME LifecycleOK, trap = "none", pending = <<>>, ~RootOnTop,
         appeared' = appeared, trap' = trap,
         pending' = IF RootOnTop' THEN Append(pending, "appear") ELSE pending
  PROVE  LifecycleOK'
<1>1. ~appeared
  BY DEF LifecycleOK
<1>2. Append(<<>>, "appear") = <<"appear">>
  OBVIOUS
<1>3. QED
  BY <1>1, <1>2 DEF LifecycleOK

LEMMA LifecycleStep == FlowInv /\ [Next]_vars => LifecycleOK'
<1> SUFFICES ASSUME FlowInv, [Next]_vars PROVE LifecycleOK'
  OBVIOUS
<1>0. LifecycleOK /\ stack \in Seq(Scenes) /\ pending \in Seq(Calls)
  BY DEF FlowInv, ScreenTypeOK
<1>1. CASE DeliverAppear
  <2>1. /\ trap = "none" /\ ~appeared /\ appeared'
        /\ pending' = Tail(pending) /\ pending # <<>>
    BY <1>1 DEF DeliverAppear, ViewDidAppear
  <2>2. RootOnTop' <=> RootOnTop
    BY <1>1 DEF DeliverAppear, RootOnTop
  <2>3. Tail(<<"appear">>) = <<>> /\ Tail(<<"appear", "disappear">>) = <<"disappear">>
    OBVIOUS
  <2>4. CASE pending = <<"appear">> /\ RootOnTop
    BY <2>1, <2>2, <2>3, <2>4 DEF LifecycleOK
  <2>5. CASE pending = <<"appear", "disappear">> /\ ~RootOnTop
    BY <2>1, <2>2, <2>3, <2>5 DEF LifecycleOK
  <2>6. QED
    BY <1>0, <2>1, <2>4, <2>5 DEF LifecycleOK
<1>2. CASE DeliverDisappear
  <2>1. /\ pending = <<"disappear">> /\ pending' = Tail(pending) /\ ~appeared'
        /\ RootOnTop' = RootOnTop /\ ~RootOnTop
    BY <1>0, <1>2 DEF DeliverDisappear, ViewDidDisappear, LifecycleOK, RootOnTop
  <2>2. Tail(<<"disappear">>) = <<>>
    OBVIOUS
  <2>3. QED
    BY <2>1, <2>2 DEF LifecycleOK
<1>3. CASE PhotoDelivered \/ PickerDismissed
  <2>1. PICK img : Push([screen |-> "preview", image |-> img])
    BY <1>3 DEF PhotoDelivered, PickerDismissed, ShowPreview
  <2>2. trap = "none" /\ trap' = trap /\ appeared' = appeared
    BY <1>3 DEF PhotoDelivered, PickerDismissed
  <2>3. stack' # <<>>
    BY <1>0, <2>1 DEF Push
  <2>4. QED
    BY <1>0, <2>1, <2>2, <2>3, PushOwes DEF Push, RootOnTop
<1>4. CASE PushPickerBtn
  <2>1. trap = "none" /\ pending = <<>> /\ RootOnTop /\ ~RootOnTop'
        /\ pending' = Append(pending, "disappear")
        /\ trap' = trap /\ appeared' = appeared
    BY <1>4 DEF PushPickerBtn, UserCanAct, RootOnTop
  <2>2. QED
    BY <1>0, <2>1, PushOwes
<1>5. CASE DidFinishPicking \/ PickerCancelled
  <2>1. /\ trap = "none" /\ pending = <<>> /\ ~RootOnTop
        /\ trap' = trap /\ appeared' = appeared
        /\ RootOnTop' <=> stack = <<>>
        /\ pending' = IF stack = <<>> THEN Append(pending, "appear") ELSE pending
    BY <1>5 DEF DidFinishPicking, PickerCancelled, Uncover, RootOnTop
  <2>2. QED
    BY <1>0, <2>1, UncoverOwes
<1>6. CASE PushBackBtn \/ PushCancelBtn
  <2>1. /\ trap = "none" /\ pending = <<>> /\ ~RootOnTop
        /\ trap' = trap /\ appeared' = appeared /\ modal' = "none"
    BY <1>6 DEF PushBackBtn, PushCancelBtn, UserCanAct, Showing, RootOnTop
  <2>2. PICK n \in {0, Len(stack) - 1} : PopTo(n)
    BY <1>6 DEF PushBackBtn, PushCancelBtn
  <2>3. n \in 0 .. Len(stack)
    BY <1>0, <1>6, <2>2, TopFacts DEF PushBackBtn, PushCancelBtn, Showing
  <2>4. RootOnTop' <=> n = 0
    BY <1>0, <2>1, <2>2, <2>3, PopFacts DEF RootOnTop
  <2>5. QED
    BY <1>0, <2>1, <2>2, <2>4, UncoverOwes DEF PopTo
<1>7. CASE PushOkBtn
  <2>1. trap = "none" /\ pending = <<>> /\ ~RootOnTop /\ appeared' = appeared
    BY <1>7 DEF PushOkBtn, UserCanAct, Showing, RootOnTop
  <2>2. CASE trap' # "none"
    BY <2>2 DEF LifecycleOK
  <2>3. CASE trap' = trap /\ Push([screen |-> "edit", image |-> Top.image])
    <3>1. stack' # <<>>
      BY <1>0, <2>3 DEF Push
    <3>2. QED
      BY <1>0, <2>1, <2>3, <3>1, PushOwes DEF Push, RootOnTop
  <2>4. QED
    BY <1>7, <2>2, <2>3 DEF PushOkBtn
<1>8. CASE PushCameraBtn \/ PhotoDropped \/ PhotoTraps
  BY <1>0, <1>8 DEF PushCameraBtn, PhotoDropped, PhotoTraps, LifecycleOK, RootOnTop
<1>9. CASE ChangeCamera \/ Prompt
  <2>1. /\ trap = "none" /\ appeared' = appeared
        /\ pending' = pending /\ stack' = stack /\ modal' = modal
    BY <1>9 DEF ChangeCamera, PushChangeCameraBtn, Prompt, AnswerPrompt, screenVars
  <2>2. RootOnTop' <=> RootOnTop
    BY <2>1 DEF RootOnTop
  <2>3. QED
    BY <1>0, <2>1, <2>2 DEF LifecycleOK
<1>10. CASE PushShareBtn \/ ShareDone
  <2>1. /\ trap = "none" /\ appeared' = appeared
        /\ pending' = pending /\ stack' = stack
        /\ modal \in {"none", "share"} /\ modal' \in {"none", "share"}
    BY <1>10 DEF PushShareBtn, ShareDone, UserCanAct
  <2>2. stack # <<>>
    BY <1>10 DEF PushShareBtn, Showing, ShareDone, FlowInv
  <2>3. ~RootOnTop /\ ~RootOnTop'
    BY <2>1, <2>2 DEF RootOnTop
  <2>4. QED
    BY <1>0, <2>1, <2>3 DEF LifecycleOK
<1>11. CASE Relaunch
  BY <1>11 DEF Relaunch, CameraRelaunch, LifecycleOK, RootOnTop
<1>12. CASE UNCHANGED vars
  BY <1>0, <1>12 DEF vars, LifecycleOK, RootOnTop
<1>13. QED
  BY <1>1, <1>2, <1>3, <1>4, <1>5, <1>6, <1>7, <1>8, <1>9, <1>10, <1>11, <1>12
     DEF Next, UserStep, SystemStep

-----------------------------------------------------------------------------
(* What the handlers do to the stack: they leave it alone, push a scene of *)
(* a kind they are allowed to, or pop scenes.                              *)
LEMMA StackSteps ==
  ASSUME FlowInv, [Next]_vars
  PROVE  \/ stack' = stack
         \/ \E img \in Images : Push([screen |-> "preview", image |-> img])
         \/ /\ Showing("preview") /\ ~Top.image.nil
            /\ Push([screen |-> "edit", image |-> Top.image])
         \/ \E n \in 0 .. Len(stack) : PopTo(n)
         \/ stack' = <<>>
<1>0. stack \in Seq(Scenes) /\ pending \in Seq(Calls) /\ image \in Images
  BY DEF FlowInv, ScreenTypeOK
<1>1. CASE PhotoDelivered
  <2>1. acquired + 1 \in 0 .. MaxImages
    BY <1>1, BoundsAssumption DEF PhotoDelivered, FlowInv, ScreenTypeOK
  <2>2. image' \in Images
    BY <1>1, <2>1 DEF PhotoDelivered, Image, Images
  <2>3. QED
    BY <1>1, <2>2 DEF PhotoDelivered, ShowPreview
<1>2. CASE PickerDismissed
  BY <1>0, <1>2 DEF PickerDismissed, ShowPreview
<1>3. CASE PushOkBtn
  BY <1>3 DEF PushOkBtn
<1>4. CASE PushBackBtn \/ PushCancelBtn
  <2>1. PICK n \in {0, Len(stack) - 1} : PopTo(n)
    BY <1>4 DEF PushBackBtn, PushCancelBtn
  <2>2. n \in 0 .. Len(stack)
    BY <1>0, <1>4, <2>1, TopFacts DEF PushBackBtn, PushCancelBtn, Showing
  <2>3. QED
    BY <2>1, <2>2
<1>5. CASE Relaunch
  BY <1>5 DEF Relaunch
<1>6. CASE DeliverAppear \/ DeliverDisappear \/ ChangeCamera \/ Prompt
  BY <1>6 DEF DeliverAppear, DeliverDisappear, ChangeCamera, Prompt, screenVars
<1>7. CASE PushCameraBtn \/ PhotoDropped \/ PhotoTraps \/ PushPickerBtn
           \/ DidFinishPicking \/ PickerCancelled \/ PushShareBtn \/ ShareDone \/ UNCHANGED vars
  BY <1>7 DEF PushCameraBtn, PhotoDropped, PhotoTraps, PushPickerBtn,
              DidFinishPicking, PickerCancelled, PushShareBtn, ShareDone, vars
<1>8. QED
  BY <1>1, <1>2, <1>3, <1>4, <1>5, <1>6, <1>7 DEF Next, UserStep, SystemStep

LEMMA StackShapeStep == FlowInv /\ [Next]_vars => StackShape'
<1> SUFFICES ASSUME FlowInv, [Next]_vars PROVE StackShape'
  OBVIOUS
<1>0. StackShape /\ stack \in Seq(Scenes) /\ pending \in Seq(Calls)
  BY DEF FlowInv, ScreenTypeOK
<1>1. CASE stack' = stack
  BY <1>0, <1>1 DEF StackShape
<1>2. CASE \E img \in Images : Push([screen |-> "preview", image |-> img])
  <2>1. PICK img \in Images : Push([screen |-> "preview", image |-> img])
    BY <1>2
  <2> DEFINE scene == [screen |-> "preview", image |-> img]
  <2>2. /\ Len(stack') = Len(stack) + 1 /\ stack'[Len(stack')] = scene
        /\ \A i \in 1 .. Len(stack) : stack'[i] = stack[i]
    BY <1>0, <2>1, Members, PushFacts
  <2>3. scene.screen # "edit" /\ Len(stack) \in Nat
    BY <1>0
  <2> HIDE DEF scene
  <2>4. QED
    BY <1>0, <2>2, <2>3 DEF StackShape
<1>3. CASE /\ Showing("preview") /\ ~Top.image.nil
           /\ Push([screen |-> "edit", image |-> Top.image])
  <2> DEFINE scene == [screen |-> "edit", image |-> Top.image]
  <2>1. scene \in Scenes /\ Len(stack) \in Nat \ {0}
    BY <1>0, <1>3, Members, TopFacts DEF Showing
  <2>2. /\ Len(stack') = Len(stack) + 1 /\ stack'[Len(stack')] = scene
        /\ \A i \in 1 .. Len(stack) : stack'[i] = stack[i]
    BY <1>0, <1>3, <2>1, PushFacts
  <2>3. /\ stack[Len(stack)].screen = "preview"
        /\ stack[Len(stack)].image = scene.image /\ ~scene.image.nil
    BY <1>3 DEF Showing, Top
  <2> HIDE DEF scene
  <2>4. QED
    BY <1>0, <2>1, <2>2, <2>3 DEF StackShape
<1>4. CASE \E n \in 0 .. Len(stack) : PopTo(n)
  <2>1. PICK n \in 0 .. Len(stack) : PopTo(n)
    BY <1>4
  <2>2. Len(stack') = n /\ \A i \in 1 .. n : stack'[i] = stack[i]
    BY <1>0, <2>1, PopFacts
  <2>3. QED
    BY <1>0, <2>2 DEF StackShape
<1>5. CASE stack' = <<>>
  BY <1>5 DEF StackShape
<1>6. QED
  BY <1>1, <1>2, <1>3, <1>4, <1>5, StackSteps

(* Only a photo can come between a pick and its preview, and it is shown.  *)
LEMMA PickStep == FlowInv /\ [Next]_vars => PickNotLost'
<1> SUFFICES ASSUME FlowInv, [Next]_vars PROVE PickNotLost'
  OBVIOUS
<1>0. PickNotLost /\ stack \in Seq(Scenes) /\ pending \in Seq(Calls)
  BY DEF FlowInv, ScreenTypeOK
<1>1. CASE modal' # "dismissing"
  BY <1>1 DEF PickNotLost
<1>2. CASE UNCHANGED <<stack, modal, image, picked>>
  BY <1>0, <1>2 DEF PickNotLost, Showing, Top
<1>3. CASE PhotoDelivered
  <2>1. acquired + 1 \in 0 .. MaxImages
    BY <1>3, BoundsAssumption DEF PhotoDelivered, FlowInv, ScreenTypeOK
  <2>2. image' \in Images
    BY <1>3, <2>1 DEF PhotoDelivered, Image, Images
  <2> DEFINE scene == [screen |-> "preview", image |-> image']
  <2>3. scene \in Scenes /\ Push(scene)
    BY <1>3, <2>2, Members DEF PhotoDelivered, ShowPreview
  <2>4. scene.screen = "preview" /\ scene.image = image'
    OBVIOUS
  <2> HIDE DEF scene
  <2>5. stack' # <<>> /\ stack'[Len(stack')] = scene
    BY <1>0, <2>3, PushFacts
  <2>6. QED
    BY <2>4, <2>5 DEF PickNotLost, Showing, Top
<1>4. CASE DidFinishPicking
  <2>1. image'.seq = acquired + 1 /\ picked' = acquired + 1
    BY <1>4 DEF DidFinishPicking
  <2>2. QED
    BY <2>1 DEF PickNotLost
<1>5. CASE DeliverAppear \/ DeliverDisappear \/ PhotoDropped \/ PhotoTraps
           \/ ChangeCamera \/ Prompt
  BY <1>2, <1>5 DEF DeliverAppear, DeliverDisappear, PhotoDropped, PhotoTraps,
                    ChangeCamera, Prompt, screenVars
<1>6. CASE PickerCancelled \/ PickerDismissed \/ ShareDone \/ Relaunch \/ PushPickerBtn
           \/ PushShareBtn
  BY <1>1, <1>6 DEF PickerCancelled, PickerDismissed, ShareDone, Relaunch,
                    PushPickerBtn, PushShareBtn
<1>7. CASE PushCameraBtn \/ PushOkBtn \/ PushBackBtn \/ PushCancelBtn
  BY <1>1, <1>7 DEF PushCameraBtn, PushOkBtn, PushBackBtn, PushCancelBtn, UserCanAct
<1>8. CASE UNCHANGED vars
  BY <1>2, <1>8 DEF vars
<1>9. QED
  BY <1>3, <1>4, <1>5, <1>6, <1>7, <1>8 DEF Next, UserStep, SystemStep

-----------------------------------------------------------------------------
(* A picker on screen leaves room for its image: no capture is started     *)
(* under it, and each one that was already started had its own room.       *)
LEMMA RoomStep ==
  FlowInv /\ [Next]_vars => (modal = "picker" => acquired + inFlight < MaxImages)'
<1> SUFFICES ASSUME FlowInv, [Next]_vars, modal' = "picker"
             PROVE  acquired' + inFlight' < MaxImages
  OBVIOUS
<1>0. /\ acquired \in 0 .. MaxImages /\ inFlight \in 0 .. MaxInFlight
      /\ modal = "picker" => acquired + inFlight < MaxImages
  BY DEF FlowInv, ScreenTypeOK
<1>1. CASE PushPickerBtn
  BY <1>1 DEF PushPickerBtn
<1>2. CASE PhotoDelivered \/ PhotoDropped \/ PhotoTraps
  <2>1. /\ acquired' \in {acquired, acquired + 1} /\ inFlight' = inFlight - 1
        /\ modal = "picker"
    BY <1>2 DEF PhotoDelivered, PhotoDropped, PhotoTraps
  <2>2. acquired + inFlight < MaxImages /\ acquired \in Nat /\ inFlight \in Nat
    BY <1>0, <2>1, BoundsAssumption
  <2>3. CASE acquired' = acquired
    BY <2>1, <2>2, <2>3, BoundsAssumption
  <2>4. CASE acquired' = acquired + 1
    BY <2>1, <2>2, <2>4, BoundsAssumption
  <2>5. QED
    BY <2>1, <2>3, <2>4
<1>3. CASE DeliverAppear \/ DeliverDisappear \/ ChangeCamera \/ Prompt
  BY <1>0, <1>3 DEF DeliverAppear, DeliverDisappear, ChangeCamera, Prompt, screenVars
<1>4. CASE UNCHANGED vars
  BY <1>0, <1>4 DEF vars
<1>5. CASE PushCameraBtn \/ PushOkBtn \/ PushBackBtn \/ PushCancelBtn
  BY <1>5 DEF PushCameraBtn, PushOkBtn, PushBackBtn, PushCancelBtn, UserCanAct
<1>6. CASE DidFinishPicking \/ PickerCancelled \/ PickerDismissed \/ PushShareBtn
           \/ ShareDone \/ Relaunch
  BY <1>6 DEF DidFinishPicking, PickerCancelled, PickerDismissed, PushShareBtn,
              ShareDone, Relaunch
<1>7. QED
  BY <1>1, <1>2, <1>3, <1>4, <1>5, <1>6 DEF Next, UserStep, SystemStep

(* The share sheet stays over a scene.                                     *)
LEMMA ShareStep == FlowInv /\ [Next]_vars => (modal = "share" => stack # <<>>)'
<1> SUFFICES ASSUME FlowInv, [Next]_vars, modal' = "share" PROVE stack' # <<>>
  OBVIOUS
<1>0. stack \in Seq(Scenes) /\ (modal = "share" => stack # <<>>)
  BY DEF FlowInv, ScreenTypeOK
<1>1. CASE PushShareBtn
  BY <1>1 DEF PushShareBtn, Showing
<1>2. CASE PhotoDelivered
  BY <1>0, <1>2 DEF PhotoDelivered, ShowPreview, Push
<1>3. CASE DeliverAppear \/ DeliverDisappear \/ ChangeCamera \/ Prompt \/ PhotoDropped
           \/ PhotoTraps
  BY <1>0, <1>3 DEF DeliverAppear, DeliverDisappear, ChangeCamera, Prompt,
                    PhotoDropped, PhotoTraps, screenVars
<1>4. CASE UNCHANGED vars
  BY <1>0, <1>4 DEF vars
<1>5. CASE PushCameraBtn \/ PushOkBtn \/ PushBackBtn \/ PushCancelBtn
  BY <1>5 DEF PushCameraBtn, PushOkBtn, PushBackBtn, PushCancelBtn, UserCanAct
<1>6. CASE DidFinishPicking \/ PickerCancelled \/ PickerDismissed \/ PushPickerBtn
           \/ ShareDone \/ Relaunch
  BY <1>6 DEF DidFinishPicking, PickerCancelled, PickerDismissed, PushPickerBtn,
              ShareDone, Relaunch
<1>7. QED
  BY <1>1, <1>2, <1>3, <1>4, <1>5, <1>6 DEF Next, UserStep, SystemStep

(* No step of the app traps for want of a video connection.                *)
LEMMA ConnectionStep == FlowInv /\ [Next]_vars => (trap # "no video connection")'
<1> SUFFICES ASSUME FlowInv, [Next]_vars, trap' = "no video connection" PROVE FALSE
  OBVIOUS
<1>0. trap # "no video connection"
  BY DEF FlowInv
<1>1. CASE PushCameraBtn
  <2>1. ~Connected
    BY <1>0, <1>1 DEF PushCameraBtn
  <2>2. UserCanAct /\ stack = <<>>
    BY <1>1 DEF PushCameraBtn
  <2>3. QED
    BY <2>1, <2>2, ReadyWhenInSight DEF FlowInv
<1>2. CASE DeliverAppear \/ DeliverDisappear \/ ChangeCamera
  BY <1>0, <1>2 DEF DeliverAppear, DeliverDisappear, ChangeCamera, ViewDidAppear,
                    ViewDidDisappear, PushChangeCameraBtn, SetupCamera
<1>3. CASE PushOkBtn
  BY <1>0, <1>3 DEF PushOkBtn
<1>4. CASE PhotoDelivered \/ PhotoDropped \/ PhotoTraps \/ PushPickerBtn
           \/ DidFinishPicking \/ PickerCancelled \/ PickerDismissed
  BY <1>0, <1>4 DEF PhotoDelivered, PhotoDropped, PhotoTraps, PushPickerBtn,
                    DidFinishPicking, PickerCancelled, PickerDismissed
<1>5. CASE PushBackBtn \/ PushCancelBtn \/ PushShareBtn \/ ShareDone \/ Prompt \/ Relaunch
  BY <1>0, <1>5 DEF PushBackBtn, PushCancelBtn, PushShareBtn, ShareDone, Prompt,
                    AnswerPrompt, Relaunch, CameraRelaunch
<1>6. CASE UNCHANGED vars
  BY <1>0, <1>6 DEF vars
<1>7. QED
  BY <1>1, <1>2, <1>3, <1>4, <1>5, <1>6 DEF Next, UserStep, SystemStep

-----------------------------------------------------------------------------
LEMMA FlowInit == ScreenInit => FlowInv
<1> SUFFICES ASSUME ScreenInit PROVE FlowInv
  OBVIOUS
<1>1. CameraInv
  BY CameraStart DEF ScreenInit
<1>2. stack = <<>> /\ modal = "none" /\ pending = <<"appear">> /\ ~appeared
      /\ trap = "none"
  BY DEF ScreenInit, CameraInit
<1>3. ScreenTypeOK
  <2>1. stack \in Seq(Scenes) /\ pending \in Seq(Calls)
    BY <1>2, Members
  <2>2. image \in Images /\ inFlight \in 0 .. MaxInFlight /\ acquired \in 0 .. MaxImages
        /\ acquired + inFlight <= MaxImages /\ picked \in 0 .. MaxImages
    BY BoundsAssumption DEF ScreenInit, NoImage, Images
  <2>3. QED
    BY <1>1, <1>2, <2>1, <2>2 DEF ScreenTypeOK, CameraInv
<1>4. LifecycleOK
  BY <1>2 DEF LifecycleOK, RootOnTop
<1>5. StackShape /\ PickNotLost
  BY <1>2 DEF StackShape, PickNotLost
<1>6. QED
  BY <1>1, <1>2, <1>3, <1>4, <1>5 DEF FlowInv

LEMMA FlowStep == FlowInv /\ [Next]_vars => FlowInv'
<1> SUFFICES ASSUME FlowInv, [Next]_vars PROVE FlowInv'
  OBVIOUS
<1>1. CameraInv'
  BY StepIsCameraStep, CameraStep DEF FlowInv
<1>2. ScreenTypeOK'
  BY <1>1, TypeStep
<1>3. LifecycleOK' /\ StackShape' /\ PickNotLost'
  BY LifecycleStep, StackShapeStep, PickStep
<1>4. /\ (modal = "picker" => acquired + inFlight < MaxImages)'
      /\ (modal = "share" => stack # <<>>)'
      /\ (trap # "no video connection")'
  BY RoomStep, ShareStep, ConnectionStep
<1>5. QED
  BY <1>1, <1>2, <1>3, <1>4 DEF FlowInv

(* The inductive invariant of the navigation and the images.               *)
THEOREM FlowInvariance == Spec => []FlowInv
BY FlowInit, FlowStep, PTL DEF Spec

(* The types hold in every reachable state, for any bounds; a capture      *)
(* answers at most once.                                                   *)
THEOREM ScreenTypes == Spec => []ScreenTypeOK
<1>1. FlowInv => ScreenTypeOK
  BY DEF FlowInv
<1>2. QED
  BY <1>1, FlowInvariance, PTL

(* What UIKit owes ViewController always turns what it was last told into  *)
(* what is on screen.                                                      *)
THEOREM CallsMatchScreen == Spec => []LifecycleOK
<1>1. FlowInv => LifecycleOK
  BY DEF FlowInv
<1>2. QED
  BY <1>1, FlowInvariance, PTL

(* A shutter press never raises.                                           *)
THEOREM ShutterIsReady == Spec => []CaptureReady
<1>1. FlowInv => CaptureReady
  BY ReadyWhenInSight DEF FlowInv, CaptureReady
<1>2. QED
  BY <1>1, FlowInvariance, PTL

(* The session holds no camera under another scene.                        *)
THEOREM CoveredCameraIsOff == Spec => []CameraOffWhenCovered
<1>1. FlowInv => CameraOffWhenCovered
  <2> SUFFICES ASSUME FlowInv, trap = "none", pending = <<>>, ~RootOnTop
               PROVE  session = EmptySession
    BY DEF CameraOffWhenCovered
  <2>1. ~appeared
    BY DEF FlowInv, LifecycleOK
  <2>2. QED
    BY <2>1, EmptyWhenCovered DEF FlowInv
<1>2. QED
  BY <1>1, FlowInvariance, PTL

(* Every editor lies on the preview it was opened from, with its image.    *)
THEOREM EditorsKeepTheirImage == Spec => []StackShape
<1>1. FlowInv => StackShape
  BY DEF FlowInv
<1>2. QED
  BY <1>1, FlowInvariance, PTL

(* A late photo displaces a pick only when it is itself on screen.         *)
THEOREM PicksAreShownOrCovered == Spec => []PickNotLost
<1>1. FlowInv => PickNotLost
  BY DEF FlowInv
<1>2. QED
  BY <1>1, FlowInvariance, PTL

-----------------------------------------------------------------------------
(* What keeps a process out that has not been given access: before its     *)
(* first viewDidAppear it has done nothing, and while the alert is on      *)
(* screen nothing but its answer or the end of the process can come.       *)
Untouched == layers = 0 /\ pending = <<"appear">> /\ NothingDone
Asked     == layers = 1 /\ pending = <<>> /\ NothingDone

LockOut ==
  trap = "none" =>
    /\ authorization = "notDetermined" => Untouched \/ Asked
    /\ authorization = "denied" => Untouched \/ layers = 1

(* Opening the back camera without having been given access.               *)
LEMMA FirstAppearance ==
  ASSUME FlowInv, LockOut, DeliverAppear, trap' = "none", authorization # "authorized"
  PROVE  authorization = "notDetermined" /\ Asked'
<1>1. SetupCamera(session, "back") /\ trap = "none" /\ pending' = Tail(pending)
      /\ pending # <<>>
  BY DEF DeliverAppear, ViewDidAppear
<1>2. /\ authorization # "denied"
      /\ layers' = IF layers < LayerCap THEN layers + 1 ELSE layers
  BY <1>1 DEF SetupCamera
<1>3. authorization = "notDetermined"
  BY <1>2 DEF FlowInv, CameraInv, CameraTypeOK
<1>4. Untouched
  BY <1>1, <1>3 DEF LockOut, Asked
<1>5. layers' = 1
  BY <1>2, <1>4, LayerCapAssumption DEF Untouched
<1>6. pending' = <<>> /\ NothingDone'
  BY <1>1, <1>4 DEF Untouched, NothingDone, DeliverAppear
<1>7. QED
  BY <1>3, <1>5, <1>6 DEF Asked

LEMMA LockOutStep == FlowInv /\ LockOut /\ [Next]_vars => LockOut'
<1> SUFFICES ASSUME FlowInv, LockOut, [Next]_vars, trap' = "none" PROVE LockOut'
  BY DEF LockOut
<1>0. authorization = "denied" /\ trap = "none" => Untouched \/ layers = 1
  BY DEF LockOut
<1>1. CASE DeliverAppear
  BY <1>1, FirstAppearance DEF LockOut, DeliverAppear, ViewDidAppear
<1>2. CASE ChangeCamera
  <2>1. authorization # "notDetermined" /\ authorization' = authorization
    BY <1>2 DEF ChangeCamera, UserCanAct, PushChangeCameraBtn
  <2>2. authorization # "denied"
    BY <1>2 DEF ChangeCamera, UserCanAct, PushChangeCameraBtn, SetupCamera
  <2>3. QED
    BY <2>1, <2>2 DEF LockOut
<1>3. CASE Prompt
  <2>1. /\ trap = "none" /\ authorization = "notDetermined" /\ session.inputs # {}
        /\ authorization' # "notDetermined" /\ layers' = layers
    BY <1>3 DEF Prompt, AnswerPrompt
  <2>2. appeared
    BY <2>1, EmptyWhenCovered, EmptySessionFacts DEF FlowInv
  <2>3. ~Untouched
    BY <2>1, <2>2 DEF Untouched, FlowInv, LifecycleOK
  <2>4. layers = 1
    BY <2>1, <2>3 DEF LockOut, Asked
  <2>5. QED
    BY <2>1, <2>4 DEF LockOut
<1>4. CASE Relaunch
  BY <1>4 DEF Relaunch, CameraRelaunch, LockOut, Untouched, NothingDone
<1>5. CASE UNCHANGED vars
  BY <1>5 DEF vars, LockOut, Untouched, Asked, NothingDone
<1>6. CASE DeliverDisappear
  <2>1. /\ trap = "none" /\ pending # <<>> /\ Head(pending) = "disappear"
        /\ layers' = layers /\ authorization' = authorization
    BY <1>6 DEF DeliverDisappear, ViewDidDisappear
  <2>2. ~Untouched /\ ~Asked
    BY <2>1 DEF Untouched, Asked
  <2>3. QED
    BY <2>1, <2>2 DEF LockOut
<1>7. CASE PhotoDelivered \/ PhotoDropped \/ PhotoTraps
  <2>1. /\ inFlight > 0 /\ trap = "none"
        /\ layers' = layers /\ authorization' = authorization
    BY <1>7 DEF PhotoDelivered, PhotoDropped, PhotoTraps
  <2>2. inFlight # 0
    BY <2>1 DEF FlowInv, ScreenTypeOK
  <2>3. ~Untouched /\ ~Asked
    BY <2>2 DEF Untouched, Asked, NothingDone
  <2>4. QED
    BY <2>1, <2>3 DEF LockOut
<1>8. CASE DidFinishPicking \/ PickerCancelled \/ PickerDismissed \/ ShareDone
  <2>1. modal # "none" /\ trap = "none" /\ layers' = layers
        /\ authorization' = authorization
    BY <1>8 DEF DidFinishPicking, PickerCancelled, PickerDismissed, ShareDone
  <2>2. ~Untouched /\ ~Asked
    BY <2>1 DEF Untouched, Asked, NothingDone
  <2>3. QED
    BY <2>1, <2>2 DEF LockOut
<1>9. CASE \/ PushCameraBtn \/ PushPickerBtn \/ PushOkBtn \/ PushBackBtn
           \/ PushCancelBtn \/ PushShareBtn
  <2>1. /\ trap = "none" /\ pending = <<>> /\ authorization # "notDetermined"
        /\ layers' = layers /\ authorization' = authorization
    BY <1>9 DEF PushCameraBtn, PushPickerBtn, PushOkBtn, PushBackBtn, PushCancelBtn,
                PushShareBtn, UserCanAct
  <2>2. ~Untouched
    BY <2>1 DEF Untouched
  <2>3. QED
    BY <2>1, <2>2 DEF LockOut
<1>10. QED
  BY <1>1, <1>2, <1>3, <1>4, <1>5, <1>6, <1>7, <1>8, <1>9
     DEF Next, UserStep, SystemStep

(* Whoever denies the camera is locked out: no camera is opened after the  *)
(* one that asked, and the next launch does not get past its first         *)
(* viewDidAppear (the try! of createView).                                 *)
THEOREM DenialIsFinal == Spec => []DenialLocksOut
<1>1. ScreenInit => LockOut
  BY DEF ScreenInit, CameraInit, LockOut, Untouched, NothingDone
<1>2. LockOut => DenialLocksOut
  BY DEF LockOut, DenialLocksOut, Untouched
<1>3. QED
  BY <1>1, <1>2, LockOutStep, FlowInvariance, PTL DEF Spec
=============================================================================
