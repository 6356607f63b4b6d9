SPECIFICATION FairSpec
CONSTANTS
  Devices <- BothCameras
  LayerCap = 2
  MaxInFlight = 3
  MaxImages = 5
INVARIANTS
  SessionMatchesScene
  FrontOnlyWithFlag
  ScreenTypeOK
  LifecycleOK
  CaptureReady
  CameraOffWhenCovered
  StackShape
  PickNotLost
  DenialLocksOut
PROPERTIES
  ChangeRealigns
  LeaseSpec
  CameraFollowsScene
  PickEndsInPreview
