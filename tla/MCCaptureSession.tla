-------------------------- MODULE MCCaptureSession --------------------------
(* CaptureSession alone, with UIKit's alternation of the lifecycle calls.  *)
EXTENDS CaptureSession

BothCameras == {"back", "front"}
=============================================================================
