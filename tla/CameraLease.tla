----------------------------- MODULE CameraLease -----------------------------
(***************************************************************************)
(* What the camera scene promises about the device's cameras, without      *)
(* saying how: the app leases at most one camera at a time, always starts  *)
(* a lease with the back camera, can exchange it for the other one, and    *)
(* gives it back.  CaptureSession implements this specification.           *)
(***************************************************************************)

VARIABLE lease        \* the set of camera positions the app is streaming from

Init == lease = {}

(* The scene comes up: viewDidAppear always asks for the back camera. *)
Acquire == lease = {} /\ lease' = {"back"}

(* The change-camera button: one camera is exchanged for another. *)
Switch == lease # {} /\ \E p \in {"back", "front"} : lease' = {p}

(* The scene is left, the camera cannot be opened, or the process dies. *)
Release == lease # {} /\ lease' = {}

Next == Acquire \/ Switch \/ Release

Spec == Init /\ [][Next]_lease

=============================================================================
