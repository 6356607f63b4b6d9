---------------------------- MODULE MCScreenFlow ----------------------------
(* ScreenFlow on a phone with two cameras.                                 *)
EXTENDS ScreenFlow

BothCameras == {"back", "front"}
=============================================================================
