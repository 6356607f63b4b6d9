----------------------------- MODULE MCEditScene -----------------------------
(* EditScene on a small screen.                                            *)
EXTENDS EditScene
=============================================================================
