----------------------- MODULE MCMultiClassSuppression -----------------------
(* Two boxes that overlap by exactly a half, one over both by three        *)
(* quarters, and an empty one, which overlaps nothing, not even its equal: *)
(* with it the selection of a class reaches the cap with boxes left over.  *)
EXTENDS MultiClassSuppression

Box(x, w) == [minX |-> x, minY |-> 0, width |-> w, height |-> 2]

Boxes == {Box(0, 3), Box(1, 3), Box(0, 4), Box(2, 0)}
Half  == <<1, 2>>
=============================================================================
