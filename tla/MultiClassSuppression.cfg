SPECIFICATION MultiSpec
CONSTANTS
  Rects <- Boxes
  Scores = {0, 1, 2}
  Classes = {0, 1}
  MaxPredictions = 4
  IouThreshold <- Half
  MaxBoxes = 3
  NumClasses = 2
  ScoreThreshold = 0
  MaxTotal = 2
INVARIANTS
  SelectedApart
  SuppressedForCause
  BestKept
  ResultApart
  LeftOutForCause
CHECK_DEADLOCK FALSE
