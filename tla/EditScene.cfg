SPECIFICATION EditSpec
CONSTANTS
  HigeCount = 2
  MaxFaces = 1
  MaxStamps = 3
  SliderMax = 2
  StampRadius = 1
  ImageTop = 1
  ImageSize = 1
  ScreenSize = 2
INVARIANTS
  PictureFresh
  SizesFollowSlider
  StampsKept
PROPERTIES
  DragKeepsHold
  RaisedInOrder
