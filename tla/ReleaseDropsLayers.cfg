SPECIFICATION CameraSpec
CONSTANTS
  Devices <- BothCameras
  LayerCap = 3
INVARIANT
  ReleaseDropsLayers
