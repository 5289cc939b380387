SPECIFICATION Spec
CONSTANTS
    Hosts <- AllHosts
    MaxSurfaces = 3
    MaxInputs = 2
    Sizes <- TwoSizes
    DefaultSize = 1
INVARIANTS PresentedIsLive StopKeepsWindows
PROPERTIES TopologyShown SizeReachesModel
CHECK_DEADLOCK FALSE
