SPECIFICATION OnlyPickSpec
CONSTANTS
  Grid = 2
  Narrow = 4
  ViaReach = 2
  DieSize = 12
  TileSize = 6
  Rows <- MCRows
  FillSites <- MCFillSites
  Width <- MCWidth
  PinShapes <- MCPinShapes
  SignalNets = 2
  ViaRects <- MCViaRects
  ViaBottom <- MCViaBottom
  Designs <- MCDesigns
  Taps = {13}
  LandingReach = 2
  NearReach = 3
  Visits = {17, 30, 35}
  Pictures <- MCPictures
  Looks <- MCLooks
  Rays <- MCRays
  Cull = 2
  Far = 76
INVARIANT CutIsHitOnItsFace
CHECK_DEADLOCK FALSE
