SPECIFICATION PartsSpec
CONSTANTS
  n1 = n1
  c1 = c1
  NX = 2
  TileSize = 2000
  Entries <- AllTiles
  Views <- TwoViews
  MayFail <- FirstTile
  Rendering = "software"
  FETCHES = 1
  BLOCK_CACHE = 2
  Nets <- OneNet
  NetTiles <- BothTiles
  Cells <- OneCell
  CellTile <- TheSecond
  MaxMoves = 1
  MaxSelections = 2
  MaxMounts = 2
  MaxFailures = 1
  MaxToggles = 2
  WirePlaces <- RowOfWires
  CellPlaces <- CellBefore
  PointerSpots <- TwoSpots
  MaxInputs = 2
  MaxChanges = 1
INVARIANTS
  SelectionIsItsOwn
  SceneIsSound
  ViewsAreSound
  PointerIsSound
PROPERTIES
  SceneCatchesUp
  ViewsComeToRest
CHECK_DEADLOCK FALSE
