CONSTANTS
  ClimatologyVms = 0
  OffsetVms = 0
  CompositeVms = 0
  AutoOffsets = 2
  AutoComposite = 2
  SmallestEdge = 2
  UnitMemory = 1
  SourceChunk = 1
  TimeChunk = 2
  SceneBatch = 3
  CogBlocksize = 2
  Months = {1, 2, 3}
  Zero = 100
  Coldest <- MCColdest
  Hottest = 85
  MaxOffset = 20
  MinSamples = 1
  MinPixels = 3
  LeastTrusted <- MCLeastTrusted
  HotThreshold = 70
  EncodedZero <- MCEncodedZero
  EncodedMax = 120
  CellRows = 2
  BufferCells = 1
  GranuleCells = 2
  GlobalRows = 8
  GlobalCols = 8
  FormatVersion = 3
  TileRows = 6
  TileCell <- MCTileCell
  ProductionTiles <- MCProductionTiles
  Collections <- MCCollections
  Second = 10
  Day = 100
  MonthLength = 1000
  MaxScenes = 6
  NaN = NaN
  Nodata = Nodata
  Failed = Failed
  Factor = 2
  ReadBuffer = 9
  Grounds <- MCGrounds
  LocalGrounds <- MCLocalGrounds
SPECIFICATION Spec
INVARIANTS OffsetsAreTheTiles BandsMakeTheTile WheelMasksEveryTile
CHECK_DEADLOCK FALSE
