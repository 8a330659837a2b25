CONSTANTS
  ClimatologyVms = 4
  OffsetVms = 0
  CompositeVms = 0
  AutoOffsets = 3
  AutoComposite = 4
  SmallestEdge = 1
  UnitMemory = 16
  SourceChunk = 2
  TimeChunk = 1
  SceneBatch = 2
  CogBlocksize = 2
  VmBoot = 3
  Resolve = 1
  Safety = 2
  OffsetsPace = 1
  CompositePace = 1
  ExportPace = 1
  BarrierTimeout = NoOverride
  NoOverride = NoOverride
  None = None
  AwsProfile = "lst"
  BillingMaxPages = 3
  CreditSafety = 2
  VcpuRate = 1
  PlanWait = 2
  Configured = {0, 2}
  OffsetsVcpus = 1
  CompositeVcpus = 1
  OffsetsHours = 0
  CompositeHours = 0
  Rosters <- MCRosters
  MaxHeadroom = 6
  Tiles <- MCTiles
  Shells <- MCShells
  Permissions <- MCPermissions
  Accounts <- MCAccounts
  Ground <- MCGround
SPECIFICATION Spec
INVARIANTS WritersMayWrite RunsCanBePaid EveryPieceHasAnOwner LightestSplit DeadlineCoversTheQueue
CHECK_DEADLOCK FALSE
