\* Two channels with one read each, the serve statistics tracked.
CONSTANTS
  Addr = {0, 4}
  NoAddr = NoAddr
  Ranks = {0}
  BankGroups = {0}
  BanksPerGroup = {0}
  Rows = {0, 1}
  Columns = {0}
  AddressMapping <- MCAddressMapping
  timing <- MCTiming
  RefreshPolicy = "RANK_LEVEL_STAGGERED"
  RefreshInterval = 12
  QueueStructure = "PER_BANK"
  CmdQueueSize = 2
  UnifiedQueue = TRUE
  TransQueueSize = 2
  RowBufPolicy = "OPEN_PAGE"
  EnableHBMDualCmd = FALSE
  ReadDelay = 2
  EnableSelfRefresh = FALSE
  SrefThreshold = 2
  MaxTrans = 3
  TrackServe = TRUE
  MaxCycles = 8
  NumChannels = 2
  ShiftBits = 1
  ChPos = 1
  ChMask = 1
  HostHonoursBackpressure = FALSE

SPECIFICATION StatsSpec

INVARIANTS
  ActiveCyclesCounted

CHECK_DEADLOCK FALSE
