\* Two channels, unified queues, open page, rank-level refresh; a host that
\* does not ask WillAcceptTransaction first (release build).
CONSTANTS
  Addr = {0, 4, 8}
  NoAddr = NoAddr
  Ranks = {0}
  BankGroups = {0}
  BanksPerGroup = {0}
  Rows = {0, 1}
  Columns = {0}
  AddressMapping <- MCAddressMapping
  timing <- MCTiming
  RefreshPolicy = "RANK_LEVEL_STAGGERED"
  RefreshInterval = 12
  QueueStructure = "PER_BANK"
  CmdQueueSize = 2
  UnifiedQueue = TRUE
  TransQueueSize = 2
  RowBufPolicy = "OPEN_PAGE"
  EnableHBMDualCmd = FALSE
  ReadDelay = 2
  EnableSelfRefresh = FALSE
  SrefThreshold = 2
  MaxTrans = 3
  TrackServe = FALSE
  NumChannels = 2
  ShiftBits = 1
  ChPos = 1
  ChMask = 1
  HostHonoursBackpressure = FALSE

SPECIFICATION Spec

PROPERTIES
  Refines
