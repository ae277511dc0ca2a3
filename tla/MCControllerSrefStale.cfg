\* Self-refresh enabled (threshold 2, tCKESR 1): does a rank that served a
\* transaction and has nothing left to do ever go back to self-refresh?
CONSTANTS
  a1 = a1
  a2 = a2
  a3 = a3
  Addr = {a1, a2, a3}
  NoAddr = NoAddr
  Ranks = {0}
  BankGroups = {0}
  BanksPerGroup = {0, 1}
  Rows = {0, 1}
  Columns = {0}
  AddressMapping <- MCAddressMapping
  timing <- MCTiming
  RefreshPolicy = "RANK_LEVEL_STAGGERED"
  RefreshInterval = 12
  QueueStructure = "PER_BANK"
  CmdQueueSize = 2
  UnifiedQueue = TRUE
  TransQueueSize = 2
  RowBufPolicy = "OPEN_PAGE"
  EnableHBMDualCmd = FALSE
  ReadDelay = 2
  EnableSelfRefresh = TRUE
  SrefThreshold = 2
  MaxTrans = 3
  TrackServe = FALSE

SPECIFICATION Spec

PROPERTIES
  IdleRankSleeps
