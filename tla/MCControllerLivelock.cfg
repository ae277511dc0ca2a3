\* Split read queue and write buffer: a read waits while the full write
\* buffer keeps restarting its drain on a write to the read's address.
CONSTANTS
  a1 = a1
  a2 = a2
  a3 = a3
  Addr = {a1, a2, a3}
  NoAddr = NoAddr
  Ranks = {0}
  BankGroups = {0}
  BanksPerGroup = {0, 1}
  Rows = {0, 1}
  Columns = {0}
  AddressMapping <- MCAddressMapping
  timing <- MCTiming
  RefreshPolicy = "RANK_LEVEL_STAGGERED"
  RefreshInterval = 12
  QueueStructure = "PER_BANK"
  CmdQueueSize = 2
  UnifiedQueue = FALSE
  TransQueueSize = 2
  RowBufPolicy = "OPEN_PAGE"
  EnableHBMDualCmd = FALSE
  ReadDelay = 2
  EnableSelfRefresh = FALSE
  SrefThreshold = 2
  MaxTrans = 3
  TrackServe = FALSE

SPECIFICATION Spec


PROPERTIES
  AllTransactionsComplete
