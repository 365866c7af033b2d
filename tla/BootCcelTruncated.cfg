\* A TDX boot: its log sits in a table larger than it, ahead of fill.
SPECIFICATION BootSpec
CONSTANTS
  Logs <- NoLogs
  MaxByte = 3
  LegacySize = 1
  Signature = 2
  ALGO_DIGEST_SIZES <- MCAlgoDigestSizes
  MAX_DIGEST_SIZE = 2
  EV_NO_ACTION = 3
  RegisterBase = 1
  NumRegisters = 2
  ToleratePadding = TRUE
  SpecIdRecord <- MCSpecIdRecord
  FirmwareEvents <- MCCcelEvents
  MaxLogSize = 41
  BankAlgorithm = 2
  UserRegisters = {}
  ReportsAll = TRUE
  Fills <- CcelFills
INVARIANTS
  FillIsNoSourceOfEvents
CHECK_DEADLOCK FALSE
