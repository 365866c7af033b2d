\* An Azure SEV-SNP boot: the vTPM log is a file of its exact size.
SPECIFICATION BootSpec
CONSTANTS
  Logs <- NoLogs
  MaxByte = 3
  LegacySize = 1
  Signature = 2
  ALGO_DIGEST_SIZES <- MCAlgoDigestSizes
  MAX_DIGEST_SIZE = 2
  EV_NO_ACTION = 3
  RegisterBase = 0
  NumRegisters = 3
  ToleratePadding = FALSE
  SpecIdRecord <- MCSpecIdRecord
  FirmwareEvents <- MCFirmwareEvents
  MaxLogSize = 41
  BankAlgorithm = 2
  UserRegisters = {2}
  ReportsAll = FALSE
  Fills <- VtpmFills
PROPERTIES
  ReportsAMoment
  WholeLogIsReplayed
\* The tool stops when it has answered.
CHECK_DEADLOCK FALSE
