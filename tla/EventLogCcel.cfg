\* The CCEL's parameters: registers recorded plus one, trailing fill looked for.
SPECIFICATION Spec
CONSTANTS
  Logs <- MCLogs
  MaxByte = 3
  LegacySize = 1
  Signature = 2
  ALGO_DIGEST_SIZES <- MCAlgoDigestSizes
  MAX_DIGEST_SIZE = 2
  EV_NO_ACTION = 3
  RegisterBase = 1
  NumRegisters = 2
  ToleratePadding = TRUE
INVARIANTS
  DigestsBeforeFill
  DigestsAreWhole
  OnlyLastEventReachesFill
  NothingUnparsed
\* The parser stops when it has a verdict.
CHECK_DEADLOCK FALSE
