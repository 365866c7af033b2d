SPECIFICATION Spec
CONSTANTS
  Inputs <- MCInputs
  MaxExtractBytes = 5
  CopyChunkBytes = 2
  MinEntrySize = 2
  MaxEntryArray = 16
INVARIANTS
  NothingLeftBehind
  WithinLimit
  MeasuresThePartitions
  UkiOfTheDisk
  TableIsRead
\* A call ends.
CHECK_DEADLOCK FALSE
