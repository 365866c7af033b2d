SPECIFICATION Spec
CONSTANTS
  MAX_VIRTUAL_PADDING_BYTES = 2
  Cases <- MCCases
INVARIANTS
  TypeOK
  BootChainReproduced
  SectionsReproduced
  CmdlineAndInitrdReproduced
  InitdataReproduced
  NothingClamped
  RefusedForAReason
\* A computation ends.
CHECK_DEADLOCK FALSE
