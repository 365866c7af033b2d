SPECIFICATION Spec
CONSTANTS
  GIB = 3
  MIB = 1
  Requests <- MCRequests
INVARIANTS
  BanksSortedDisjoint
  AllRamPlaced
  CapsRespected
  RefusedOnlyIfItCannotFit
\* The computation ends.
CHECK_DEADLOCK FALSE
