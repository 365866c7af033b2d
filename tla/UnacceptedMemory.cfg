SPECIFICATION Spec
CONSTANTS
  Privates <- MCPrivates
  Banks <- MCBanks
  Addresses <- MCAddresses
INVARIANTS
  ExactCover
  GapsAreWhole
PROPERTIES
  Finishes
\* The sweep ends.
CHECK_DEADLOCK FALSE
