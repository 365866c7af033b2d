SPECIFICATION Spec
CONSTANTS
  SectionLists <- MCSectionLists
  BankLists <- MCBankLists
  ImageSize = 4
  PageSize = 2
  HandoffSize = 1
  DescriptorSize = 1
  EndMarkerSize = 1
  EarlyLimit = 8
INVARIANTS
  ExtendsFollowTheirPage
  EverySectionMeasured
  MeasuresWhatIsThere
  EndMarkerIsThere
  MeasuredIsLoadable
  WellFormedIsMeasured
  CfvIsWhole
\* A measurement ends.
CHECK_DEADLOCK FALSE
