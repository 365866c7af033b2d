SPECIFICATION Spec
CONSTANTS
  Images <- MCImages
  FW_GUID_TABLE_END_OFFSET = 1
  FW_GUID_TABLE_FOOTER <- MCFooter
  TDX_METADATA_OFFSET_GUID <- MCOffsetGuid
  TDX_METADATA_GUID <- MCMetadataGuid
  TDX_METADATA_MAGIC <- MCMagic
  TDX_METADATA_VERSION <- MCVersion
INVARIANTS
  FoundWhereNamed
  RefusedOnlyIfUnsound
PROPERTIES
  Finishes
\* A parse ends.
CHECK_DEADLOCK FALSE
