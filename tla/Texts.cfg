\* Tables cut off anywhere, tables of any bytes, and what dmidecode prints.
SPECIFICATION Spec
CONSTANTS
  Blobs <- SomeBlobs
  Tables <- SomeTables
  Dmidecode <- SomeDmidecode
  Placeholders <- SomePlaceholders
  GhostSerials <- SomeGhosts
  Misnamed <- SomeMisnamed
  VendorIds = {173}
  FieldNames <- SomeFieldNames
  SizeTexts <- SomeSizes
  EightBitTexts <- SomeEightBits
INVARIANTS
  StructuresTile
  DumpReadsOwnFields
  TornTableInventsNothing
  DevicesMatchTable
  FieldsStayWithTheirDevice
  GhostsAreFlagged
PROPERTIES
  WalkMovesOn
CHECK_DEADLOCK FALSE
