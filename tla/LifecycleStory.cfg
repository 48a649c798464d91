\* Three boots; one capture may be lost or the boot unit stopped once.
SPECIFICATION Spec
CONSTANTS
  MaxBoots = 3
  MaxRecords = 4
  MaxLatches = 1
  MaxLapses = 1
INVARIANTS
  TypeOK
  BootKindTruthful
  SleepCountTruthful
  OneTransitionPerCorruptBoot
  StartedAgrees
  ReportRowsPacked
  AppliedMeansCleared
  RefusedFixWasDone
CHECK_DEADLOCK FALSE
