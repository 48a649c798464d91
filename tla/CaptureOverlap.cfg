\* A capture and a fix in any interleaving, every write may fail, and each may
\* hang outside its last file operations.
SPECIFICATION FairSpec
CONSTANTS
  c1 = c1
  c2 = c2
  g1 = g1
  g2 = g2
  Procs <- OneFixOneCapture
  Fixes <- OneFix
  Exclusive = {}
  Verdicts = {"flagged", "clean", "blank"}
  Faulty = TRUE
  Original = Original
  Nobody = Nobody
INVARIANTS
  TypeOK
  AlarmBeforeRecord
PROPERTIES
  AppendEnds
CHECK_DEADLOCK FALSE
