\* A capture prunes while a fix appends.
SPECIFICATION Spec
CONSTANTS
  c1 = c1
  c2 = c2
  g1 = g1
  g2 = g2
  Procs <- OneFixOneCapture
  Fixes <- OneFix
  Exclusive = {}
  Verdicts = {"flagged"}
  Faulty = FALSE
  Original = Original
  Nobody = Nobody
INVARIANTS
  FixOnRecord
CHECK_DEADLOCK FALSE
