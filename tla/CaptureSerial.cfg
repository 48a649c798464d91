\* Two fixes and a capture one after the other, each may die anywhere.
SPECIFICATION Spec
CONSTANTS
  c1 = c1
  c2 = c2
  g1 = g1
  g2 = g2
  Procs <- TwoFixesOneCapture
  Fixes <- TwoFixes
  Exclusive <- TwoFixesOneCapture
  Verdicts = {"flagged", "clean", "blank"}
  Faulty = FALSE
  Original = Original
  Nobody = Nobody
SYMMETRY FixSymmetry
INVARIANTS
  PagedUnlessCleared
  MarkersTellLastCapture
PROPERTIES
  KeepsLog
CHECK_DEADLOCK FALSE
