\* Two fixes race on two hubs; hub 1 is unreliable and hub 2 is known to the
\* kernel log only.
SPECIFICATION Spec
CONSTANTS
  f1 = f1
  f2 = f2
  Hubs = {1, 2}
  Fixers <- TwoFixers
  Clients = {1}
  OnSmbus = {1, 2}
  DevNodes = {1, 2}
  Unreliable = {1}
  MaxLatches = 1
SYMMETRY FixerSymmetry
INVARIANTS
  TypeOK
  WritesProbedHubsOnly
  OkMeansCleared
  EveryEligibleHubTried
CHECK_DEADLOCK FALSE
