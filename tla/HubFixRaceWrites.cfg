\* Two fixes on one reliable hub: both probe it before either writes.
SPECIFICATION Spec
CONSTANTS
  f1 = f1
  f2 = f2
  Hubs = {1}
  Fixers <- TwoFixers
  Clients = {1}
  OnSmbus = {1}
  DevNodes = {1}
  Unreliable = {}
  MaxLatches = 0
INVARIANTS
  WritesOnlyLatched
CHECK_DEADLOCK FALSE
