\* One fix while firmware latches hubs again; hub 1, written first, is
\* unreliable and known to the kernel log only, hub 3 is not on an SMBus adapter.
SPECIFICATION FairSpec
CONSTANTS
  f1 = f1
  f2 = f2
  Hubs = {1, 2, 3}
  Fixers <- OneFixer
  Clients = {2, 3}
  OnSmbus = {1, 2}
  DevNodes = {1, 2, 3}
  Unreliable = {1}
  MaxLatches = 2
PROPERTIES
  KeepsPromise
  FixTerminates
  ReliableHubsCleared
CHECK_DEADLOCK FALSE
