\* Root and a user with windows on the machine and on archives.
SPECIFICATION Spec
CONSTANTS
  u1 = u1
  u2 = u2
  s1 = s1
  h1 = h1
  Users <- TheUsers
  Roots <- TheRoots
  Homes = {h1}
  Home <- TheHome
  Units = {}
  Menu <- Windows
  MaxEvents = 1
  MaxDocs = 1
INVARIANTS
  FixOnlyConfirmed
CHECK_DEADLOCK FALSE
