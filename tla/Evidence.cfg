\* Root makes tickets, the caller of its sudo purges, a unit captures.
SPECIFICATION Spec
CONSTANTS
  u1 = u1
  u2 = u2
  s1 = s1
  h1 = h1
  Users <- TheUsers
  Roots <- TheRoots
  Homes = {h1}
  Home <- TheHome
  Units <- TheUnits
  Menu <- Tickets
  MaxEvents = 2
  MaxDocs = 1
INVARIANTS
  TypeOK
  FreshTicket
  PackageHoldsReport
  PurgedMeansGone
CHECK_DEADLOCK FALSE
