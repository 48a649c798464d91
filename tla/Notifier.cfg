\* A notice, one of another program, two servers, and two clicks anywhere.
SPECIFICATION FairSpec
CONSTANTS
  n1 = n1
  x1 = x1
  a1 = a1
  a2 = a2
  None = None
  Notices <- TheNotices
  Others <- TheOthers
  Servers <- TheServers
  Pages = {"status", "report"}
  MaxClicks = 2
INVARIANTS
  TypeOK
  WindowTellsItsClick
  AnswersAreKept
PROPERTIES
  ClickOpensWindow
  WaiterEnds
CHECK_DEADLOCK FALSE
