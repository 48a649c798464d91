\* Documents of nine events, nested five deep below the document.
SPECIFICATION Spec
CONSTANTS
  MaxEvents = 9
  MaxDepth = 6
  RawHtml = TRUE
INVARIANTS
  LabelsBalanced
  TextStaysInBlock
CHECK_DEADLOCK FALSE
