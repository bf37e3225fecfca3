SPECIFICATION Spec
CONSTANTS
  Units = {"<<", ">>", "sp", "nl"}
  MaxUnits = 7
  MaxChunk = 2
PROPERTY ClosedLineEndsBlock
CHECK_DEADLOCK FALSE
