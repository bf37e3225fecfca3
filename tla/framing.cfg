SPECIFICATION Spec
CONSTANTS
  Units = {"<<", ">>", "sp", "nl", "cr"}
  MaxUnits = 8
  MaxChunk = 2
INVARIANT TypeOK
INVARIANT NoMessageWaits
PROPERTY CutsTheStream
CHECK_DEADLOCK FALSE
