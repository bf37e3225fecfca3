SPECIFICATION Spec
CONSTANTS
  KeyOrder <- MCKeyOrder
  FlagOrder <- MCFlagOrder
  Programs <- MCPrograms
  NullPtr = NullPtr
  Follower <- MCFollower
  Units <- MCUnits
  MaxUnits = 0
  MaxChunk = 1
  ValueUnits = {"x", "sp", "nl", "cr", "dq"}
  MaxValue = 2
  PairUnits = {"x", "sp", "nl"}
  MaxPair = 2
  TextUnits = {"x", "sp"}
  MaxText = 1
  StatusUnits = {"dq", "sq", "sp"}
  MaxStatus = 1
  BlockUnits = {"nl"}
  MaxBlock = 1
  MaxBuild = 1
INVARIANT BoundaryNewlineTrimmedOnce
CHECK_DEADLOCK FALSE
