SPECIFICATION Spec
CONSTANTS
  KeyOrder <- MCKeyOrder
  FlagOrder <- MCFlagOrder
  Programs <- MCPrograms
  NullPtr = NullPtr
  Follower <- MCFollower
  Units <- MCUnits
  MaxUnits = 0
  MaxChunk = 1
  ValueUnits = {"x", "sp", "tab", "nl", "cr", "dq", "sq", "=", "~", "<<", ">>", "[", "]"}
  MaxValue = 3
  PairUnits = {"x", "sp", "nl", "dq", "<<", ">>"}
  MaxPair = 2
  TextUnits = {"x", "sp", "nl", "cr", "dq", "sq", "=", "<<", ">>", "["}
  MaxText = 2
  StatusUnits = {"dq", "sq", "sp"}
  MaxStatus = 4
  BlockUnits = {"x", "~", "sp", "nl", "<<", ">>"}
  MaxBlock = 3
  MaxBuild = 2
INVARIANT SentIsReceived
INVARIANT PartialIsRejected
INVARIANT RawIsTheMessage
INVARIANT CallsAreRead
INVARIANT StatusNeverFlips
INVARIANT NextIsIntact
CHECK_DEADLOCK FALSE
