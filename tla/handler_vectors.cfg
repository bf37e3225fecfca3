SPECIFICATION Spec
CONSTANTS
  Kinds = {request, publish}
  Handlers = {h1, h2, h3}
  NoHandler = NoHandler
SYMMETRY VectorSymmetry
INVARIANT TypeOK
INVARIANT LoopReadsLiveHandlers
INVARIANT NobodySkipped
INVARIANT EachHandlerInOrder
INVARIANT RegistryIsExact
CHECK_DEADLOCK FALSE
