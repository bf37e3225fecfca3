SPECIFICATION Spec
CONSTANTS
  Threads = {t1, t2}
  NoThread = NoThread
  Fds = {3, 4}
  MaxConns = 2
  MaxCalls = 4
  MaxDown = 2
  Texts = {"inner", "ended"}
  Binding = "go"
  Alone = TRUE
  Interrupts = FALSE
SYMMETRY ThreadSymmetry
INVARIANT WireFraming
INVARIANT ConnectedMeansAccepted
INVARIANT NoDescriptorLeak
PROPERTY AppFileUntouched
PROPERTY StreamsNotCrossed
PROPERTY SilentHubKeepsListener
PROPERTY SendsReportWhatTheyDid
PROPERTY SendsAreAtomic
CHECK_DEADLOCK FALSE
