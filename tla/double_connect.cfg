SPECIFICATION Spec
CONSTANTS
  Threads = {t1}
  NoThread = NoThread
  Fds = {3, 4}
  MaxConns = 2
  MaxCalls = 3
  MaxDown = 1
  Texts = {"ended"}
  Binding = "c"
  Alone = TRUE
  Interrupts = FALSE
INVARIANT FailedConnectIsDisconnected
CHECK_DEADLOCK FALSE
