SPECIFICATION FairSpec
CONSTANTS
  Threads = {t1}
  NoThread = NoThread
  Fds = {3, 4}
  MaxConns = 2
  MaxCalls = 4
  MaxDown = 2
  Texts = {"ended"}
  Binding = "go"
  Alone = TRUE
  Interrupts = TRUE
PROPERTY ConnectReturns
PROPERTY ListenEndsOnHangup
CHECK_DEADLOCK FALSE
