SPECIFICATION Spec
CONSTANTS
  Threads = {t1, t2}
  NoThread = NoThread
  Fds = {3, 4}
  MaxConns = 2
  MaxCalls = 3
  MaxDown = 0
  Texts = {"bare"}
  Binding = "c"
  Alone = FALSE
  Interrupts = FALSE
SYMMETRY ThreadSymmetry
INVARIANT TypeOK
INVARIANT NoInterleaving
INVARIANT WritersInvariant
CHECK_DEADLOCK FALSE
