SPECIFICATION Spec
CONSTANTS
  Threads = {t1, fin}
  Finalizer = fin
  NoThread = NoThread
  Addrs = {a1, a2}
  NoAddr = NoAddr
  Kinds = {"request", "publish"}
  KeepsUsing = TRUE
  MaxClients = 3
  MaxIds = 3
INVARIANT TypeOK
INVARIANT BridgeAlive
INVARIANT NothingLeftBehind
INVARIANT BridgeIffHandlers
CHECK_DEADLOCK FALSE
