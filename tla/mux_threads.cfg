SPECIFICATION FairSpec
CONSTANTS
  Threads = {t1, t2, fin}
  Finalizer = fin
  NoThread = NoThread
  Addrs = {a1}
  NoAddr = NoAddr
  Kinds = {"request"}
  KeepsUsing = TRUE
  MaxClients = 2
  MaxIds = 2
INVARIANT BridgeIffHandlers
INVARIANT EachHandlerOnce
PROPERTY DispatchReturns
CHECK_DEADLOCK FALSE
