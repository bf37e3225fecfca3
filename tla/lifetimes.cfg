SPECIFICATION FairSpec
CONSTANTS
  Threads = {t1, t2}
  Clients = {c1}
  Messages = {m1, m2}
  Nothing = Nothing
INVARIANT TypeOK
INVARIANT ClientOutlivesItsCalls
INVARIANT ReceivedOutlivesHandler
INVARIANT FreedOnceByItsOwner
INVARIANT NoHandlersOfTheDead
PROPERTY AbandonedIsFreed
CHECK_DEADLOCK FALSE
