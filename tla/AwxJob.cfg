CONSTANTS
  t1 = t1
  t2 = t2
  Threads = {t1, t2}
  NoThread = NoThread
  MaxPolls = 2
  MaxPlaybooks = 2
  MaxRequests = 3
  MaxCrashes = 1
SPECIFICATION FairSpec
INVARIANTS
  TypeOK
  OneJobAtATime
  SuccessMeansDone
PROPERTIES
  EveryRequestAnswered
