CONSTANTS
  t1 = t1
  t2 = t2
  Threads = {t1, t2}
  NoThread = NoThread
  SortedTargets <- ThreeTargets
  Asked = {"gcp", "okd"}
  MaxRequests = 3
  MaxFaults = 1
SPECIFICATION FairSpec
INVARIANTS
  ActionsSerialised
  ConfigureReachesAll
  AnsweredOnce
PROPERTIES
  OnlyActionsWait
