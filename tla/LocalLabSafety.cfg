CONSTANTS
  t1 = t1
  t2 = t2
  Threads = {t1, t2}
  Modes = {FALSE, TRUE}
  NoThread = NoThread
  NoEnv = NoEnv
  Offered <- Actions
  MaxSecond = 1
  LogLimit = 2
  TrendLimit = 2
  MaxRequests = 3
  MaxCrashes = 1
  MaxManual = 1
  MaxFailures = 1
SPECIFICATION FairSpec
INVARIANTS
  TypeOK
  LockHeld
  SnapshotCurrent
  ControlsReflectFiles
  ScanVerdictIsTrue
  DriftIsAnnounced
  AnswersAreRecorded
  RunningIsInFlight
PROPERTIES
  NoLostUpdate
  CurrentFollowsApply
  EventsOnlyWhenEnabled
  EveryRequestAnswered
  TerraformResolves
