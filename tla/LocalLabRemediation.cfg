CONSTANTS
  t1 = t1
  Threads = {t1}
  Modes = {FALSE}
  NoThread = NoThread
  NoEnv = NoEnv
  Offered <- Actions
  MaxSecond = 0
  LogLimit = 2
  TrendLimit = 1
  MaxRequests = 2
  MaxCrashes = 0
  MaxManual = 0
  MaxFailures = 0
SPECIFICATION Spec
INVARIANTS
  RemediationRestoresAllControls
