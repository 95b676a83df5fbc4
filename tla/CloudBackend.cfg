CONSTANTS
  t1 = t1
  t2 = t2
  Threads = {t1, t2}
  Platforms <- AllPlatforms
  Settings <- SomeSettings
  Provisions <- EnvironmentOrNone
  Modes = {FALSE, TRUE}
  NoThread = NoThread
  NoEnv = NoEnv
  Offered <- CreateAndRemediate
  MaxSecond = 1
  LogLimit = 1
  TrendLimit = 1
  MaxRequests = 2
  MaxCrashes = 1
  MaxManual = 1
  MaxFailures = 1
SPECIFICATION CloudFairSpec
INVARIANTS
  CurrentIsProvisioned
PROPERTIES
  IsLocalLab
