CONSTANTS
  t1 = t1
  Threads = {t1}
  Platforms <- AllPlatforms
  Settings <- SomeSettings
  Provisions <- DotenvOnly
  Modes = {FALSE}
  NoThread = NoThread
  NoEnv = NoEnv
  Offered <- CreateAndRemediate
  MaxSecond = 0
  LogLimit = 1
  TrendLimit = 1
  MaxRequests = 1
  MaxCrashes = 0
  MaxManual = 0
  MaxFailures = 0
SPECIFICATION CloudSpec
INVARIANTS
  CredentialsReachTerraform
