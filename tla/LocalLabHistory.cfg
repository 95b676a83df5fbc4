CONSTANTS
  t1 = t1
  t2 = t2
  Threads = {t1, t2}
  Modes = {FALSE, TRUE}
  NoThread = NoThread
  NoEnv = NoEnv
  Offered <- DemoScript
  MaxSecond = 1
  LogLimit = 5
  TrendLimit = 2
  MaxRequests = 5
  MaxCrashes = 0
  MaxManual = 0
  MaxFailures = 1
SYMMETRY ThreadSymmetry
SPECIFICATION Spec
INVARIANTS
  TrendBacksEvidence
  TrendLabelsConsecutive
  MockVerdictsFollowDrifts
