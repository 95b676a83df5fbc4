CONSTANTS
  lab = lab
  okd = okd
  alias = alias
  access = access
  v1 = v1
  t1 = t1
  t2 = t2
  Backends = {lab, okd}
  Order <- MCOrder
  Prebuilt = {lab}
  Keys = {alias, access}
  TfKey = TfKey
  Alias = alias
  HcpToken = HcpToken
  Required <- MCRequired
  Sent <- MCSent
  Values = {v1}
  Blank = Blank
  Absent = Absent
  NoEntry = NoEntry
  Threads = {t1, t2}
  MaxRequests = 2
  MaxRestarts = 1
SPECIFICATION Spec
INVARIANTS
  TypeOK
  EntriesRememberOrigin
  StatusExplained
  BackendsAgree
PROPERTIES
  IsLayered
