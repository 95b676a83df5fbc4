CONSTANTS
  t1 = t1
  t2 = t2
  e1 = e1
  e2 = e2
  Threads = {t1, t2}
  Entries = {e1, e2}
  Docs <- MCDocs
  Default <- MCDefault
  Mutators <- MCMutators
  Pending = Pending
  Failed = Failed
  NoThread = NoThread
  Missing = Missing
  Torn = Torn
  MaxCalls = 4
  MaxCrashes = 1
SPECIFICATION FairSpec
INVARIANTS
  FileComplete
  LockHeld
  EditsNewest
PROPERTIES
  IsAtomicDocument
