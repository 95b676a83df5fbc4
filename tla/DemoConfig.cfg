CONSTANTS
  t1 = t1
  t2 = t2
  Threads = {t1, t2}
  Payloads <- MCPayloads
  MaxRequests = 3
SPECIFICATION Spec
INVARIANTS
  TypeOK
  PresetIntact
  AnswerShowsRequest
  WaitRespected
  ErrorsExplained
