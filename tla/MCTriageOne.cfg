\* One thread, its full history: revised, deleted, restored; a run killed at any step
SPECIFICATION TriageSpec
CONSTANTS
  t1 = t1  t2 = t2
  Threads = {t1}
  MaxRevision = 2
  Bodies = {b1}
  Faults = {mirror}
  MirrorFault = mirror
  MaxParser = 1
  Contexts = {1}
  NoRevision = NoRevision  NoBody = NoBody  NoContext = NoContext
  MaxHistory = 2
  Tokens = {NoToken, token1}  NoToken = NoToken
  ClaimLimit = 1
  LeaseTicks = 1
  DeferTicks = 1
  RetryCap = 0
  RetryDelay <- MCRetryDelay
  MaxUnits = 3
  MaxRowGen = 5
  Readings = {read1}
  Uncertain = uncertain
  NoItem = NoItem  NoObservation = NoObservation
  Answers = {"read", "suppress", "fail"}
  Changes = {"found", "missing"}
  MaxInterrupts = 1
  MaxDeferrals = 1
INVARIANTS TriageTypeOK ActiveRowIsCurrent CurrentIsQueued CompletedIsDecided CompletedIsProjected ClaimedUnitCommits
PROPERTIES NoFalseAllClear
