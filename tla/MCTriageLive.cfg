\* Two threads, one claimed at a time: runs killed at any step, deferrals, a new detector
SPECIFICATION FairTriageSpec
CONSTANTS
  t1 = t1  t2 = t2
  Threads = {t1, t2}
  MaxRevision = 1
  Bodies = {b1}
  Faults = {mirror}
  MirrorFault = mirror
  MaxParser = 1
  Contexts = {1, 2}
  NoRevision = NoRevision  NoBody = NoBody  NoContext = NoContext
  MaxHistory = 1
  Tokens = {NoToken, token1}  NoToken = NoToken
  ClaimLimit = 1
  LeaseTicks = 1
  DeferTicks = 1
  RetryCap = 0
  RetryDelay <- MCRetryDelay
  MaxUnits = 2
  MaxRowGen = 9
  Readings = {read1}
  Uncertain = uncertain
  NoItem = NoItem  NoObservation = NoObservation
  Answers = {"read", "defer"}
  Changes = {"found"}
  MaxInterrupts = 1
  MaxDeferrals = 1

INVARIANTS DecisionsAreReused
PROPERTIES EventuallyTriaged
