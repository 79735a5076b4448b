\* A run killed between its commit and its acknowledgement of a deletion
SPECIFICATION TriageSpec
CONSTANTS
  t1 = t1  t2 = t2
  Threads = {t1}
  MaxRevision = 1
  Bodies = {b1}
  Faults = {mirror}
  MirrorFault = mirror
  MaxParser = 1
  Contexts = {1}
  NoRevision = NoRevision  NoBody = NoBody  NoContext = NoContext
  MaxHistory = 2
  Tokens = {NoToken, token1}  NoToken = NoToken
  ClaimLimit = 1
  LeaseTicks = 1
  DeferTicks = 1
  RetryCap = 0
  RetryDelay <- MCRetryDelay
  MaxUnits = 2
  MaxRowGen = 6
  Readings = {read1}
  Uncertain = uncertain
  NoItem = NoItem  NoObservation = NoObservation
  Answers = {"read"}
  Changes = {"found", "missing"}
  MaxInterrupts = 1
  MaxDeferrals = 0
INVARIANTS RunAgainIsSafe
