\* One thread, its full history: deleted, restored, answered 404 by mistake, unreadable
SPECIFICATION FairSyncSpec
CONSTANTS
  t1 = t1  t2 = t2  p1 = p1  p2 = p2
  Threads = {t1}
  Syncers = {p1}
  MaxHistory = 3
  MaxRevision = 3
  Kinds = {"broken", "deleted"}
  MaxParser = 2
  Bodies = {1, 2}
  Unlisted = {}
  PageSize = 1
  MaxPages = 1
  MaxThreads = 1
  MaxUnits = 7
  MaxFailures = 1
  Faults = {parse, mirror}
  MirrorFault = mirror
  ParseFault = parse
  RetryLimit = 1
  RetryCap = 0
  RetryDelay <- MCRetryDelay
  Tokens <- MCTokens
  NoToken <- MCNoToken
  NoRevision = NoRevision  NoBody = NoBody  NoContext = NoContext
  Contexts = {}
  ClaimLimit = 1
  LeaseTicks = 1
  DeferTicks = 0
  MaxRowGen = 0
  CatchUp = 4
INVARIANTS ShownWasAnswered
PROPERTIES EventuallyMirrored
