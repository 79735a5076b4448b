\* Unreadable threads, a parser release, a thread outside the query; a quiet mailbox is mirrored
SPECIFICATION FairSyncSpec
CONSTANTS
  t1 = t1  t2 = t2  p1 = p1  p2 = p2
  Threads = {t1, t2}
  Syncers = {p1}
  MaxHistory = 2
  MaxRevision = 2
  Kinds = {"restyled", "broken", "deleted"}
  MaxParser = 2
  Bodies = {1, 2}
  Unlisted = {t2}
  PageSize = 1
  MaxPages = 1
  MaxThreads = 1
  MaxUnits = 7
  MaxFailures = 1
  Faults = {parse, mirror}
  MirrorFault = mirror
  ParseFault = parse
  RetryLimit = 1
  RetryCap = 0
  RetryDelay <- MCRetryDelay
  Tokens <- MCTokens
  NoToken <- MCNoToken
  NoRevision = NoRevision  NoBody = NoBody  NoContext = NoContext
  Contexts = {}
  ClaimLimit = 1
  LeaseTicks = 1
  DeferTicks = 0
  MaxRowGen = 0
  CatchUp = 5
PROPERTIES AppendOnly EventuallyMirrored
