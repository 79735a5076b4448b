\* Two processes sync the same account
SPECIFICATION SyncSpec
CONSTANTS
  t1 = t1  t2 = t2  p1 = p1  p2 = p2
  Threads = {t1, t2}
  Syncers = {p1, p2}
  MaxHistory = 2
  MaxRevision = 2
  Kinds = {"plain", "deleted"}
  MaxParser = 1
  Bodies = {1}
  Unlisted = {}
  PageSize = 2
  MaxPages = 2
  MaxThreads = 2
  MaxUnits = 4
  MaxFailures = 1
  Faults = {parse, mirror}
  MirrorFault = mirror
  ParseFault = parse
  RetryLimit = 1
  RetryCap = 0
  RetryDelay <- MCRetryDelay
  Tokens <- MCTokens
  NoToken <- MCNoToken
  NoRevision = NoRevision  NoBody = NoBody  NoContext = NoContext
  Contexts = {}
  ClaimLimit = 1
  LeaseTicks = 1
  DeferTicks = 0
  MaxRowGen = 0
  CatchUp = 6
SYMMETRY MCSymmetry
INVARIANTS SequencesDistinct
PROPERTIES MirrorNeverRegresses
