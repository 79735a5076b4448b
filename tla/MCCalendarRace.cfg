\* The last run of a replaced daemon overlaps the next ones and may die, tokens expire twice, the owner decides and takes it back
SPECIFICATION RunSpec
CONSTANTS
  Keys = {e1}
  Requests = {q1, q2}
  Decisions = {"dismiss", "restore"}
  MaxVersion = 2
  NoItem = NoItem  NoDecision = NoDecision  NoOverride = NoOverride  NoToken = NoToken
  Runners = {r1, r2}  Leftover = {r2}  Failing = {r2}
  Kinds = {"live", "away"}
  IdOnly = {}
  PageSize = 1
  MaxPages = 1
  DailyLimit = 2
  MaxSeen = 1
  MaxEpoch = 2
  MaxGen = 4
  MaxFree = 0
SYMMETRY RequestSymmetry
INVARIANTS RunTypeOK
PROPERTIES DecisionsStand CursorNeverRegresses FetchedIsShown
