\* A bounded rebuild over several runs, an owner who confirms, a calendar left alone in the end
SPECIFICATION FairRunSpec
CONSTANTS
  Keys = {e1, e2}
  Requests = {q1}
  Decisions = {"confirm"}
  MaxVersion = 2
  NoItem = NoItem  NoDecision = NoDecision  NoOverride = NoOverride  NoToken = NoToken
  Runners = {r1}  Leftover = {}  Failing = {}
  Kinds = {"live", "gone"}
  IdOnly = {e2}
  PageSize = 1
  MaxPages = 1
  DailyLimit = 2
  MaxSeen = 1
  MaxEpoch = 1
  MaxGen = 8
  MaxFree = 0
PROPERTIES EventuallyCovered
INVARIANTS TokenIsCovered CompleteIsHonest NoFabricatedCancellation
