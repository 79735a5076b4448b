\* Two daemons, one after or beside the other, each with a writing thread
SPECIFICATION FairDaemonSpec
CONSTANTS
  Daemons = {d1, d2}
  Writers = {w1}
  Main = Main  None = None
  MaxFiles = 2
  MaxKills = 1
CHECK_DEADLOCK FALSE
INVARIANTS DaemonTypeOK OneLateCommit ServerIsFindable ReleasedIsQuiet ReleasedWritesNothing
PROPERTIES WritersAreFenced OrphansEnd
