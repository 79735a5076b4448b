\* A lane shared by two jobs, one restart, the owner calls at any time
SPECIFICATION FairSchedSpec
CONSTANTS
  capture = capture  mirror = mirror  serial = serial
  Jobs = {capture, mirror}
  Lanes = {serial}
  LaneOf <- MCLaneOf
  NoJob = NoJob  Poison = Poison
  Isolated = {capture}
  OnStart = {mirror}
  Cadence = 1
  PauseTicks = 1
  MaxCalls = 3
  MaxPauses = 1
  MaxEnds = 1
INVARIANTS SchedTypeOK StoppedIsQuiet
PROPERTIES QuietIsKept ImplementsRequests RequestedRuns DueJobRuns WorkersEnd
