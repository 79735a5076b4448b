\* A pause is extended when the one before has just run out
SPECIFICATION SchedSpec
CONSTANTS
  capture = capture  mirror = mirror  serial = serial
  Jobs = {capture, mirror}
  Lanes = {serial}
  LaneOf <- MCLaneOf
  NoJob = NoJob  Poison = Poison
  Isolated = {capture}
  OnStart = {mirror}
  Cadence = 1
  PauseTicks = 1
  MaxCalls = 2
  MaxPauses = 2
  MaxEnds = 0
PROPERTIES QuietIsKept
