\* Two fleets, of one run or of two with names in common, and a stop.
CONSTANTS
  Handlers = {h1, h2}
  Stoppers = {s1}
  Runs = {r1, r2}
  h2 = h2
  r1 = r1
  r2 = r2
  FleetSize <- MCFleetSize
  Prefix <- MCPrefix
  MaxRestarts = 1
  None = None
SPECIFICATION MCSpec
INVARIANTS FleetsConsistent GivenUpLeavesNothing StoppedLeavesNothing
PROPERTIES CallsReturn
CHECK_DEADLOCK FALSE
