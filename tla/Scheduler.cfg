\* Up to three nodes of up to three bots, some full, some without a capacity.
CONSTANTS
  MaxNodes = 3
  MaxLoad = 2
  FleetSizes = {0, 3, 4}
  Distributions <- MCDistributions
  DefaultCapacity = 3
SPECIFICATION SchedulerSpec
INVARIANTS RefusedOnlyIfFull PlacementConsistent SharesAreExact
CHECK_DEADLOCK FALSE
