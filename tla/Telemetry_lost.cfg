\* The documented delivery guarantee.
CONSTANTS
  slow = slow
  skewed = skewed
  Samples <- MCSamples
  Failed <- MCFailed
  Delay <- MCDelay
  Fill = Fill
  Garbage = Garbage
  NoEvent = NoEvent
  RawCap = 1
  FillCap = 1
  WindowSize = 1
  Window = 2
  MaxLog = 2
  MaxTime = 2
SPECIFICATION TelemetrySpec
INVARIANTS AtLeastOnce
