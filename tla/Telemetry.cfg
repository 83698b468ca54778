\* Two kinds of events, fills and garbage through channels of one place.
CONSTANTS
  slow = slow
  skewed = skewed
  Samples <- MCSamples
  Failed <- MCFailed
  Delay <- MCDelay
  Fill = Fill
  Garbage = Garbage
  NoEvent = NoEvent
  RawCap = 1
  FillCap = 1
  WindowSize = 1
  Window = 2
  MaxLog = 3
  MaxTime = 2
SPECIFICATION TelemetryFairSpec
INVARIANTS OffsetsConsistent WindowFollowsLog MetricsAreExact
PROPERTIES EveryMessageHandled
