\* A browser, or a stranger in its place; one contestant with two scores.
CONSTANTS
  Conns = {c1}
  Messages <- ScoreUpdates
  None = None
  SendCap = 1
  BroadcastCap = 1
  MaxMessages = 2
  Handles = {a}
  MaxScore = 2
  Fetches = {1}
SPECIFICATION FairSpec
INVARIANTS NeverOverstates PageConsistent
PROPERTIES TriesAgain
