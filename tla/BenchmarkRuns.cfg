\* Three runs of a contestant who may have one: two handlers create, advance,
\* fail and cancel them.
CONSTANTS
  Contestants = {c1}
  RunIds = {r1, r2, r3}
  Handlers = {h1, h2}
  MaxConcurrentRuns = 1
  Requested <- ShortLife
  Absent = Absent
SPECIFICATION FairSpec
INVARIANTS TypeOK AuditExplainsStatus OvershootBounded
PROPERTIES TerminalIsFinal ImplementsLifecycle EveryCallReturns
