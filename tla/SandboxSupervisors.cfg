\* The code's threshold of three failed probes.
CONSTANTS
  None = None
  MaxFails = 3
SPECIFICATION SupervisorsSpec
INVARIANTS SupervisionConsistent
PROPERTIES SupervisorsAct
\* Every supervisor returns in the end.
CHECK_DEADLOCK FALSE
