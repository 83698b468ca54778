\* Four racing uploads of one contestant, with late scripts.
CONSTANTS
  Uploads <- MCUploads
  Contestants = {c1}
  MaxUploads = 2
  Window = 2
  MaxDelay = 1
  MaxTime = 3
  Uploadable <- MCUploadable
  Absent = Absent
SPECIFICATION MCSpec
INVARIANTS RollingWindow AnswersAreTrue
CHECK_DEADLOCK FALSE
