\* Two racing uploads, and the builds of what got through.
CONSTANTS
  Uploads <- MCUploads
  Contestants = {c1}
  MaxUploads = 2
  Window = 1
  MaxDelay = 1
  MaxTime = 1
  BatchSize = 2
  Uploadable <- MCUploadable
  Absent = Absent
SPECIFICATION MCSpec
INVARIANTS BuildsConsistent BuiltHasImage BuiltFromManifest
PROPERTIES StatusSettles PickedUp ImplementsBuildPipeline
CHECK_DEADLOCK FALSE
