SPECIFICATION Spec
CONSTANTS
  Recordings <- MCRecordings
  FramesPerBuffer = 3
INVARIANTS
  PlayedInOrder
  SavedIsRest
  FailedLeavesNothing
CHECK_DEADLOCK FALSE
