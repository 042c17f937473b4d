SPECIFICATION Spec

CONSTANTS
  MaxRooms = 2
  MaxCalls = 2
  Newest = 2
  Systems = {"posix", "windows"}

INVARIANTS
  ResultsAccounted
  PassIsEarned
  OneRunner
PROPERTY
  ControllerFrees

CHECK_DEADLOCK FALSE
