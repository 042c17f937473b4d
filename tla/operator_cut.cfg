SPECIFICATION Spec
CONSTANTS
  Modes = {"web"}
  Polls = {1}
  MaxAttempts = 2
  MaxLooks = 4
  Required = 2
  MaxPatches = 0
  Statuses = {"in_queue", "ringing", "transferred", "in_progress", "failed"}
  FlakyPlatform = FALSE
PROPERTIES OperatorCallNotCut
