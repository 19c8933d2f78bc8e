SPECIFICATION ReleaseSpec
CONSTANTS
  Versions <- Tags
  Stable <- Patches
  FirstTags <- Older
  NoTag = "none"
  Attempts = 3
  Lag = 2
  LostAnswers = {"create", "tag", "publish"}
  MaxRuns = 3
INVARIANTS RollbackComplete RestingAgrees SuccessEvidenced
PROPERTY RemovedJustly
