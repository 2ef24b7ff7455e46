SPECIFICATION EFairSpec
CONSTANTS
  Keys = {t1}
  MaxRuns = 1
  ResultCap = 1
  Outcomes = {"continue", "finish", "error", "panic"}
PROPERTIES StopEndsRun ExitEndsRun
CHECK_DEADLOCK FALSE
