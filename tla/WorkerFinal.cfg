SPECIFICATION Spec
CONSTANTS
  Keys = {t1}
  Assigned = {t1}
  MaxRuns = 2
  ResultCap = 1
  Outcomes = {"continue", "finish", "panic"}
  MaxOps = 1
  MaxReqs = 1
  MaxFail = 1
  MaxCrash = 0
  TrigCap = 1
  ChCap = 1
  Activities = {"resync", "recycle", "shutdown"}
INVARIANT FinalMeansEnded
CHECK_DEADLOCK FALSE
