SPECIFICATION FairSpec
CONSTANTS
  Keys = {t1}
  Assigned = {t1}
  MaxRuns = 2
  ResultCap = 1
  Outcomes = {"continue", "finish"}
  MaxOps = 0
  MaxReqs = 1
  MaxFail = 0
  MaxCrash = 0
  TrigCap = 1
  ChCap = 1
  Activities = {}
PROPERTY FinalKept
CHECK_DEADLOCK FALSE
