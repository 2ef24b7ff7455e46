SPECIFICATION FairSpec
CONSTANTS
  Keys = {t1}
  Assigned = {t1}
  MaxRuns = 1
  ResultCap = 1
  Outcomes = {"continue"}
  MaxOps = 2
  MaxReqs = 1
  MaxFail = 0
  MaxCrash = 1
  TrigCap = 1
  ChCap = 1
  Activities = {"resync", "shutdown"}
  
PROPERTIES  Converges ShutdownDrains
CHECK_DEADLOCK FALSE
