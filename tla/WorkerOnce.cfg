SPECIFICATION Spec
CONSTANTS
  Keys = {t1}
  Assigned = {}
  MaxRuns = 2
  ResultCap = 1
  Outcomes = {"continue", "finish", "panic"}
  MaxOps = 0
  MaxReqs = 1
  MaxFail = 1
  MaxCrash = 0
  TrigCap = 1
  ChCap = 1
  Activities = {"resync", "refresh"}
INVARIANTS TypeOK StartedOnce
CHECK_DEADLOCK FALSE
