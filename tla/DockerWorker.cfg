SPECIFICATION Spec
CONSTANTS
  Keys = {k1}
  MaxConts = 1
  ResultCap = 1
  Codes = {0, 1}
  Events = {"stop", "pause", "start fails", "wait fails"}
  ChCap = 1
  Steps = 1
  MaxFail = 0
  MaxCrash = 2
INVARIANTS TypeOK Watched
