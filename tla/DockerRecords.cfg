SPECIFICATION FairSpec
CONSTANTS
  Keys = {k1}
  MaxConts = 1
  ResultCap = 1
  Codes = {0}
  Events = {"pause"}
  ChCap = 1
  Steps = 2
  MaxFail = 1
  MaxCrash = 1
PROPERTIES    CacheFollows
