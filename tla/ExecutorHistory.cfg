SPECIFICATION HSpec
CONSTANTS
  Keys = {t1}
  MaxRuns = 2
  ResultCap = 1
  Outcomes = {"continue", "finish", "panic"}
INVARIANTS ETypeOK OwnCtrl OwnTokens ListTruthful FinalReported
CHECK_DEADLOCK FALSE
