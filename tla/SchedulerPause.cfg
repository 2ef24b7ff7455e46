SPECIFICATION FairSpec
CONSTANTS
  n1 = n1
  n2 = n2
  w1 = w1
  w2 = w2
  t1 = t1
  t2 = t2
  Nodes = {n1}
  Workers = {w1, w2}
  Named = {w1}
  Tasks = {t1}
  Tolerated <- NoneTolerated
  Usages <- OneUsage
  Events = {"crash"}
  MaxFaults = 1
  MaxStarts = 1
  MaxOps = 1
PROPERTY PauseKept
CHECK_DEADLOCK FALSE
