SPECIFICATION FairSpec
CONSTANTS
  Keys = {k1, k2, k3}
  Vals = {v1, v2}
  Consumers = {c1, c2, c3}
INVARIANTS TypeOK  NoLostWakeup
PROPERTIES EveryItemTaken ConsumersExit DrainReturns 
