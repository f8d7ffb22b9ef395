CONSTANTS
  w1 = w1  w2 = w2  c1 = c1  c2 = c2
  Master = Master
  Workers = {w1, w2}
  Ctcs = {c1}
  Owners = {Master, w1, w2}
  Targets = {Master, w1, w2}
  SycThreads = {w1, w2}
  Detached = {FALSE}
  MaxRounds = 3
  MaxRetos = 2
SPECIFICATION Spec
INVARIANT DoingUntilPopped
CHECK_DEADLOCK FALSE
