CONSTANTS
  t1 = t1
  t2 = t2
  f1 = f1
  c1 = c1
  c2 = c2
  Tmrs = {}
  Efds = {}
  Calls = {c1, c2}
  Home <- MCHome
  Limit = 2
  Lens = {1}
  MaxBytes = 1
  MaxIo = 0
  MaxCtc = 3
SPECIFICATION KqSpec
INVARIANT TurnKept
