CONSTANTS
  t1 = t1
  t2 = t2
  f1 = f1
  c1 = c1
  c2 = c2
  Tmrs = {t1, t2}
  Efds = {f1}
  Calls = {}
  Home <- MCHome
  Limit = 1
  Lens = {1, 2}
  MaxBytes = 1
  MaxIo = 3
  MaxCtc = 1
SPECIFICATION KqSpec
INVARIANT TimerKept
