CONSTANTS
  t1 = t1
  t2 = t2
  f1 = f1
  c1 = c1
  c2 = c2
  Tmrs = {t1}
  Efds = {f1}
  Calls = {c1, c2}
  Home <- MCHome
  Limit = 2
  Lens = {1, 2}
  MaxBytes = 1
  MaxIo = 2
  MaxCtc = 3
SPECIFICATION KqSpec
INVARIANT CallsKept
SYMMETRY Symm
