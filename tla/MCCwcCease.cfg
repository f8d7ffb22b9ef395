CONSTANTS
  c1 = c1
  c2 = c2
  e1 = e1
  k1 = k1
  k2 = k2
  t1 = t1
  None = None
  Mainco = Mainco
  Co = {c1, c2}
  Ios = {e1}
  Ctcs = {k1, k2}
  Tmrs = {t1}
  Binds = {"cwc"}
  CeaseIn = {"cwc"}
  PoolMax = 1
  MaxCalls = 5
SPECIFICATION CoSpec
INVARIANT WokenByOwn
CHECK_DEADLOCK FALSE
