CONSTANTS
  e1 = e1  e2 = e2  u1 = u1  t1 = t1
  Efds = {e1}
  Usds = {}
  Tmrs = {t1}
  ReapLimit = 2
  BatchSize = 2
  Afters = {1}
  Uses = {"detach", "callback", "rearm", "delete"}
SPECIFICATION FairSpec
INVARIANTS NoDangling OneResult NoOversleep
PROPERTIES TimerFiresUnlessBusy Freed
