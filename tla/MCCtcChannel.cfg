CONSTANTS
  w1 = w1  w2 = w2  c1 = c1  c2 = c2  c3 = c3
  Master = Master
  Workers = {w1, w2}
  Ctcs = {c1, c2, c3}
SPECIFICATION Spec
SYMMETRY Symmetry
INVARIANTS TokenOnce NoListRace WakeBits BatchReadable NoLostWakeup
PROPERTY ImplementsFifo
