SPECIFICATION Spec
CONSTANTS
  Layouts <- MCLayouts
  MaxThreads = 2
  TidMod = 3
  MaxSeq = 1
  Callers = 2
  Fails = {}
  MaxMs = 3
  MaxIds = 4
INVARIANT IdsUnique
