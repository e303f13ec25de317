SPECIFICATION Spec
CONSTANTS
  s1 = s1
  s2 = s2
  t1 = t1
  t2 = t2
  w1 = w1
  Symbols = {s1, s2}
  Io = {t1, t2}
  Workers = {w1}
  MaxPositions = 1
SYMMETRY Symmetric
INVARIANT SlotsOwned
INVARIANT SuppressedOnlyWhenFull
INVARIANT QueuedHasWorker
