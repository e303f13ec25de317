SPECIFICATION Spec
CONSTANTS
  s1 = s1
  t1 = t1
  w1 = w1
  w2 = w2
  Symbols = {s1}
  Io = {t1}
  Workers = {w1, w2}
  MaxPositions = 2
INVARIANT OneLoopPerSymbol
