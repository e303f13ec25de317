SPECIFICATION Spec
CONSTANTS
  p1 = p1
  p2 = p2
  c1 = c1
  c2 = c2
  a = a
  b = b
  Nothing = Nothing
  Capacity = 2
  Producers = {p1, p2}
  Consumers = {c1, c2}
  Items = {a, b}
  MaxPos = 6
SYMMETRY Symmetric
INVARIANT NoDataRace
PROPERTY ImplementsFifo
