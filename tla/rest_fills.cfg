SPECIFICATION AnswerSpec
CONSTANTS
  c1 = c1
  c2 = c2
  k1 = k1
  k2 = k2
  k3 = k3
  NoConn = NoConn
  Nobody = Nobody
  Callers = {c1, c2}
  Conns = {k1, k2, k3}
  pool_size = 1
  max_pool_size = 1
  MaxRetries = 3
  o1 = o1
  o2 = o2
  Orders = {o1, o2}
  Qty = 2
  MaxAttempts = 2
  MaxDrops = 1
INVARIANT Exclusive
INVARIANT NoneLeaked
INVARIANT PoolIsBounded
INVARIANT ReportIsReal
INVARIANT ReportIsFinal
PROPERTY ImplementsPost
PROPERTY RequestReturns
PROPERTY QueryReturns
CHECK_DEADLOCK FALSE
