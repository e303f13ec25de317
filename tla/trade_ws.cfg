SPECIFICATION Spec
CONSTANTS
  c1 = c1
  c2 = c2
  Senders = {c1, c2}
  QueueCap = 3
  MaxFaults = 1
  MaxRetries = 2
  NoMsg = NoMsg
  Auth = Auth
SYMMETRY Symmetric
INVARIANT OneWriter
INVARIANT QueueIsDrained
INVARIANT OneUnlessUnanswered
INVARIANT FilledIsExecuted
CHECK_DEADLOCK FALSE
