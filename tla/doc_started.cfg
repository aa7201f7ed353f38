\* A process that says it started
SPECIFICATION Spec
CONSTANTS
  c1 = c1  c2 = c2  c3 = c3
  Stopper = Stopper  None = None
  Clients = {c1}
  BacklogSize = 2
  MaxSignals = 2
INVARIANT StartedMeansServing
CHECK_DEADLOCK FALSE
