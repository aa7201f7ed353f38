\* Start, stop and signals; clients finish what they began
SPECIFICATION CourteousSpec
CONSTANTS
  c1 = c1  c2 = c2  c3 = c3
  Stopper = Stopper  None = None
  Clients = {c1, c2, c3}
  BacklogSize = 2
  MaxSignals = 2
INVARIANTS TypeOK ThreadWithinServer AtMostOneLate AnswerIsTried
PROPERTIES ImplementsServerApi StopTerminates SignalEndsProcess SentRequestEnds
CHECK_DEADLOCK FALSE
