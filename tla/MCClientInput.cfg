SPECIFICATION FairSpec
CONSTANTS
  Sizes = {1}
  InSize = 2
  CloseSignals = TRUE
  Timeouts = FALSE
  MaxSends = 2
  MaxIn = 2
  MaxConns = 2
CHECK_DEADLOCK FALSE
INVARIANTS
  InboundExact
  NoneLeftBehind
  ClosedMeansGone
  StaysReading
PROPERTIES
  SentIsSignalled
  GoneIsSignalled
