SPECIFICATION ProgramsSpec
CONSTANTS
  Sizes = {1, 2}
  InSize = 2
  CloseSignals = TRUE
  Timeouts = TRUE
  MaxSends = 3
  MaxIn = 2
  MaxConns = 2
  Kinds = {"pubGenT"}
  Num = 2
  Bulks = {0, 1, 2, 3}
  NumWrap = 8
  MaxAnyIn = 0
CHECK_DEADLOCK FALSE
INVARIANT
  SendsAsAsked
