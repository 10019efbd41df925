SPECIFICATION ProgramsSpec
CONSTANTS
  Sizes = {1, 2}
  InSize = 2
  CloseSignals = TRUE
  Timeouts = TRUE
  MaxSends = 3
  MaxIn = 2
  MaxConns = 2
  Kinds = {"any", "pubGen", "pubGenT", "pubCopy", "reader"}
  Num = 2
  Bulks = {0, 1, 2, 3}
  NumWrap = 8
  MaxAnyIn = 0
CHECK_DEADLOCK FALSE
INVARIANTS
  TypeOK
  PinnedUntouched
  WireExact
  CountedIsWritten
  CopiesEach
PROPERTY
  GeneratorEnds
