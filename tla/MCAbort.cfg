SPECIFICATION Spec
CONSTANTS
  p1 = p1
  p2 = p2
  p3 = p3
  NoResponder = NoResponder
  NoSub = ""
  Responders <- ThreePeers
  Calls <- CallsAbort
  Mains <- MainsMC
  Subs <- OneSub
  PrefixPairs <- PrefixPairsMC
  RegexPairs <- NoPairs
  BadPatterns <- NoPairs
  MsgSize <- SizeByMain
  MaxOBuf = 3
  Refused <- NoTopics
  AppTopics <- Foo
  Unreliable <- Just3
  Stalled <- Nobody
  BeginWriteThrows = TRUE
  MaxCalls = 5
CHECK_DEADLOCK FALSE
INVARIANTS
  OutputBounded
  NoUseAfterDelete
  ResponderLife
  StreamOrdered
  PublishedInOrder
