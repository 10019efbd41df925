SPECIFICATION Spec
CONSTANTS
  p1 = p1
  p2 = p2
  p3 = p3
  NoResponder = NoResponder
  NoSub = ""
  Responders <- Peers
  Calls <- CallsFanout
  Mains <- MainsMC
  Subs <- SubsWithBad
  PrefixPairs <- PrefixPairsMC
  RegexPairs <- RegexPairsMC
  BadPatterns <- BadPatternsMC
  MsgSize <- SizeByMain
  MaxOBuf = 3
  Refused <- NoTopics
  AppTopics <- Foo
  Unreliable <- Just2
  Stalled <- Nobody
  BeginWriteThrows = FALSE
  MaxCalls = 4
CHECK_DEADLOCK FALSE
INVARIANTS
  TypeOK
  NoUnprovokedClose
  DeliveryExact
  SubscriptionAgreement
PROPERTIES
  ImplementsPubSub
