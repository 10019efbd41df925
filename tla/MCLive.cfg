SPECIFICATION FairSpec
CONSTANTS
  p1 = p1
  p2 = p2
  p3 = p3
  NoResponder = NoResponder
  NoSub = ""
  Responders <- LivePeers
  Calls <- CallsLive
  Mains <- OneMain
  Subs <- SubsMC
  PrefixPairs <- OnePrefixPair
  RegexPairs <- NoPairs
  BadPatterns <- NoPairs
  MsgSize <- UnitSize
  MaxOBuf = 0
  Refused <- FooA
  AppTopics <- NoTopics
  Unreliable <- Just3
  Stalled <- Just3
  BeginWriteThrows = FALSE
  MaxCalls = 3
CHECK_DEADLOCK FALSE
PROPERTIES
  InputHandled
  EventuallyDelivered
  GoneIsClosed
