SPECIFICATION Spec
CONSTANTS
  p1 = p1
  p2 = p2
  p3 = p3
  NoResponder = NoResponder
  NoSub = ""
  Responders <- Peers
  Calls <- CallsSelf
  Mains <- OneMain
  Subs <- OneSub
  PrefixPairs <- OnePrefixPair
  RegexPairs <- NoPairs
  BadPatterns <- NoPairs
  MsgSize <- UnitSize
  MaxOBuf = 1
  Refused <- NoTopics
  AppTopics <- NoTopics
  Unreliable <- Nobody
  Stalled <- Nobody
  BeginWriteThrows = FALSE
  MaxCalls = 4
CHECK_DEADLOCK FALSE
INVARIANTS
  NoUseAfterDelete
