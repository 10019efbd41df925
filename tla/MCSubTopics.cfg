SPECIFICATION Spec
CONSTANTS
  p1 = p1
  p2 = p2
  p3 = p3
  NoResponder = NoResponder
  NoSub = ""
  Responders <- Peers
  Calls <- CallsSubTopics
  Mains <- OneMain
  Subs <- SubsMC
  PrefixPairs <- OnePrefixPair
  RegexPairs <- RegexPairsMC
  BadPatterns <- NoPairs
  MsgSize <- UnitSize
  MaxOBuf = 0
  Refused <- NoTopics
  AppTopics <- NoTopics
  Unreliable <- Nobody
  Stalled <- Nobody
  BeginWriteThrows = FALSE
  MaxCalls = 4
CHECK_DEADLOCK FALSE
INVARIANTS
  SubscriptionAgreement
