SPECIFICATION Spec
CONSTANTS
  Responders = {1, 2, 3}
  Topics <- TopicsMC
  Farewell = "bye"
  Answer = "reply"
  Stored = 2
  Applications <- ApplicationsMC
  Interests <- InterestsMC
  Slow = {2}
  Publications <- PublicationsMC
  AppTopics <- AppTopicsMC
  MaxEvents = 2
  MaxDepth = 12
CHECK_DEADLOCK FALSE
INVARIANTS
  TypeOK
  ExactlyOnce
  OrderAgreement
  CallbacksOnce
  AsOneStep
  ClosedIsDeleted
  DeletedIsNotUsed
  Unwinds
