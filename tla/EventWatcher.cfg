CONSTANTS
  StartFaults <- AllFaults
  MaxEvents = 3
  MaxSubscribeErrors = 1
  MaxResubscribes = 1
SPECIFICATION FairSpec
INVARIANTS
  TypeOK
  FeedLossless
  ToldIsVisible
  NoPatchAfterGone
  OvertakenByOne
PROPERTIES
  FeedInOrder
  ImplementsFeed
  DeliveredWhileConnected
  CallsComplete
CHECK_DEADLOCK FALSE
