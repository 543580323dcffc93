CONSTANTS
  StartFaults = {}
  MaxEvents = 2
  MaxSubscribeErrors = 0
  MaxResubscribes = 1
SPECIFICATION FairSpec
PROPERTY EventsDelivered
CHECK_DEADLOCK FALSE
