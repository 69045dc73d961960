SPECIFICATION FairSpec
CONSTANTS
  Clients = {phone, tablet}
  MaxRequests = 4
  MaxUpdates = 3
  SubscriberTimeout = 1
  CommandIdLimit = 2
INVARIANTS
  TypeOK
  WebFollowsControllers
  SubscribersAreSound
  CommandsAnswerable
  AnsweredForgotten
  HeldPollIsOpen
PROPERTIES
  ImplementsWebFeed
  CommandsComplete
CHECK_DEADLOCK FALSE
