CONSTANTS
  u1 = u1
  kbot = kbot
  sbot = sbot
  nobody = nobody
  b1 = b1
  NoUser = nobody
  Users <- MCUsers
  Scenarios <- MCScenarios
  Briefs = {b1}
  PullLimit = 1
  MaxFailures = 2
  MaxPosts = 1
  MaxRoom = 11
  MaxFaults = 2
SPECIFICATION FairSpec
INVARIANT DeliveryInv
PROPERTIES KeepsPromise MessagesAreTaken NoticesArrive
CHECK_DEADLOCK FALSE
