SPECIFICATION FairSpec
CONSTANTS
  u1 = u1
  u2 = u2
  m1 = m1
  Clients <- MCClients
  Senders <- MCOneClient
  Resizes <- MCResizes
  MaxNews = 1
INVARIANTS
  OpenIsCounted
  BrokerWritesInTurn
PROPERTIES
  EventsDelivered
  LeaversAreDropped
CHECK_DEADLOCK FALSE
