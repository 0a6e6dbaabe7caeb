\* The same: the tab is loaded again while its first request still waits.
CONSTANTS
  e1 = e1
  e2 = e2
  a1 = a1
  p1 = p1
  u1 = u1
  b1 = b1
  b2 = b2
  c1 = c1
  c2 = c2
  NoEvent = NoEvent
  NoConnection = NoConnection
  Events <- MCEvents
  Aggregates <- MCAggregates
  Aggregate <- MCAggregate
  Version <- MCVersion
  Pages <- MCPages
  Users <- MCUsers
  User <- MCUser
  Audience <- MCAudience
  Publishers <- MCPublishers
  Connections <- MCConnections
  MaxPerUser = 1
  MaxPerTenant = 2
  MaxQueueEvents = 1
  PageLimit = 1
SPECIFICATION RealtimeSpec
INVARIANTS QuotaIsAnswered
CHECK_DEADLOCK FALSE
