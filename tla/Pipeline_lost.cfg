\* Nothing fails, and a message is lost all the same.
CONSTANTS
  e1 = e1
  e2 = e2
  r1 = r1
  w1 = w1
  w2 = w2
  alice = alice
  NoEvent = NoEvent
  NoWorker = NoWorker
  Events <- MCEvents
  Workers <- MCWorkers
  Requests <- MCRequests
  BatchOf <- MCBatchOf
  Phones <- MCPhones
  PhoneOf <- MCPhoneOf
  Seconds <- MCSeconds
  SecondOf <- MCTogether
  MaxAttempts = 2
  MaxExpiries = 0
SPECIFICATION CalmSpec
INVARIANT OneDurableEffect
CHECK_DEADLOCK FALSE
