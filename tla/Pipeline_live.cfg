\* Every event is decided, through lock waits, crashes and agents closing conversations.
CONSTANTS
  e1 = e1
  e2 = e2
  r1 = r1
  w1 = w1
  w2 = w2
  alice = alice
  NoEvent = NoEvent
  NoWorker = NoWorker
  Events <- MCEvents
  Workers <- MCWorkers
  Requests <- MCRequests
  BatchOf <- MCBatchOf
  Phones <- MCPhones
  PhoneOf <- MCPhoneOf
  Seconds <- MCSeconds
  SecondOf <- MCApart
  MaxAttempts = 1
  MaxExpiries = 1
SPECIFICATION PipelineFairSpec
PROPERTY EventuallyDecided
CHECK_DEADLOCK FALSE
