\* Two events in two overlapping batches, two workers, two attempts, one lost lease each.
CONSTANTS
  e1 = e1
  e2 = e2
  r1 = r1
  r2 = r2
  w1 = w1
  w2 = w2
  NoEvent = NoEvent
  NoWorker = NoWorker
  Workers <- MCWorkers
  Requests <- MCRequests
  Events <- MCEvents
  BatchOf <- MCBatchOf
  MaxAttempts = 2
  MaxExpiries = 1
SPECIFICATION FairSpec
INVARIANTS TypeOK AckedIsDurable UniqueLease
PROPERTIES FencedMarks ImplementsQueue EventuallyDecided
CHECK_DEADLOCK FALSE
