\* Two messages, one sender, the same second: crashes, takeovers, lost commits, agents.
CONSTANTS
  e1 = e1
  e2 = e2
  r1 = r1
  w1 = w1
  w2 = w2
  alice = alice
  NoEvent = NoEvent
  NoWorker = NoWorker
  Events <- MCEvents
  Workers <- MCWorkers
  Requests <- MCRequests
  BatchOf <- MCBatchOf
  Phones <- MCPhones
  PhoneOf <- MCPhoneOf
  Seconds <- MCSeconds
  SecondOf <- MCTogether
  MaxAttempts = 2
  MaxExpiries = 1
SYMMETRY Symmetry
SPECIFICATION PipelineSpec
INVARIANTS PipelineTypeOK OneMessagePerEvent ProcessedIsStored EveryMessageAnnounced
CHECK_DEADLOCK FALSE
